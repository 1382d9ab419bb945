------------------------ MODULE DaemonBootstrapProofs ------------------------
(***************************************************************************)
(* For any clients, binaries, versions, models and bounds: the lock has    *)
(* one holder and every variable its type (LockedAndTyped), a daemon is    *)
(* replaced by a newer one with the model the manifest names               *)
(* (Upgraded, SameModel), and in a home where a daemon was recorded        *)
(* before, while no client failed, no daemon gets a second one beside it,  *)
(* none that is not owned is stopped and the manifest is true              *)
(* (NotDuplicated, ExternalStays, ManifestTrue).                           *)
(*                                                                         *)
(* What a client knows under the lock (Known), and what the manifest says  *)
(* of the process it names (Truthful), hold whatever fails; that at most   *)
(* one daemon is alive, and known for what it is (Sole), only while no     *)
(* client failed.                                                          *)
(***************************************************************************)
EXTENDS DaemonBootstrap, TLAPS

USE DEF vars, daemonVars, boundVars

-----------------------------------------------------------------------------
(* The invariants.                                                         *)

External == {"override", "path"}

\* A dead process leaves nothing to look at, and numbers are not used twice.
Processes ==
    /\ \A d \in Pids : image[d] = None <=> proc[d] \in {"unused", "dead"}
    /\ socket # None => proc[socket] # "unused"
    /\ manifest # None => proc[manifest.pid] # "unused"

\* The client upgrades to its sibling: it has one and no override.
Upgrading(c) == Override[c] = None /\ HasSibling(c)

\* The manifest is what was read under the lock, and every place of an operation
\* has what the next step needs.
Known(c) ==
    /\ Sibling[c] # None => job[c].want <= installed[Sibling[c]]
    /\ job[c].at # "idle" => job[c].m = manifest /\ job[c].op # "none"
    /\ job[c].at \in {"probe", "stop", "rpc", "term", "down"} => job[c].m # None
    /\ job[c].at \in {"probe", "stop", "rpc", "term"} => job[c].victim = None
    /\ job[c].at \in {"stop", "rpc", "term", "down"} =>
          /\ job[c].keep /\ job[c].m.origin \notin External
          /\ job[c].pid # None /\ proc[job[c].pid] # "unused"
          /\ job[c].op # "prepare" => Upgrading(c)
    /\ job[c].at \in {"choose", "start", "check", "health"} => job[c].op # "prepare"
    /\ job[c].at \in {"start", "check", "health"} =>
          /\ job[c].plan # None
          /\ job[c].plan.expect # 0 => job[c].plan.origin = "sibling"
    /\ job[c].at = "start" => installed[job[c].plan.binary] > 0
    /\ job[c].at \in {"check", "health"} =>
          /\ job[c].pid # None /\ proc[job[c].pid] # "unused"
          /\ image[job[c].pid] # None =>
                /\ image[job[c].pid].binary = job[c].plan.binary
                /\ image[job[c].pid].model  = job[c].plan.model
                /\ image[job[c].pid].origin = job[c].plan.origin

\* The daemon an operation found is older than what the client has, and what
\* the client remembers of it is true.
Older(c) ==
    /\ job[c].at \in {"stop", "rpc", "term"} /\ job[c].op # "prepare" =>
          (image[job[c].pid] # None => image[job[c].pid].version < Wanted(c))
    /\ job[c].at \in {"down", "choose", "start"} /\ job[c].victim # None =>
          /\ job[c].keep /\ job[c].m # None
          /\ job[c].victim.pid = job[c].m.pid => job[c].victim.model = job[c].m.model
          /\ job[c].op # "prepare" =>
                /\ Upgrading(c)
                /\ job[c].victim.pid = job[c].pid => job[c].victim.version < Wanted(c)
    /\ job[c].at = "start" /\ job[c].victim # None =>
          /\ job[c].plan.binary = Sibling[c]
          /\ job[c].plan.model = job[c].m.model

\* The process the manifest names, while it is alive, has the binary and the
\* model of the manifest, and is not taken for owned if it is not.
Truthful ==
    manifest # None /\ image[manifest.pid] # None =>
        /\ image[manifest.pid].binary = manifest.binary
        /\ image[manifest.pid].model = manifest.model
        /\ image[manifest.pid].origin \in External => manifest.origin \in External

BootstrapInv ==
    /\ TypeOK /\ Processes /\ Truthful /\ slips \in Nat
    /\ \A c \in Clients : Known(c) /\ Older(c)

\* Client c has started process d and waits for it.
Awaits(c, d) == job[c].at \in {"check", "health"} /\ job[c].pid = d

\* What a client that works may count on: no other daemon is alive than the one
\* it found or started.
Alone(c) ==
    /\ job[c].at \in {"choose", "start"} => \A d \in Pids : image[d] = None
    /\ job[c].at \in {"stop", "rpc", "term", "check", "health"} =>
          \A d \in Pids : d # job[c].pid => image[d] = None
    /\ job[c].at \in {"stop", "rpc", "term"} /\ image[job[c].pid] # None =>
          image[job[c].pid].version \in Compatible

\* While no client failed, the daemon at the endpoint or the one being started
\* is the only one; the manifest has its version, and if it is not the one the
\* manifest names, it is a sibling of another version than expected, or speaks
\* another API.
Sole ==
    slips = 0 =>
        /\ manifest # None
        /\ \A d \in Pids :
              /\ proc[d] \in {"starting", "cleared"} => \E c \in Clients : Awaits(c, d)
              /\ proc[d] \in {"up", "stopping"} => socket = d
              /\ /\ proc[d] = "up" /\ d # manifest.pid /\ image[d].version \in Compatible
                 /\ \A c \in Clients : ~Awaits(c, d)
                 => image[d].origin = "sibling"
        /\ image[manifest.pid] # None => image[manifest.pid].version = manifest.version
        /\ \A c \in Clients : Alone(c)

-----------------------------------------------------------------------------
(* The record a client keeps, and what no step of anyone undoes.           *)

Jobs == [at : Places, op : Operations \cup {"none"},
         m : Manifests \cup {None}, keep : BOOLEAN, want : Nat, pid : Pids \cup {None},
         victim : Victims \cup {None}, plan : Plans \cup {None}]

\* A client that does nothing has a record like any other.
LEMMA IdleIsAJob == Idle \in Jobs /\ Idle.at = "idle" /\ Idle.want = 0
BY DEF Idle, Jobs, Places, Operations

\* The lock has one holder: while client c is at work no other is.
LEMMA OneAtWork ==
    ASSUME TypeOK, NEW c \in Clients, job[c].at # "idle",
           NEW e \in Clients, e # c
    PROVE  job[e].at = "idle" /\ lock = c
BY DEF TypeOK

\* The binary that is downloaded was missing before.
LEMMA OnlyMissingIsDownloaded ==
    ASSUME TypeOK, NEW c \in Clients, Known(c), job[c].at = "choose",
           ~(installed[Chosen(c).binary] > 0), Chosen(c).origin # "override"
    PROVE  Chosen(c).binary = Managed /\ installed[Managed] = 0
<1> USE HomeAssumption, NoneAssumption
<1>1. Override[c] = None
  <2> SUFFICES ASSUME Override[c] # None PROVE FALSE
    OBVIOUS
  <2> QED BY DEF Chosen, Resolved
<1>2. Chosen(c).binary = Managed
  BY <1>1 DEF Chosen, FoundOnPath
<1> QED BY <1>2 DEF TypeOK

\* What Choose starts, as a value of the kind the client keeps.
LEMMA ChosenIsAPlan ==
    ASSUME TypeOK, NEW c \in Clients
    PROVE  Chosen(c).binary \in Binaries /\ Chosen(c).origin \in Origins
<1> USE HomeAssumption, NoneAssumption
<1>1. Resolved(c).binary \in Binaries /\ Resolved(c).origin \in Origins
  <2>1. CASE job[c].m = None
    BY <2>1 DEF Resolved, Origins, HasSibling
  <2>2. CASE job[c].m # None
    <3>1. job[c].m \in Manifests
      BY <2>2 DEF TypeOK
    <3> QED BY <3>1 DEF Resolved, Origins, HasSibling, Manifests
  <2> QED BY <2>1, <2>2
<1> QED BY <1>1 DEF Chosen, FoundOnPath, Origins

\* The version of a binary never falls.
LEMMA InstalledGrows ==
    ASSUME BootstrapInv, [Next]_vars
    PROVE  \A f \in Binaries : installed[f] <= installed'[f]
<1> SUFFICES ASSUME NEW f \in Binaries PROVE installed[f] <= installed'[f]
  OBVIOUS
<1> USE HomeAssumption
<1>0. installed \in [Binaries -> Nat]
  BY DEF BootstrapInv, TypeOK
<1>1. CASE installed' = installed
  BY <1>0, <1>1
<1>2. ASSUME NEW b \in Packaged, Upgrade(b) PROVE installed[f] <= installed'[f]
  BY <1>0, <1>2 DEF Upgrade
<1>3. ASSUME NEW c \in Clients, Choose(c) PROVE installed[f] <= installed'[f]
  <2>1. TypeOK /\ Known(c) /\ job[c].at = "choose"
    BY <1>3 DEF BootstrapInv, Choose
  <2>2. CASE installed' = installed
    BY <1>0, <2>2
  <2>3. CASE installed' # installed
    <3>1. /\ ~(installed[Chosen(c).binary] > 0) /\ Chosen(c).origin # "override"
          /\ installed' = Downloaded(c)
      BY <1>3, <2>3 DEF Choose
    <3>2. installed[Managed] = 0
      BY <2>1, <3>1, OnlyMissingIsDownloaded
    <3> QED BY <1>0, <3>1, <3>2 DEF Downloaded, Versions
  <2> QED BY <2>2, <2>3
<1>4. installed' = installed \/ (\E c \in Clients : Choose(c)) \/ (\E b \in Packaged : Upgrade(b))
  BY DEF Next, ClientStep, DaemonStep, Begin, Reuse, Replace, FindSilent, ProbeFails,
         CheckOwner, SendShutdown, Terminate, SeeDown, DownTimeout, Spawn, CheckChild,
         SeeUp, HealthTimeout, GiveUp, ClearSocket, Bind, Unlink, StartFails, Lose
<1> QED BY <1>1, <1>2, <1>3, <1>4

\* A process that was started is never one to be started again, and its image
\* stays until it dies.
LEMMA ImagesStay ==
    ASSUME BootstrapInv, [Next]_vars, NEW d \in Pids, proc[d] # "unused"
    PROVE  proc'[d] # "unused" /\ image'[d] \in {image[d], None}
<1>0. proc \in [Pids -> {"unused", "starting", "cleared", "up", "stopping", "dead"}]
      /\ image \in [Pids -> Images \cup {None}]
  BY DEF BootstrapInv, TypeOK
<1>1. CASE proc' = proc /\ image' = image
  BY <1>1
<1>2. ASSUME NEW e \in Pids, NEW place \in {"cleared", "up", "stopping", "dead"},
             Becomes(e, place)
      PROVE  proc'[d] # "unused" /\ image'[d] \in {image[d], None}
  BY <1>0, <1>2 DEF Becomes
<1>3. ASSUME NEW c \in Clients, Spawn(c)
      PROVE  proc'[d] # "unused" /\ image'[d] \in {image[d], None}
  <2> PICK e \in Pids :
          /\ \A f \in Pids : proc[f] = "unused" <=> e <= f
          /\ proc'  = [proc EXCEPT ![e] = "starting"]
          /\ image' = [image EXCEPT ![e] =
                [binary  |-> job[c].plan.binary,
                 version |-> installed[job[c].plan.binary],
                 model   |-> job[c].plan.model,
                 origin  |-> job[c].plan.origin]]
    BY <1>3 DEF Spawn
  <2>1. d # e
    BY HomeAssumption
  <2> QED BY <1>0, <2>1
<1>4. CASE \E c \in Clients : SendShutdown(c)
  <2> PICK c \in Clients : SendShutdown(c)
    BY <1>4
  <2>1. CASE proc' = proc /\ image' = image
    BY <2>1
  <2>2. CASE Serving # None /\ Becomes(Serving, "stopping")
    <3>1. Serving \in Pids
      BY <2>2 DEF Serving, BootstrapInv, TypeOK
    <3> QED BY <1>2, <2>2, <3>1
  <2> QED BY <2>1, <2>2 DEF SendShutdown
<1>5. CASE \E c \in Clients : Terminate(c)
  <2> PICK c \in Clients : Terminate(c)
    BY <1>5
  <2>1. CASE proc' = proc /\ image' = image
    BY <2>1
  <2>2. CASE \E end \in {"stopping", "dead"} : Becomes(job[c].pid, end)
    <3>1. job[c].pid \in Pids
      BY DEF Terminate, BootstrapInv, TypeOK, Known
    <3> QED BY <1>2, <2>2, <3>1
  <2> QED BY <2>1, <2>2 DEF Terminate
<1>6. ASSUME NEW e \in Pids, DaemonStep(e) \/ StartFails(e) \/ Lose(e)
      PROVE  proc'[d] # "unused" /\ image'[d] \in {image[d], None}
  BY <1>2, <1>6 DEF DaemonStep, ClearSocket, Bind, Unlink, StartFails, Lose
<1> QED
  BY <1>1, <1>3, <1>4, <1>5, <1>6
  DEF Next, ClientStep, Begin, Reuse, Replace, FindSilent, ProbeFails, CheckOwner, SeeDown,
      DownTimeout, Choose, CheckChild, SeeUp, HealthTimeout, GiveUp, Upgrade

-----------------------------------------------------------------------------
(* Every variable keeps its type.                                          *)

\* Going on to another place is a change of the place only.
LEMMA GotoKeepsTypes ==
    ASSUME TypeOK, NEW c \in Clients, job[c].at # "idle",
           NEW place \in Places \ {"idle"}, Goto(c, place),
           UNCHANGED <<installed, socket>>,
           proc' \in [Pids -> {"unused", "starting", "cleared", "up", "stopping", "dead"}],
           image' \in [Pids -> Images \cup {None}]
    PROVE  TypeOK'
BY DEF TypeOK, Goto

\* An operation that ends gives the lock back with its record.
LEMMA FinishKeepsTypes ==
    ASSUME TypeOK, NEW c \in Clients, job[c].at # "idle", Finish(c),
           UNCHANGED <<installed, socket>>, manifest' \in Manifests \cup {None},
           proc' \in [Pids -> {"unused", "starting", "cleared", "up", "stopping", "dead"}],
           image' \in [Pids -> Images \cup {None}]
    PROVE  TypeOK'
BY IdleIsAJob, NoneAssumption DEF TypeOK, Finish, Jobs

\* A client at work writes another record of its own.
LEMMA JobKeepsTypes ==
    ASSUME TypeOK, NEW c \in Clients, job[c].at # "idle",
           NEW next \in Jobs, next.at # "idle", job' = [job EXCEPT ![c] = next],
           UNCHANGED <<lock, manifest, socket>>, installed' \in [Binaries -> Nat],
           proc' \in [Pids -> {"unused", "starting", "cleared", "up", "stopping", "dead"}],
           image' \in [Pids -> Images \cup {None}]
    PROVE  TypeOK'
BY DEF TypeOK, Jobs

\* The changes a client makes to its record.
LEMMA JobUpdates ==
    ASSUME NEW j \in Jobs, NEW place \in Places, NEW pid \in Pids \cup {None},
           NEW victim \in Victims \cup {None}, NEW plan \in Plans \cup {None}
    PROVE  /\ [j EXCEPT !.at = place, !.pid = pid] \in Jobs
           /\ [j EXCEPT !.at = place, !.pid = pid, !.keep = TRUE] \in Jobs
           /\ [j EXCEPT !.at = place, !.victim = victim] \in Jobs
           /\ [j EXCEPT !.at = place, !.plan = plan] \in Jobs
BY DEF Jobs

\* A step of a daemon or of the world leaves the clients alone.
LEMMA WorldKeepsTypes ==
    ASSUME TypeOK, UNCHANGED <<lock, manifest, job>>,
           installed' \in [Binaries -> Nat], socket' \in Pids \cup {None},
           proc' \in [Pids -> {"unused", "starting", "cleared", "up", "stopping", "dead"}],
           image' \in [Pids -> Images \cup {None}]
    PROVE  TypeOK'
BY DEF TypeOK

\* A daemon that goes on keeps its image, or has none when it is dead.
LEMMA BecomesKeepsTypes ==
    ASSUME TypeOK, NEW d \in Pids,
           NEW place \in {"cleared", "up", "stopping", "dead"}, Becomes(d, place)
    PROVE  /\ proc' \in [Pids -> {"unused", "starting", "cleared", "up", "stopping", "dead"}]
           /\ image' \in [Pids -> Images \cup {None}]
BY DEF TypeOK, Becomes

\* What a client remembers of the daemon it stopped has its type.
LEMMA StoppedIsAVictim ==
    ASSUME TypeOK, Processes, NEW d \in Pids, proc[d] \notin {"unused", "dead"}
    PROVE  Stopped(d) \in Victims
BY NoneAssumption DEF TypeOK, Processes, Stopped, Victims, Images

\* The origin a client writes for the running daemon is one.
LEMMA OriginsAreOrigins ==
    ASSUME TypeOK, NEW c \in Clients, job[c].m # None
    PROVE  OriginFor(c) \in Origins
BY DEF TypeOK, OriginFor, EffectiveOrigin, Origins, Manifests

\* Every step keeps the types (TypeOK).
LEMMA TypesNext == BootstrapInv /\ [Next]_vars => TypeOK'
<1> SUFFICES ASSUME BootstrapInv, [Next]_vars PROVE TypeOK'
  OBVIOUS
<1> USE HomeAssumption, NoneAssumption
<1>0. TypeOK /\ Processes /\ \A c \in Clients : Known(c)
  BY DEF BootstrapInv
<1>a. /\ proc \in [Pids -> {"unused", "starting", "cleared", "up", "stopping", "dead"}]
      /\ image \in [Pids -> Images \cup {None}]
      /\ installed \in [Binaries -> Nat] /\ manifest \in Manifests \cup {None}
      /\ socket \in Pids \cup {None} /\ job \in [Clients -> Jobs]
  BY <1>0 DEF TypeOK, Jobs
<1>1. CASE UNCHANGED vars
  BY <1>0, <1>1 DEF TypeOK
<1>2. ASSUME NEW c \in Clients, NEW op \in Ops[c], Begin(c, op) PROVE TypeOK'
  <2> DEFINE want == IF op = "reconcile" /\ HasSibling(c) THEN installed[Sibling[c]] ELSE 0
             next == [Idle EXCEPT !.at = IF manifest = None THEN "choose" ELSE "probe",
                                  !.op = op, !.m = manifest, !.want = want,
                                  !.keep = (op = "activate")]
  <2>1. op \in Operations
    OBVIOUS
  <2>2. want \in Nat
    BY <1>a DEF HasSibling
  <2>3. next \in Jobs /\ next.at # "idle"
    <3> HIDE DEF want
    <3> QED BY <1>a, <2>1, <2>2 DEF Idle, Jobs, Places
  <2>4. job' = [job EXCEPT ![c] = next] /\ lock = None /\ lock' = c
        /\ UNCHANGED <<manifest, installed, socket, proc, image>>
    BY <1>2 DEF Begin
  <2> HIDE DEF next
  <2> QED BY <1>0, <2>3, <2>4 DEF TypeOK, Jobs
<1>3. ASSUME NEW c \in Clients, Reuse(c) PROVE TypeOK'
  <2>1. job[c].at # "idle" /\ job[c].m \in Manifests /\ OriginFor(c) \in Origins
    BY <1>0, <1>3, OriginsAreOrigins DEF Reuse, TypeOK, Known
  <2>2. Serving \in Pids /\ image[Serving].version \in Versions
    <3>1. Serving \in Pids /\ proc[Serving] = "up"
      BY <1>a, <1>3 DEF Reuse, Healthy, Serving
    <3>2. image[Serving] \in Images
      BY <1>0, <1>a, <3>1 DEF Processes
    <3> QED BY <3>1, <3>2 DEF Images
  <2>3. manifest' \in Manifests \cup {None}
    <3>1. [job[c].m EXCEPT !.version = image[Serving].version,
                           !.origin  = OriginFor(c)] \in Manifests
      BY <2>1, <2>2 DEF Manifests
    <3> QED BY <1>a, <1>3, <3>1 DEF Reuse
  <2> QED BY <1>0, <1>a, <1>3, <2>1, <2>3, FinishKeepsTypes DEF Reuse
<1>4. ASSUME NEW c \in Clients, Replace(c) PROVE TypeOK'
  <2> DEFINE next == [job[c] EXCEPT !.at = "stop", !.pid = Serving, !.keep = TRUE]
  <2>0. job[c] \in Jobs /\ Serving \in Pids \cup {None} /\ job[c].at = "probe"
    BY <1>a, <1>4 DEF Replace, Serving
  <2>1. next \in Jobs /\ next.at # "idle" /\ job[c].at # "idle"
    <3>1. next \in Jobs
      BY <2>0, JobUpdates DEF Places
    <3> QED BY <2>0, <3>1 DEF Jobs
  <2>2. job' = [job EXCEPT ![c] = next]
    BY <1>4, <1>a DEF Replace, Jobs
  <2> HIDE DEF next
  <2> QED BY <1>0, <1>a, <1>4, <2>1, <2>2, JobKeepsTypes DEF Replace
<1>5. ASSUME NEW c \in Clients,
             FindSilent(c) \/ ProbeFails(c) \/ CheckOwner(c) \/ SeeDown(c)
                \/ DownTimeout(c) \/ CheckChild(c) \/ HealthTimeout(c) \/ GiveUp(c)
      PROVE  TypeOK'
  BY <1>0, <1>a, <1>5, FinishKeepsTypes, GotoKeepsTypes
  DEF FindSilent, ProbeFails, CheckOwner, SeeDown, DownTimeout, CheckChild, HealthTimeout,
      GiveUp, Places
<1>6. ASSUME NEW c \in Clients, SendShutdown(c) PROVE TypeOK'
  <2>1. CASE UNCHANGED <<proc, image>> /\ ((Finish(c) /\ UNCHANGED manifest) \/ Goto(c, "term"))
    BY <1>0, <1>a, <1>6, <2>1, FinishKeepsTypes, GotoKeepsTypes DEF SendShutdown, Places
  <2>2. CASE Serving # None /\ Becomes(Serving, "stopping")
             /\ job'  = [job EXCEPT ![c].at = "down", ![c].victim = Stopped(Serving)]
             /\ UNCHANGED <<lock, manifest>>
    <3>1. Serving \in Pids /\ proc[Serving] = "up"
      BY <1>a, <2>2 DEF Serving
    <3>2. Stopped(Serving) \in Victims
      BY <1>0, <3>1, StoppedIsAVictim
    <3> DEFINE next == [job[c] EXCEPT !.at = "down", !.victim = Stopped(Serving)]
    <3>0. job[c] \in Jobs /\ job[c].at = "rpc"
      BY <1>a, <1>6 DEF SendShutdown
    <3>3. next \in Jobs /\ next.at # "idle" /\ job[c].at # "idle"
      <4>1. next \in Jobs
        BY <3>0, <3>2, JobUpdates DEF Places
      <4> QED BY <3>0, <4>1 DEF Jobs
    <3>4. job' = [job EXCEPT ![c] = next]
      BY <2>2, <1>a DEF Jobs
    <3>5. /\ proc' \in [Pids -> {"unused", "starting", "cleared", "up", "stopping", "dead"}]
          /\ image' \in [Pids -> Images \cup {None}]
      BY <1>0, <2>2, <3>1, BecomesKeepsTypes
    <3> HIDE DEF next
    <3> QED BY <1>0, <1>a, <1>6, <2>2, <3>3, <3>4, <3>5, JobKeepsTypes DEF SendShutdown
  <2> QED BY <1>6, <2>1, <2>2 DEF SendShutdown
<1>7. ASSUME NEW c \in Clients, Terminate(c) PROVE TypeOK'
  <2>1. CASE UNCHANGED <<proc, image>> /\ (Finish(c) /\ UNCHANGED manifest)
    BY <1>0, <1>a, <1>7, <2>1, FinishKeepsTypes DEF Terminate
  <2>2. CASE Matches(c) /\ (\E end \in {"stopping", "dead"} : Becomes(job[c].pid, end))
             /\ job' = [job EXCEPT ![c].at = "down", ![c].victim = Stopped(job[c].pid)]
             /\ UNCHANGED <<lock, manifest>>
    <3>1. job[c].pid \in Pids /\ proc[job[c].pid] \notin {"unused", "dead"}
          /\ job[c].at = "term"
      BY <1>0, <1>7, <1>a, <2>2 DEF Terminate, Matches, Known, Jobs
    <3>2. Stopped(job[c].pid) \in Victims
      BY <1>0, <3>1, StoppedIsAVictim
    <3> DEFINE next == [job[c] EXCEPT !.at = "down", !.victim = Stopped(job[c].pid)]
    <3>0. job[c] \in Jobs /\ job[c].at = "term"
      BY <1>a, <1>7 DEF Terminate
    <3>3. next \in Jobs /\ next.at # "idle" /\ job[c].at # "idle"
      <4>1. next \in Jobs
        BY <3>0, <3>2, JobUpdates DEF Places
      <4> QED BY <3>0, <4>1 DEF Jobs
    <3>4. job' = [job EXCEPT ![c] = next]
      BY <2>2, <1>a DEF Jobs
    <3>5. /\ proc' \in [Pids -> {"unused", "starting", "cleared", "up", "stopping", "dead"}]
          /\ image' \in [Pids -> Images \cup {None}]
      BY <1>0, <2>2, <3>1, BecomesKeepsTypes
    <3> HIDE DEF next
    <3> QED BY <1>0, <1>a, <1>7, <2>2, <3>3, <3>4, <3>5, JobKeepsTypes DEF Terminate
  <2> QED BY <1>7, <2>1, <2>2 DEF Terminate
<1>8. ASSUME NEW c \in Clients, Choose(c) PROVE TypeOK'
  <2>1. CASE Finish(c) /\ UNCHANGED <<manifest, installed>>
    BY <1>0, <1>a, <1>8, <2>1, FinishKeepsTypes DEF Choose
  <2> DEFINE pick == Chosen(c)
             plan == [binary |-> pick.binary, origin |-> pick.origin,
                      expect |-> IF pick.origin # "sibling" THEN 0
                                 ELSE IF job[c].op = "reconcile" THEN job[c].want
                                 ELSE installed[pick.binary],
                      model  |-> ModelFor(c)]
             next == [job[c] EXCEPT !.at = "start", !.plan = plan]
  <2>2. CASE /\ installed' = IF installed[pick.binary] > 0 THEN installed ELSE Downloaded(c)
             /\ job' = [job EXCEPT ![c].at = "start", ![c].plan = plan]
             /\ UNCHANGED <<lock, manifest>>
    <3>1. installed' \in [Binaries -> Nat]
      BY <1>a, <2>2 DEF Downloaded, Versions
    <3>2. job[c].m \in Manifests \cup {None} /\ job[c].want \in Nat
      BY <1>a DEF Jobs
    <3>3. ModelFor(c) \in Models
      BY <3>2 DEF ModelFor, Manifests
    <3>4. pick.binary \in Binaries /\ pick.origin \in Origins
      BY <1>0, ChosenIsAPlan
    <3>5. plan \in Plans
      <4> HIDE DEF pick
      <4> QED BY <1>a, <3>2, <3>3, <3>4 DEF Plans
    <3> HIDE DEF plan
    <3>6. next \in Jobs /\ next.at # "idle" /\ job[c].at # "idle"
      <4>0. job[c] \in Jobs /\ job[c].at = "choose"
        BY <1>a, <1>8 DEF Choose
      <4>1. next \in Jobs
        BY <3>5, <4>0, JobUpdates DEF Places
      <4> QED BY <4>0, <4>1 DEF Jobs
    <3>7. job' = [job EXCEPT ![c] = next]
      BY <1>a, <2>2 DEF Jobs
    <3> HIDE DEF next
    <3> QED BY <1>0, <1>a, <1>8, <2>2, <3>1, <3>6, <3>7, JobKeepsTypes DEF Choose
  <2> QED BY <1>8, <2>1, <2>2 DEF Choose
<1>9. ASSUME NEW c \in Clients, Spawn(c) PROVE TypeOK'
  <2> DEFINE plan == job[c].plan
             new  == [binary |-> plan.binary, version |-> installed[plan.binary],
                      model |-> plan.model, origin |-> plan.origin]
  <2> PICK d \in Pids :
          /\ proc'  = [proc EXCEPT ![d] = "starting"]
          /\ image' = [image EXCEPT ![d] = new]
          /\ job'   = [job EXCEPT ![c].at = "check", ![c].pid = d]
    BY <1>9 DEF Spawn
  <2>1. job[c].at = "start" /\ plan \in Plans /\ installed[plan.binary] > 0
    BY <1>0, <1>9, <1>a DEF Spawn, Known, Jobs
  <2>2. new \in Images
    BY <1>a, <2>1 DEF Plans, Images, Versions
  <2> DEFINE next == [job[c] EXCEPT !.at = "check", !.pid = d]
  <2>3. next \in Jobs /\ next.at # "idle"
    <3>0. job[c] \in Jobs
      BY <1>a
    <3>1. next \in Jobs
      BY <3>0, JobUpdates DEF Places
    <3> QED BY <3>0, <3>1 DEF Jobs
  <2>4. job' = [job EXCEPT ![c] = next]
    BY <1>a DEF Jobs
  <2>5. /\ proc' \in [Pids -> {"unused", "starting", "cleared", "up", "stopping", "dead"}]
        /\ image' \in [Pids -> Images \cup {None}]
    BY <1>a, <2>2
  <2> HIDE DEF next
  <2> QED BY <1>0, <1>a, <1>9, <2>1, <2>3, <2>4, <2>5, JobKeepsTypes DEF Spawn
<1>10. ASSUME NEW c \in Clients, SeeUp(c) PROVE TypeOK'
  <2>1. job[c].at = "health" /\ job[c].plan \in Plans /\ job[c].pid \in Pids
    BY <1>0, <1>10, <1>a DEF SeeUp, Known, Jobs
  <2>2. image[Serving].version \in Versions
    <3>1. Serving \in Pids /\ proc[Serving] = "up"
      BY <1>a, <1>10 DEF SeeUp, Healthy, Serving
    <3>2. image[Serving] \in Images
      BY <1>0, <1>a, <3>1 DEF Processes
    <3> QED BY <3>2 DEF Images
  <2>3. manifest' \in Manifests \cup {None}
    <3>1. [version |-> image[Serving].version, origin |-> job[c].plan.origin,
           pid |-> job[c].pid, binary |-> job[c].plan.binary,
           model |-> job[c].plan.model] \in Manifests
      BY <2>1, <2>2 DEF Manifests, Plans
    <3> QED BY <1>a, <1>10, <3>1 DEF SeeUp
  <2>4. Finish(c)
    BY <1>10 DEF SeeUp
  <2> QED BY <1>0, <1>a, <1>10, <2>1, <2>3, <2>4, FinishKeepsTypes DEF SeeUp
<1>11. ASSUME NEW d \in Pids, DaemonStep(d) \/ StartFails(d) \/ Lose(d) PROVE TypeOK'
  BY <1>0, <1>a, <1>11, BecomesKeepsTypes, WorldKeepsTypes
  DEF DaemonStep, ClearSocket, Bind, Unlink, StartFails, Lose
<1>12. ASSUME NEW b \in Packaged, Upgrade(b) PROVE TypeOK'
  <2>1. installed' \in [Binaries -> Nat]
    BY <1>a, <1>12 DEF Upgrade
  <2> QED BY <1>0, <1>a, <1>12, <2>1, WorldKeepsTypes DEF Upgrade
<1> QED
  BY <1>1, <1>2, <1>3, <1>4, <1>5, <1>6, <1>7, <1>8, <1>9, <1>10, <1>11, <1>12
  DEF Next, ClientStep

-----------------------------------------------------------------------------
(* Processes and what the clients know.                                    *)

\* Only a client that found or started a daemon writes the manifest.
LEMMA ManifestChanges ==
    ASSUME [Next]_vars
    PROVE  manifest' = manifest \/ \E c \in Clients : Reuse(c) \/ SeeUp(c)
BY DEF Next, ClientStep, DaemonStep, Begin, Replace, FindSilent, ProbeFails, CheckOwner,
       SendShutdown, Terminate, SeeDown, DownTimeout, Choose, Spawn, CheckChild,
       HealthTimeout, GiveUp, Goto, ClearSocket, Bind, Unlink, StartFails, Lose, Upgrade

\* Only a daemon that binds puts a socket at the endpoint.
LEMMA SocketChanges ==
    ASSUME [Next]_vars
    PROVE  socket' \in {socket, None} \/ \E d \in Pids : Bind(d) /\ socket' = d
BY DEF Next, ClientStep, DaemonStep, Begin, Reuse, Replace, FindSilent, ProbeFails,
       CheckOwner, SendShutdown, Terminate, SeeDown, DownTimeout, Choose, Spawn,
       CheckChild, SeeUp, HealthTimeout, GiveUp, ClearSocket, Bind, Unlink, StartFails,
       Lose, Upgrade

\* While a client works its copy of the manifest is the manifest.
LEMMA ReadUnderTheLock ==
    ASSUME BootstrapInv, NEW c \in Clients, job[c].at # "idle"
    PROVE  job[c].m = manifest
BY DEF BootstrapInv, Known

\* A daemon that goes on has an image as long as it is alive.
LEMMA ProcessesBecome ==
    ASSUME TypeOK, Processes, NEW e \in Pids, proc[e] \notin {"unused", "dead"},
           NEW place \in {"cleared", "up", "stopping", "dead"}, Becomes(e, place)
    PROVE  \A d \in Pids : image'[d] = None <=> proc'[d] \in {"unused", "dead"}
BY DEF TypeOK, Processes, Becomes

\* A process has an image exactly while it is alive, and the endpoint and the
\* manifest name processes that were started (Processes).
LEMMA ProcessesNext == BootstrapInv /\ [Next]_vars => Processes'
<1> SUFFICES ASSUME BootstrapInv, [Next]_vars PROVE Processes'
  OBVIOUS
<1> USE NoneAssumption
<1>0. TypeOK /\ Processes /\ \A c \in Clients : Known(c)
  BY DEF BootstrapInv
<1>a. /\ proc \in [Pids -> {"unused", "starting", "cleared", "up", "stopping", "dead"}]
      /\ image \in [Pids -> Images \cup {None}]
      /\ manifest \in Manifests \cup {None} /\ socket \in Pids \cup {None}
      /\ job \in [Clients -> Jobs] /\ installed \in [Binaries -> Nat]
  BY <1>0 DEF TypeOK, Jobs
<1>1. \A d \in Pids : image'[d] = None <=> proc'[d] \in {"unused", "dead"}
  <2> DEFINE Alike == \A d \in Pids : image'[d] = None <=> proc'[d] \in {"unused", "dead"}
  <2>1. CASE proc' = proc /\ image' = image
    BY <1>0, <2>1 DEF Processes
  <2>2. ASSUME NEW c \in Clients, SendShutdown(c) PROVE Alike
    <3>1. CASE proc' = proc /\ image' = image
      BY <2>1, <3>1
    <3>2. CASE Serving # None /\ Becomes(Serving, "stopping")
      <4>1. Serving \in Pids /\ proc[Serving] = "up"
        BY <1>a, <3>2 DEF Serving
      <4> QED BY <1>0, <3>2, <4>1, ProcessesBecome
    <3> QED BY <2>2, <3>1, <3>2 DEF SendShutdown
  <2>3. ASSUME NEW c \in Clients, Terminate(c) PROVE Alike
    <3>1. CASE proc' = proc /\ image' = image
      BY <2>1, <3>1
    <3>2. CASE Matches(c) /\ \E end \in {"stopping", "dead"} : Becomes(job[c].pid, end)
      <4>1. job[c].pid \in Pids /\ proc[job[c].pid] \notin {"unused", "dead"}
        BY <1>0, <1>a, <2>3, <3>2 DEF Terminate, Known, Matches, Jobs
      <4> QED BY <1>0, <3>2, <4>1, ProcessesBecome
    <3> QED BY <2>3, <3>1, <3>2 DEF Terminate
  <2>4. ASSUME NEW c \in Clients, Spawn(c) PROVE Alike
    <3> DEFINE new == [binary  |-> job[c].plan.binary,
                       version |-> installed[job[c].plan.binary],
                       model   |-> job[c].plan.model,
                       origin  |-> job[c].plan.origin]
    <3> PICK d \in Pids : /\ proc'  = [proc EXCEPT ![d] = "starting"]
                          /\ image' = [image EXCEPT ![d] = new]
      BY <2>4 DEF Spawn
    <3>1. job[c].plan \in Plans /\ installed[job[c].plan.binary] > 0
      BY <1>0, <1>a, <2>4 DEF Spawn, Known, Jobs
    <3>2. new \in Images
      BY <1>a, <3>1 DEF Plans, Images, Versions
    <3>3. new # None
      BY <3>2
    <3> HIDE DEF new
    <3> QED BY <1>0, <1>a, <3>3 DEF Processes
  <2>5. ASSUME NEW d \in Pids, DaemonStep(d) \/ StartFails(d) \/ Lose(d) PROVE Alike
    BY <1>0, <2>5, ProcessesBecome
    DEF DaemonStep, ClearSocket, Bind, Unlink, StartFails, Lose
  <2> QED
    BY <2>1, <2>2, <2>3, <2>4, <2>5
    DEF Next, ClientStep, Begin, Reuse, Replace, FindSilent, ProbeFails, CheckOwner, SeeDown,
        DownTimeout, Choose, CheckChild, SeeUp, HealthTimeout, GiveUp, Upgrade
<1>2. socket' # None => proc'[socket'] # "unused"
  <2>1. CASE socket' \in {socket, None}
    BY <1>0, <1>a, <2>1, ImagesStay DEF Processes
  <2>2. ASSUME NEW d \in Pids, Bind(d), socket' = d PROVE proc'[socket'] # "unused"
    BY <2>2, ImagesStay DEF Bind
  <2> QED BY <2>1, <2>2, SocketChanges
<1>3. manifest' # None => proc'[manifest'.pid] # "unused"
  <2>1. CASE manifest' = manifest
    BY <1>0, <1>a, <2>1, ImagesStay DEF Processes, Manifests
  <2>2. ASSUME NEW c \in Clients, Reuse(c), manifest' # manifest
        PROVE  proc'[manifest'.pid] # "unused"
    <3>1. job[c].m = manifest /\ job[c].m # None
      BY <1>0, <2>2 DEF Reuse, Known
    <3>2. manifest'.pid = manifest.pid /\ manifest.pid \in Pids
      BY <1>a, <2>2, <3>1 DEF Reuse, Manifests
    <3> QED BY <1>0, <3>1, <3>2, ImagesStay DEF Processes
  <2>3. ASSUME NEW c \in Clients, SeeUp(c), manifest' # manifest
        PROVE  proc'[manifest'.pid] # "unused"
    <3>1. job[c].pid \in Pids /\ proc[job[c].pid] # "unused"
      BY <1>0, <1>a, <2>3 DEF SeeUp, Known, Jobs
    <3>2. manifest'.pid = job[c].pid
      BY <2>3 DEF SeeUp
    <3> QED BY <3>1, <3>2, ImagesStay
  <2> QED BY <2>1, <2>2, <2>3, ManifestChanges
<1> QED BY <1>1, <1>2, <1>3 DEF Processes

\* A client that does nothing knows nothing that could be wrong.
LEMMA IdleKnows ==
    ASSUME BootstrapInv, [Next]_vars, NEW c \in Clients, job'[c] = Idle
    PROVE  Known(c)' /\ Older(c)'
BY TypesNext, HomeAssumption DEF Idle, Known, Older, TypeOK

\* What a client knows stays true while it waits and the manifest stays, or
\* while it does nothing.
LEMMA WaitingKnows ==
    ASSUME BootstrapInv, [Next]_vars, NEW c \in Clients, job'[c] = job[c],
           manifest' = manifest \/ job[c].at = "idle"
    PROVE  Known(c)' /\ Older(c)'
<1> USE HomeAssumption, NoneAssumption
<1>0. TypeOK /\ Known(c) /\ Older(c) /\ TypeOK' /\ job[c] \in Jobs
  BY TypesNext DEF BootstrapInv, TypeOK, Jobs
<1>1. \A f \in Binaries : installed[f] <= installed'[f] /\ installed[f] \in Nat
                              /\ installed'[f] \in Nat
  BY <1>0, InstalledGrows DEF TypeOK
<1>2. HasSibling(c) => HasSibling(c)' /\ Wanted(c) \in Nat /\ Wanted(c)' \in Nat
                                     /\ Wanted(c) <= Wanted(c)'
  BY <1>0, <1>1 DEF HasSibling, Wanted, Jobs
<1>3. job[c].pid # None =>
        /\ job[c].pid \in Pids
        /\ proc[job[c].pid] # "unused" =>
              proc'[job[c].pid] # "unused" /\ image'[job[c].pid] \in {image[job[c].pid], None}
  BY <1>0, ImagesStay DEF Jobs
<1>4. Known(c)'
  <2>1. job[c].at = "start" => installed'[job[c].plan.binary] > 0
    BY <1>0, <1>1 DEF Known, Jobs, Plans
  <2>2. Sibling[c] # None => job[c].want <= installed'[Sibling[c]]
    BY <1>0, <1>1 DEF Known, Jobs
  <2>3. Upgrading(c) => Upgrading(c)'
    BY <1>2 DEF Upgrading
  <2> QED BY <1>0, <1>3, <2>1, <2>2, <2>3 DEF Known
<1>5. Older(c)'
  <2>1. job[c].at \in {"stop", "rpc", "term"} /\ job[c].op # "prepare" =>
          (image'[job[c].pid] # None => image'[job[c].pid].version < Wanted(c)')
    <3> SUFFICES ASSUME job[c].at \in {"stop", "rpc", "term"}, job[c].op # "prepare",
                        image'[job[c].pid] # None
                 PROVE  image'[job[c].pid].version < Wanted(c)'
      OBVIOUS
    <3>1. /\ job[c].pid \in Pids /\ image[job[c].pid] = image'[job[c].pid]
          /\ HasSibling(c)
      BY <1>0, <1>3 DEF Known, Upgrading
    <3>2. image[job[c].pid].version \in Nat
      BY <1>0, <3>1 DEF TypeOK, Images, Versions
    <3> QED BY <1>0, <1>2, <3>1, <3>2 DEF Older
  <2>2. job[c].at \in {"down", "choose", "start"} /\ job[c].victim # None =>
          /\ job[c].keep /\ job[c].m # None
          /\ job[c].victim.pid = job[c].m.pid => job[c].victim.model = job[c].m.model
          /\ job[c].op # "prepare" =>
                /\ Upgrading(c)'
                /\ job[c].victim.pid = job[c].pid => job[c].victim.version < Wanted(c)'
    BY <1>0, <1>2 DEF Older, Upgrading, Jobs, Victims, Versions
  <2> QED BY <1>0, <2>1, <2>2 DEF Older
<1> QED BY <1>4, <1>5

-----------------------------------------------------------------------------
(* What each step of a client knows.                                       *)

\* A daemon that is stopped for a newer one is one the client may stop, and the
\* client has a sibling and no override.
LEMMA ReplacedIsOwned ==
    ASSUME TypeOK, NEW c \in Clients, job[c].m # None, NEW d, Replaces(c, d)
    PROVE  /\ job[c].m.origin \notin External
           /\ job[c].op # "prepare" =>
                 Upgrading(c) /\ Wanted(c) > image[d].version
<1>1. EffectiveOrigin(c) \in {"sibling", "managed"} => job[c].m.origin \notin External
  BY DEF EffectiveOrigin, External
<1> QED
  BY <1>1 DEF Replaces, PrepareStops, ReconcileStops, EnsureStops, Owned, OriginFor, Newer,
              Upgrading, External

\* The lock is taken: the manifest is read, and nothing is decided yet.
LEMMA BeginKnows ==
    ASSUME BootstrapInv, NEW c \in Clients, NEW op \in Ops[c], Begin(c, op)
    PROVE  Known(c)' /\ Older(c)'
<1> USE HomeAssumption, NoneAssumption
<1> DEFINE want == IF op = "reconcile" /\ HasSibling(c) THEN installed[Sibling[c]] ELSE 0
           next == [Idle EXCEPT !.at = IF manifest = None THEN "choose" ELSE "probe",
                                !.op = op, !.m = manifest, !.want = want,
                                !.keep = (op = "activate")]
<1>1. job' = [job EXCEPT ![c] = next] /\ UNCHANGED <<manifest, installed, proc, image>>
  BY DEF Begin
<1>2. job \in [Clients -> Jobs] /\ installed \in [Binaries -> Nat]
  BY DEF BootstrapInv, TypeOK, Jobs
<1>3. Sibling[c] # None => want \in Nat /\ want <= installed[Sibling[c]]
  BY <1>2 DEF HasSibling
<1>4. op \in Operations /\ (manifest = None => op \notin {"reconcile", "prepare"})
  BY DEF Begin
<1>5. /\ next.at = IF manifest = None THEN "choose" ELSE "probe"
      /\ next.op = op /\ next.m = manifest /\ next.want = want /\ next.victim = None
  BY DEF Idle
<1> HIDE DEF next, want
<1>6. job'[c] = next
  BY <1>1, <1>2
<1> QED BY <1>1, <1>3, <1>4, <1>5, <1>6 DEF Known, Older, Operations

\* The daemon that has to make way is owned and older.
LEMMA ReplaceKnows ==
    ASSUME BootstrapInv, NEW c \in Clients, Replace(c)
    PROVE  Known(c)' /\ Older(c)'
<1> USE NoneAssumption
<1>0. TypeOK /\ Processes /\ Known(c) /\ job[c] \in Jobs /\ job \in [Clients -> Jobs]
  BY DEF BootstrapInv, TypeOK, Jobs
<1> DEFINE next == [job[c] EXCEPT !.at = "stop", !.pid = Serving, !.keep = TRUE]
<1>1. job' = [job EXCEPT ![c] = next] /\ UNCHANGED <<manifest, installed, proc, image>>
  BY <1>0 DEF Replace, Jobs
<1>2. /\ next.at = "stop" /\ next.pid = Serving /\ next.keep /\ next.op = job[c].op
      /\ next.m = job[c].m /\ next.want = job[c].want /\ next.victim = job[c].victim
  BY <1>0 DEF Jobs
<1>3. Serving \in Pids /\ proc[Serving] = "up" /\ Serving # None
  BY <1>0 DEF Replace, Healthy, Serving, TypeOK
<1>4. /\ job[c].m # None /\ job[c].m.origin \notin External
      /\ job[c].op # "prepare" =>
            Upgrading(c) /\ Wanted(c) > image[Serving].version
  BY <1>0, ReplacedIsOwned DEF Replace, Known
<1> HIDE DEF next
<1>5. job'[c] = next
  BY <1>0, <1>1
<1>6. Wanted(c)' = Wanted(c) /\ (Upgrading(c) <=> Upgrading(c)')
  BY <1>1, <1>2, <1>5 DEF Wanted, Upgrading, HasSibling
<1>7. Known(c)'
  BY <1>0, <1>1, <1>2, <1>3, <1>4, <1>5, <1>6 DEF Known, Replace
<1>8. Older(c)'
  <2>1. image[Serving].version \in Nat
    BY <1>0, <1>3 DEF Processes, TypeOK, Images, Versions
  <2>2. job[c].op # "prepare" => Wanted(c) \in Nat
    BY <1>0, <1>4, HomeAssumption DEF Wanted, Upgrading, HasSibling, TypeOK, Jobs
  <2> QED BY <1>1, <1>2, <1>4, <1>5, <1>6, <2>1, <2>2 DEF Older
<1> QED BY <1>7, <1>8

\* A client that goes on to start a daemon has nothing to stop any more.
LEMMA GotoKnows ==
    ASSUME BootstrapInv, NEW c \in Clients, [Next]_vars,
           NEW from \in Places, NEW to \in Places, <<from, to>> \in
              {<<"probe", "choose">>, <<"stop", "rpc">>, <<"rpc", "term">>,
               <<"down", "choose">>, <<"check", "health">>},
           job[c].at = from, Goto(c, to), job[c].op = "prepare" => to # "choose",
           UNCHANGED <<installed, proc, image>>
    PROVE  Known(c)' /\ Older(c)'
<1>0. TypeOK /\ Known(c) /\ Older(c) /\ job[c] \in Jobs /\ job \in [Clients -> Jobs]
  BY DEF BootstrapInv, TypeOK, Jobs
<1> DEFINE next == [job[c] EXCEPT !.at = to]
<1>1. job' = [job EXCEPT ![c] = next] /\ manifest' = manifest
  BY DEF Goto
<1>2. /\ next.at = to /\ next.op = job[c].op /\ next.m = job[c].m /\ next.keep = job[c].keep
      /\ next.want = job[c].want /\ next.pid = job[c].pid /\ next.victim = job[c].victim
      /\ next.plan = job[c].plan
  BY <1>0 DEF Jobs
<1> HIDE DEF next
<1>3. job'[c] = next
  BY <1>0, <1>1
<1>4. Wanted(c)' = Wanted(c) /\ (Upgrading(c) <=> Upgrading(c)')
  BY <1>1, <1>2, <1>3 DEF Wanted, Upgrading, HasSibling
<1>5. Known(c)'
  BY <1>0, <1>1, <1>2, <1>3, <1>4 DEF Known
<1>6. Older(c)'
  BY <1>0, <1>1, <1>2, <1>3, <1>4 DEF Older, Known
<1> QED BY <1>5, <1>6

\* What a client remembers of a daemon it stopped: the model is the manifest's
\* if the manifest names it, and the version is older if it is the one probed.
LEMMA StopKnows ==
    ASSUME BootstrapInv, [Next]_vars, NEW c \in Clients, job[c].at \in {"rpc", "term"},
           NEW d \in Pids, proc[d] \notin {"unused", "dead"},
           job' = [job EXCEPT ![c].at = "down", ![c].victim = Stopped(d)],
           UNCHANGED <<manifest, installed>>
    PROVE  Known(c)' /\ Older(c)'
<1> USE NoneAssumption
<1>0. TypeOK /\ Processes /\ Truthful /\ Known(c) /\ Older(c)
      /\ job[c] \in Jobs /\ job \in [Clients -> Jobs]
  BY DEF BootstrapInv, TypeOK, Jobs
<1> DEFINE next == [job[c] EXCEPT !.at = "down", !.victim = Stopped(d)]
<1>1. job' = [job EXCEPT ![c] = next]
  BY <1>0 DEF Jobs
<1>2. /\ next.at = "down" /\ next.op = job[c].op /\ next.m = job[c].m
      /\ next.keep = job[c].keep /\ next.want = job[c].want /\ next.pid = job[c].pid
      /\ next.victim = Stopped(d) /\ next.plan = job[c].plan
  BY <1>0 DEF Jobs
<1> HIDE DEF next
<1>3. job'[c] = next
  BY <1>0, <1>1
<1>4. Wanted(c)' = Wanted(c) /\ (Upgrading(c) <=> Upgrading(c)')
  BY <1>2, <1>3 DEF Wanted, Upgrading, HasSibling
<1>5. job[c].pid \in Pids /\ proc'[job[c].pid] # "unused" /\ job[c].m = manifest
  BY <1>0, ImagesStay DEF Known, Jobs
<1>6. Known(c)'
  BY <1>0, <1>2, <1>3, <1>4, <1>5 DEF Known
<1>7. image[d] # None /\ Stopped(d).pid = d /\ Stopped(d).version = image[d].version
      /\ Stopped(d).model = image[d].model
  BY <1>0 DEF Stopped, Processes
<1>8. Older(c)'
  BY <1>0, <1>2, <1>3, <1>4, <1>5, <1>7 DEF Older, Known, Truthful
<1> QED BY <1>6, <1>8

\* What is chosen after an upgrade is the sibling and the manifest's model.
LEMMA ChooseKnows ==
    ASSUME BootstrapInv, [Next]_vars, NEW c \in Clients, Choose(c), ~Finish(c)
    PROVE  Known(c)' /\ Older(c)'
<1> USE NoneAssumption, HomeAssumption
<1>0. TypeOK /\ TypeOK' /\ Known(c) /\ Older(c) /\ job[c] \in Jobs /\ job \in [Clients -> Jobs]
      /\ installed \in [Binaries -> Nat] /\ job[c].at = "choose"
  BY TypesNext DEF BootstrapInv, TypeOK, Jobs, Choose
<1> DEFINE pick == Chosen(c)
           plan == [binary |-> pick.binary, origin |-> pick.origin,
                    expect |-> IF pick.origin # "sibling" THEN 0
                               ELSE IF job[c].op = "reconcile" THEN job[c].want
                               ELSE installed[pick.binary],
                    model  |-> ModelFor(c)]
           next == [job[c] EXCEPT !.at = "start", !.plan = plan]
<1>1. /\ installed' = IF installed[pick.binary] > 0 THEN installed ELSE Downloaded(c)
      /\ ~(pick.origin = "override" /\ ~(installed[pick.binary] > 0))
      /\ job' = [job EXCEPT ![c].at = "start", ![c].plan = plan]
      /\ UNCHANGED <<manifest, proc, image>>
  BY DEF Choose
<1>2. job' = [job EXCEPT ![c] = next]
  BY <1>0, <1>1 DEF Jobs
<1>3. pick.binary \in Binaries
  BY <1>0, ChosenIsAPlan
<1>4. installed'[pick.binary] > 0
  <2>1. CASE installed[pick.binary] > 0
    BY <1>1, <2>1
  <2>2. CASE ~(installed[pick.binary] > 0)
    BY <1>0, <1>1, <1>3, <2>2, OnlyMissingIsDownloaded DEF Downloaded, Versions
  <2> QED BY <2>1, <2>2
<1>5. plan # None
  <2>1. ModelFor(c) \in Models
    BY <1>0 DEF ModelFor, Jobs, Manifests
  <2>2. plan \in Plans
    BY <1>0, <1>3, <2>1, ChosenIsAPlan DEF Plans, Jobs
  <2> QED BY <2>2
<1>6. plan.binary = pick.binary /\ plan.model = ModelFor(c)
      /\ (plan.expect # 0 => plan.origin = "sibling")
  OBVIOUS
<1>7. Upgrading(c) => plan.binary = Sibling[c]
  BY <1>6 DEF Upgrading, Chosen, Resolved, HasSibling
<1>8. job[c].keep /\ job[c].m # None => plan.model = job[c].m.model
  BY <1>6 DEF ModelFor
<1> HIDE DEF plan
<1>9. /\ next.at = "start" /\ next.op = job[c].op /\ next.m = job[c].m
      /\ next.keep = job[c].keep /\ next.want = job[c].want /\ next.pid = job[c].pid
      /\ next.victim = job[c].victim /\ next.plan = plan
  BY <1>0 DEF Jobs
<1> HIDE DEF next
<1>10. job'[c] = next
  BY <1>0, <1>2
<1>11. \A f \in Binaries : installed[f] <= installed'[f] /\ installed[f] \in Nat
                              /\ installed'[f] \in Nat
  BY <1>0, InstalledGrows DEF TypeOK
<1>12. Upgrading(c) => Upgrading(c)' /\ Wanted(c) <= Wanted(c)'
                       /\ Wanted(c) \in Nat /\ Wanted(c)' \in Nat
  BY <1>0, <1>9, <1>10, <1>11 DEF Upgrading, HasSibling, Wanted, Jobs
<1>13. Known(c)'
  <2>1. Sibling[c] # None => job[c].want <= installed'[Sibling[c]]
    BY <1>0, <1>11 DEF Known, Jobs
  <2> QED BY <1>0, <1>1, <1>4, <1>5, <1>6, <1>9, <1>10, <2>1 DEF Known
<1>14. Older(c)'
  BY <1>0, <1>7, <1>8, <1>9, <1>10, <1>12 DEF Older, Known, Jobs, Victims, Versions
<1> QED BY <1>13, <1>14

\* The child is the daemon that was chosen.
LEMMA SpawnKnows ==
    ASSUME BootstrapInv, [Next]_vars, NEW c \in Clients, Spawn(c)
    PROVE  Known(c)' /\ Older(c)'
<1> USE NoneAssumption
<1>0. TypeOK /\ Known(c) /\ job[c] \in Jobs /\ job \in [Clients -> Jobs]
      /\ proc \in [Pids -> {"unused", "starting", "cleared", "up", "stopping", "dead"}]
      /\ image \in [Pids -> Images \cup {None}] /\ job[c].at = "start"
  BY DEF BootstrapInv, TypeOK, Jobs, Spawn
<1> DEFINE new == [binary  |-> job[c].plan.binary,
                   version |-> installed[job[c].plan.binary],
                   model   |-> job[c].plan.model,
                   origin  |-> job[c].plan.origin]
<1> PICK d \in Pids : /\ proc'  = [proc EXCEPT ![d] = "starting"]
                      /\ image' = [image EXCEPT ![d] = new]
                      /\ job' = [job EXCEPT ![c].at = "check", ![c].pid = d]
  BY DEF Spawn
<1> DEFINE next == [job[c] EXCEPT !.at = "check", !.pid = d]
<1>1. job' = [job EXCEPT ![c] = next]
  BY <1>0 DEF Jobs
<1>2. /\ next.at = "check" /\ next.op = job[c].op /\ next.m = job[c].m
      /\ next.want = job[c].want /\ next.pid = d /\ next.plan = job[c].plan
  BY <1>0 DEF Jobs
<1>3. /\ proc'[d] = "starting" /\ image'[d].binary = job[c].plan.binary
      /\ image'[d].model = job[c].plan.model /\ image'[d].origin = job[c].plan.origin
  BY <1>0
<1> HIDE DEF next
<1>4. job'[c] = next
  BY <1>0, <1>1
<1>5. UNCHANGED <<manifest, installed>>
  BY DEF Spawn
<1>6. Known(c)'
  BY <1>0, <1>2, <1>3, <1>4, <1>5 DEF Known
<1>7. Older(c)'
  BY <1>2, <1>4 DEF Older
<1> QED BY <1>6, <1>7

\* A step of client c.
Works(c) == (\E op \in Ops[c] : Begin(c, op)) \/ ClientStep(c) \/ GiveUp(c)

\* A client writes its own record only, and no other is at work meanwhile.
LEMMA OneWrites ==
    ASSUME TypeOK, NEW c \in Clients, Works(c), NEW e \in Clients, e # c
    PROVE  job'[e] = job[e] /\ job[e].at = "idle"
<1> USE NoneAssumption
<1>1. \/ UNCHANGED job
      \/ \E next : job' = [job EXCEPT ![c] = next]
      \/ \E place, pid : job' = [job EXCEPT ![c].at = place, ![c].pid = pid]
      \/ \E place, pid, keep : job' = [job EXCEPT ![c].at = place, ![c].pid = pid, ![c].keep = keep]
      \/ \E place, victim : job' = [job EXCEPT ![c].at = place, ![c].victim = victim]
      \/ \E place, plan : job' = [job EXCEPT ![c].at = place, ![c].plan = plan]
  <2>1. (\E place : Goto(c, place)) \/ Finish(c) => \E next : job' = [job EXCEPT ![c] = next]
    BY DEF Goto, Finish
  <2>2. ASSUME NEW op \in Ops[c], Begin(c, op)
        PROVE  \E next : job' = [job EXCEPT ![c] = next]
    BY <2>2 DEF Begin
  <2>3. Reuse(c) \/ FindSilent(c) \/ ProbeFails(c) \/ CheckOwner(c) \/ SeeDown(c) \/ DownTimeout(c)
          \/ CheckChild(c) \/ SeeUp(c) \/ HealthTimeout(c) \/ GiveUp(c)
        => \E next : job' = [job EXCEPT ![c] = next]
    BY <2>1 DEF Reuse, FindSilent, ProbeFails, CheckOwner, SeeDown, DownTimeout,
                CheckChild, SeeUp, HealthTimeout, GiveUp
  <2>4. Replace(c) =>
          \E place, pid, keep : job' = [job EXCEPT ![c].at = place, ![c].pid = pid, ![c].keep = keep]
    BY DEF Replace
  <2>5. SendShutdown(c) \/ Terminate(c) =>
          \/ \E next : job' = [job EXCEPT ![c] = next]
          \/ \E place, victim : job' = [job EXCEPT ![c].at = place, ![c].victim = victim]
    BY <2>1 DEF SendShutdown, Terminate
  <2>6. Choose(c) =>
          \/ \E next : job' = [job EXCEPT ![c] = next]
          \/ \E place, plan : job' = [job EXCEPT ![c].at = place, ![c].plan = plan]
    BY <2>1 DEF Choose
  <2>7. Spawn(c) => \E place, pid : job' = [job EXCEPT ![c].at = place, ![c].pid = pid]
    BY DEF Spawn
  <2> QED BY <2>2, <2>3, <2>4, <2>5, <2>6, <2>7 DEF Works, ClientStep
<1>2. job'[e] = job[e]
  BY <1>1 DEF TypeOK
<1>3. lock \in {None, c}
  BY DEF TypeOK, Works, ClientStep, Begin, Reuse, Replace, FindSilent, ProbeFails,
         CheckOwner, SendShutdown, Terminate, SeeDown, DownTimeout, Choose, Spawn,
         CheckChild, SeeUp, HealthTimeout, GiveUp
<1> QED BY <1>2, <1>3 DEF TypeOK

\* Whatever happens, every client's knowledge is true (Known, Older).
LEMMA KnownNext == BootstrapInv /\ [Next]_vars => \A c \in Clients : Known(c)' /\ Older(c)'
<1> SUFFICES ASSUME BootstrapInv, [Next]_vars, NEW e \in Clients PROVE Known(e)' /\ Older(e)'
  OBVIOUS
<1>0. TypeOK /\ job \in [Clients -> Jobs] /\ \A c \in Clients : Known(c)
  BY DEF BootstrapInv, TypeOK, Jobs
<1>1. CASE UNCHANGED <<job, manifest>>
  BY <1>1, WaitingKnows
<1>2. ASSUME NEW c \in Clients, Works(c), c # e PROVE Known(e)' /\ Older(e)'
  BY <1>0, <1>2, OneWrites, WaitingKnows
<1>3. ASSUME Works(e) PROVE Known(e)' /\ Older(e)'
  <2>1. ASSUME Finish(e) PROVE Known(e)' /\ Older(e)'
    BY <1>0, <2>1, IdleKnows DEF Finish
  <2>2. CASE \E op \in Ops[e] : Begin(e, op)
    BY <2>2, BeginKnows
  <2>3. CASE Reuse(e) \/ ProbeFails(e) \/ DownTimeout(e) \/ SeeUp(e) \/ HealthTimeout(e) \/ GiveUp(e)
    BY <2>1, <2>3 DEF Reuse, ProbeFails, DownTimeout, SeeUp, HealthTimeout, GiveUp
  <2>4. CASE Replace(e)
    BY <2>4, ReplaceKnows
  <2>5. CASE FindSilent(e)
    <3>1. job[e].op \in {"ensure", "activate"} => job[e].op # "prepare"
      OBVIOUS
    <3> QED BY <2>1, <2>5, <3>1, GotoKnows DEF FindSilent, Places
  <2>6. CASE CheckOwner(e)
    BY <2>1, <2>6, GotoKnows DEF CheckOwner, Places
  <2>7. CASE CheckChild(e)
    BY <2>1, <2>7, GotoKnows DEF CheckChild, Places
  <2>8. CASE SeeDown(e)
    BY <2>1, <2>8, GotoKnows DEF SeeDown, Places
  <2>9. CASE SendShutdown(e)
    <3>1. CASE Finish(e)
      BY <2>1, <3>1
    <3>2. CASE Goto(e, "term") /\ UNCHANGED <<proc, image>>
      BY <2>9, <3>2, GotoKnows DEF SendShutdown, Places
    <3>3. CASE Serving # None /\ UNCHANGED manifest
               /\ job' = [job EXCEPT ![e].at = "down", ![e].victim = Stopped(Serving)]
      <4>1. Serving \in Pids /\ proc[Serving] = "up"
        BY <1>0, <3>3 DEF Serving, TypeOK
      <4> QED BY <2>9, <3>3, <4>1, StopKnows DEF SendShutdown
    <3> QED BY <2>9, <3>1, <3>2, <3>3 DEF SendShutdown
  <2>10. CASE Terminate(e)
    <3>1. CASE Finish(e)
      BY <2>1, <3>1
    <3>2. CASE Matches(e) /\ UNCHANGED manifest
               /\ job' = [job EXCEPT ![e].at = "down", ![e].victim = Stopped(job[e].pid)]
      <4>1. job[e].pid \in Pids /\ proc[job[e].pid] \notin {"unused", "dead"}
        BY <1>0, <2>10, <3>2 DEF Terminate, Matches, Known, Jobs
      <4> QED BY <2>10, <3>2, <4>1, StopKnows DEF Terminate
    <3> QED BY <2>10, <3>1, <3>2 DEF Terminate
  <2>11. CASE Choose(e)
    BY <2>1, <2>11, ChooseKnows
  <2>12. CASE Spawn(e)
    BY <2>12, SpawnKnows
  <2> QED
    BY <1>3, <2>2, <2>3, <2>4, <2>5, <2>6, <2>7, <2>8, <2>9, <2>10, <2>11, <2>12
    DEF Works, ClientStep
<1>4. UNCHANGED <<job, manifest>> \/ \E c \in Clients : Works(c)
  BY DEF Next, Works, DaemonStep, ClearSocket, Bind, Unlink, StartFails, Lose, Upgrade
<1> QED BY <1>1, <1>2, <1>3, <1>4

-----------------------------------------------------------------------------
(* The manifest and the process it names.                                  *)

\* What is written of a healthy daemon, or of a child, is true of the process.
LEMMA TruthfulNext == BootstrapInv /\ [Next]_vars => Truthful'
<1> SUFFICES ASSUME BootstrapInv, [Next]_vars PROVE Truthful'
  OBVIOUS
<1> USE NoneAssumption
<1>0. TypeOK /\ Processes /\ Truthful /\ job \in [Clients -> Jobs]
      /\ \A c \in Clients : Known(c)
  BY DEF BootstrapInv, TypeOK, Jobs
<1>a. manifest # None =>
        /\ manifest \in Manifests /\ manifest.pid \in Pids /\ proc[manifest.pid] # "unused"
        /\ image'[manifest.pid] \in {image[manifest.pid], None}
  BY <1>0, ImagesStay DEF TypeOK, Manifests, Processes
<1>1. CASE manifest' = manifest
  BY <1>0, <1>a, <1>1 DEF Truthful
<1>2. ASSUME NEW c \in Clients, Reuse(c), manifest' # manifest PROVE Truthful'
  <2>1. job[c].m = manifest /\ manifest # None /\ job[c].at # "idle"
    BY <1>0, <1>2 DEF Reuse, Known
  <2>2. /\ manifest'.pid = manifest.pid /\ manifest'.binary = manifest.binary
        /\ manifest'.model = manifest.model /\ manifest'.origin = OriginFor(c)
    BY <1>2, <1>a, <2>1 DEF Reuse, Manifests
  <2>3. manifest.origin \in External => OriginFor(c) \in External
    BY <2>1 DEF OriginFor, EffectiveOrigin, External
  <2>4. image' = image
    BY <1>2 DEF Reuse
  <2> QED BY <1>0, <2>1, <2>2, <2>3, <2>4 DEF Truthful
<1>3. ASSUME NEW c \in Clients, SeeUp(c), manifest' # manifest PROVE Truthful'
  <2>1. /\ manifest'.pid = job[c].pid /\ manifest'.binary = job[c].plan.binary
        /\ manifest'.model = job[c].plan.model /\ manifest'.origin = job[c].plan.origin
        /\ image' = image
    BY <1>3 DEF SeeUp
  <2> QED BY <1>0, <1>3, <2>1 DEF Truthful, Known, SeeUp
<1> QED BY <1>1, <1>2, <1>3, ManifestChanges

\* The slips are counted.
LEMMA SlipsCount == BootstrapInv /\ [Next]_vars => slips' \in Nat /\ (slips' = 0 => slips = 0)
<1> SUFFICES ASSUME BootstrapInv, [Next]_vars PROVE slips' \in Nat /\ (slips' = 0 => slips = 0)
  OBVIOUS
<1>0. slips \in Nat
  BY DEF BootstrapInv
<1>1. CASE UNCHANGED slips
  BY <1>0, <1>1
<1>2. CASE Slip
  BY <1>0, <1>2 DEF Slip
<1> QED
  BY <1>1, <1>2
  DEF Next, ClientStep, DaemonStep, Begin, Reuse, Replace, FindSilent, ProbeFails,
      CheckOwner, SendShutdown, Terminate, SeeDown, DownTimeout, Choose, Spawn, CheckChild,
      SeeUp, HealthTimeout, GiveUp, ClearSocket, Bind, Unlink, StartFails, Lose, Upgrade

\* The first state is one in which nobody works and at most the recorded daemon
\* runs.
LEMMA BootstrapInit == Init => BootstrapInv
<1> SUFFICES ASSUME Init PROVE BootstrapInv
  OBVIOUS
<1> USE HomeAssumption, NoneAssumption
<1> DEFINE here(d) == manifest # None /\ d = manifest.pid
           named == [binary  |-> manifest.binary, version |-> manifest.version,
                     model   |-> manifest.model, origin  |-> manifest.origin]
<1> PICK alive \in BOOLEAN :
      /\ alive => manifest # None
      /\ socket = IF manifest = None THEN None ELSE manifest.pid
      /\ proc   = [d \in Pids |-> IF ~here(d) THEN "unused"
                                  ELSE IF alive THEN "up" ELSE "dead"]
      /\ image  = [d \in Pids |-> IF here(d) /\ alive THEN named ELSE None]
  BY DEF Init
<1>1. /\ manifest # None => manifest \in Manifests /\ manifest.pid \in Pids
      /\ lock = None /\ installed \in [Binaries -> Nat] /\ job = [c \in Clients |-> Idle]
  BY DEF Init, Manifests
<1>2. manifest # None => named \in Images /\ named # None
  BY <1>1 DEF Manifests, Images
<1>3. TypeOK
  <2>1. job \in [Clients -> Jobs] /\ \A c \in Clients : job[c].at = "idle"
    BY <1>1, IdleIsAJob
  <2>2. image \in [Pids -> Images \cup {None}]
    <3> HIDE DEF named
    <3> QED BY <1>2
  <2> QED BY <1>1, <2>1, <2>2 DEF TypeOK, Jobs
<1>4. Processes
  <2>1. ASSUME NEW d \in Pids PROVE image[d] = None <=> proc[d] \in {"unused", "dead"}
    <3> HIDE DEF named
    <3> QED BY <1>2
  <2> QED BY <1>1, <2>1 DEF Processes
<1>5. Truthful
  BY <1>1 DEF Truthful, External
<1>6. ASSUME NEW c \in Clients PROVE Known(c) /\ Older(c)
  BY <1>1 DEF Known, Older, Idle
<1>7. slips \in Nat
  BY DEF Init
<1> QED BY <1>3, <1>4, <1>5, <1>6, <1>7 DEF BootstrapInv

\* The lock has one holder, every variable its type, and what the clients and
\* the manifest say is true, whoever fails (install lock, shutdown_owned_daemon,
\* write of the manifest).
THEOREM BootstrapCorrect == Spec => []BootstrapInv
<1>1. BootstrapInv /\ [Next]_vars => BootstrapInv'
  BY TypesNext, ProcessesNext, KnownNext, TruthfulNext, SlipsCount DEF BootstrapInv
<1> QED BY BootstrapInit, <1>1, PTL DEF Spec

\* In particular the install lock has one holder, which is the one at work, and
\* every variable has its type.
THEOREM LockedAndTyped == Spec => []TypeOK
<1>1. BootstrapInv => TypeOK
  BY DEF BootstrapInv
<1> QED BY BootstrapCorrect, <1>1, PTL

-----------------------------------------------------------------------------
(* A daemon that was stopped and the one that takes its place.             *)

\* A client starts a daemon by the action that does: the process is a new one,
\* of the file that is there now.
LEMMA StartsByOne ==
    ASSUME BootstrapInv, [Next]_vars, NEW c \in Clients, Starts(c)
    PROVE  /\ Spawn(c)
           /\ job'[c].pid \in Pids /\ proc[job'[c].pid] = "unused"
           /\ image'[job'[c].pid].version = installed[job[c].plan.binary]
           /\ image'[job'[c].pid].model = job[c].plan.model
<1>0. TypeOK /\ job \in [Clients -> Jobs] /\ job[c].at = "start" /\ job'[c].at = "check"
      /\ image \in [Pids -> Images \cup {None}]
  BY DEF BootstrapInv, TypeOK, Jobs, Starts
<1>1. Works(c)
  <2>1. CASE UNCHANGED job
    BY <1>0, <2>1
  <2>2. ASSUME NEW e \in Clients, Works(e) PROVE Works(c)
    BY <1>0, <2>2, OneWrites
  <2> QED BY <2>1, <2>2 DEF Next, Works, DaemonStep, ClearSocket, Bind, Unlink, StartFails,
                         Lose, Upgrade
<1>2. Spawn(c)
  <2>1. ASSUME Finish(c) PROVE FALSE
    BY <1>0, <2>1, IdleIsAJob DEF Finish
  <2> QED
    BY <1>0, <1>1, <2>1
    DEF Works, ClientStep, Begin, Reuse, Replace, FindSilent, ProbeFails, CheckOwner,
        SendShutdown, Terminate, SeeDown, DownTimeout, Choose, CheckChild, SeeUp,
        HealthTimeout, GiveUp
<1> DEFINE new == [binary  |-> job[c].plan.binary,
                   version |-> installed[job[c].plan.binary],
                   model   |-> job[c].plan.model,
                   origin  |-> job[c].plan.origin]
<1> PICK d \in Pids : /\ \A e \in Pids : proc[e] = "unused" <=> d <= e
                      /\ image' = [image EXCEPT ![d] = new]
                      /\ job' = [job EXCEPT ![c].at = "check", ![c].pid = d]
  BY <1>2 DEF Spawn
<1>3. job'[c].pid = d
  BY <1>0 DEF Jobs
<1>4. image'[d] = new
  <2> HIDE DEF new
  <2> QED BY <1>0
<1>5. image'[d].version = installed[job[c].plan.binary] /\ image'[d].model = job[c].plan.model
  BY <1>4
<1>6. proc[d] = "unused"
  BY HomeAssumption
<1> QED BY <1>2, <1>3, <1>5, <1>6

\* A daemon that was found too old and stopped is replaced by a newer one, however
\* often the files change and whoever fails in between (NeverDowngraded).
THEOREM Upgraded == Spec => NeverDowngraded
<1> DEFINE A == \A c \in Clients :
                   Starts(c) /\ job[c].victim # None /\ job[c].victim.pid = job[c].pid =>
                      image'[job'[c].pid].version > job[c].victim.version
<1>1. BootstrapInv /\ [Next]_vars => [A]_vars
  <2> SUFFICES ASSUME BootstrapInv, [Next]_vars, NEW c \in Clients, Starts(c),
                      job[c].victim # None, job[c].victim.pid = job[c].pid
               PROVE  image'[job'[c].pid].version > job[c].victim.version
    OBVIOUS
  <2> USE NoneAssumption, HomeAssumption
  <2>0. TypeOK /\ Known(c) /\ Older(c) /\ job[c] \in Jobs /\ job[c].at = "start"
        /\ installed \in [Binaries -> Nat]
    BY DEF BootstrapInv, TypeOK, Jobs, Starts
  <2>1. image'[job'[c].pid].version = installed[job[c].plan.binary]
    BY StartsByOne
  <2>2. /\ job[c].plan.binary = Sibling[c] /\ Upgrading(c)
        /\ job[c].victim.version < Wanted(c)
    BY <2>0 DEF Known, Older
  <2>3. Wanted(c) <= installed[Sibling[c]] /\ Wanted(c) \in Nat
        /\ installed[Sibling[c]] \in Nat /\ job[c].victim.version \in Nat
    BY <2>0, <2>2 DEF Wanted, Known, Upgrading, HasSibling, Jobs, Victims, Versions
  <2> QED BY <2>1, <2>2, <2>3
<1> QED BY BootstrapCorrect, <1>1, PTL DEF Spec, NeverDowngraded

\* What replaces the daemon of the manifest runs with that daemon's model, whatever
\* model the client asks for and whoever failed before (ReplacementKeepsTheModel).
THEOREM SameModel == Spec => ReplacementKeepsTheModel
<1> DEFINE A == \A c \in Clients :
                   Starts(c) /\ job[c].victim # None /\ job[c].victim.pid = job[c].m.pid =>
                      image'[job'[c].pid].model = job[c].victim.model
<1>1. BootstrapInv /\ [Next]_vars => [A]_vars
  <2> SUFFICES ASSUME BootstrapInv, [Next]_vars, NEW c \in Clients, Starts(c),
                      job[c].victim # None, job[c].victim.pid = job[c].m.pid
               PROVE  image'[job'[c].pid].model = job[c].victim.model
    OBVIOUS
  <2>1. image'[job'[c].pid].model = job[c].plan.model
    BY StartsByOne
  <2>2. job[c].plan.model = job[c].m.model /\ job[c].victim.model = job[c].m.model
    BY DEF BootstrapInv, Older, Starts
  <2> QED BY <2>1, <2>2
<1> QED BY BootstrapCorrect, <1>1, PTL DEF Spec, ReplacementKeepsTheModel

-----------------------------------------------------------------------------
(* While no client failed there is one daemon.                             *)

\* No image appears but by the step of a client that starts a daemon.
LEMMA ImagesFade ==
    ASSUME BootstrapInv, [Next]_vars, \A c \in Clients : ~Spawn(c), NEW d \in Pids
    PROVE  image'[d] \in {image[d], None}
<1>1. CASE proc[d] # "unused"
  BY <1>1, ImagesStay
<1>2. CASE proc[d] = "unused"
  <2>1. proc'[d] = "unused"
    <3> USE HomeAssumption, NoneAssumption
    <3>0. /\ proc \in [Pids -> {"unused", "starting", "cleared", "up", "stopping", "dead"}]
          /\ \A c \in Clients : Known(c) /\ job[c] \in Jobs
      BY DEF BootstrapInv, TypeOK, Jobs
    <3>1. ASSUME NEW e \in Pids, NEW place, proc[e] # "unused", Becomes(e, place)
          PROVE  proc'[d] = "unused"
      BY <1>2, <3>0, <3>1 DEF Becomes
    <3>2. ASSUME NEW c \in Clients, SendShutdown(c) PROVE proc'[d] = "unused"
      <4>1. CASE UNCHANGED proc
        BY <1>2, <4>1
      <4>2. CASE Serving # None /\ Becomes(Serving, "stopping")
        <5>1. Serving \in Pids /\ proc[Serving] = "up"
          BY <4>2 DEF Serving, BootstrapInv, TypeOK
        <5> QED BY <3>1, <4>2, <5>1
      <4> QED BY <3>2, <4>1, <4>2 DEF SendShutdown
    <3>3. ASSUME NEW c \in Clients, Terminate(c) PROVE proc'[d] = "unused"
      <4>1. job[c].pid \in Pids /\ proc[job[c].pid] # "unused"
        BY <3>0, <3>3 DEF Terminate, Known, Jobs
      <4> QED BY <1>2, <3>1, <3>3, <4>1 DEF Terminate
    <3>4. ASSUME NEW e \in Pids, DaemonStep(e) \/ StartFails(e) \/ Lose(e)
          PROVE  proc'[d] = "unused"
      BY <3>1, <3>4 DEF DaemonStep, ClearSocket, Bind, Unlink, StartFails, Lose
    <3> QED
      BY <1>2, <3>2, <3>3, <3>4
      DEF Next, ClientStep, Begin, Reuse, Replace, FindSilent, ProbeFails, CheckOwner,
          SeeDown, DownTimeout, Choose, CheckChild, SeeUp, HealthTimeout, GiveUp, Upgrade
  <2>2. Processes'
    BY ProcessesNext
  <2> QED BY <2>1, <2>2 DEF Processes
<1> QED BY <1>1, <1>2

\* A client that holds the lock and waits for no child finds at most one daemon
\* alive, at the endpoint.
LEMMA OneAtTheEndpoint ==
    ASSUME BootstrapInv, Sole, slips = 0, NEW c \in Clients,
           job[c].at \notin {"idle", "check", "health"},
           NEW d \in Pids, image[d] # None
    PROVE  socket = d /\ proc[d] \in {"up", "stopping"}
<1>1. \A e \in Clients : ~Awaits(e, d)
  BY OneAtWork DEF BootstrapInv, Awaits
<1>2. proc[d] \in {"starting", "cleared", "up", "stopping"}
  BY DEF BootstrapInv, Processes, TypeOK
<1> QED BY <1>1, <1>2 DEF Sole

\* When the endpoint is silent then no daemon is alive.
LEMMA NoneWhenSilent ==
    ASSUME BootstrapInv, Sole, slips = 0, NEW c \in Clients,
           job[c].at \notin {"idle", "check", "health"}, Silent
    PROVE  \A d \in Pids : image[d] = None
BY OneAtTheEndpoint, NoneAssumption DEF Silent

\* What answers at the endpoint is a process with an image.
LEMMA AnswersAreAlive ==
    ASSUME BootstrapInv, Serving # None
    PROVE  Serving \in Pids /\ Serving = socket /\ proc[Serving] = "up" /\ image[Serving] # None
BY DEF BootstrapInv, TypeOK, Processes, Serving

\* A daemon that is started is waited for, as long as it starts.
LEMMA AwaitedNext ==
    ASSUME BootstrapInv, Sole, [Next]_vars, slips = 0, slips' = 0,
           NEW c \in Clients, NEW d \in Pids, Awaits(c, d),
           proc'[d] \in {"starting", "cleared"}
    PROVE  Awaits(c, d)'
<1> USE NoneAssumption
<1>0. /\ TypeOK /\ job \in [Clients -> Jobs] /\ job[c].at \in {"check", "health"}
      /\ job[c].pid = d /\ \A e \in Pids : image[e] # None => e = d
  BY DEF BootstrapInv, TypeOK, Jobs, Sole, Alone, Awaits
<1>1. proc[d] \in {"starting", "cleared"}
  <2>1. proc[d] # "unused"
    BY <1>0 DEF BootstrapInv, Known
  <2>2. proc[d] \in {"up", "stopping", "dead"} => proc'[d] \notin {"starting", "cleared"}
    <3> SUFFICES ASSUME proc[d] \in {"up", "stopping", "dead"}
                 PROVE  proc'[d] \notin {"starting", "cleared"}
      OBVIOUS
    <3>1. ASSUME NEW e \in Pids, NEW place \in {"up", "stopping", "dead"}, Becomes(e, place)
          PROVE  proc'[d] \notin {"starting", "cleared"}
      BY <1>0, <3>1 DEF Becomes, TypeOK
    <3>2. ASSUME NEW e \in Clients, SendShutdown(e) PROVE proc'[d] \notin {"starting", "cleared"}
      BY <1>0, <3>1, <3>2, AnswersAreAlive DEF SendShutdown
    <3>3. ASSUME NEW e \in Clients, Terminate(e) \/ Spawn(e) PROVE FALSE
      <4>1. e = c
        BY <1>0, <3>3, OneAtWork DEF Terminate, Spawn
      <4> QED BY <1>0, <3>3, <4>1 DEF Terminate, Spawn
    <3>4. ASSUME NEW e \in Pids, ClearSocket(e) PROVE proc'[d] \notin {"starting", "cleared"}
      BY <1>0, <3>4 DEF ClearSocket, Becomes, TypeOK
    <3>5. ASSUME NEW e \in Pids, Bind(e) \/ Unlink(e) \/ StartFails(e) \/ Lose(e)
          PROVE  proc'[d] \notin {"starting", "cleared"}
      BY <3>1, <3>5 DEF Bind, Unlink, StartFails, Lose
    <3> QED
      BY <3>2, <3>3, <3>4, <3>5
      DEF Next, ClientStep, DaemonStep, Begin, Reuse, Replace, FindSilent, ProbeFails,
          CheckOwner, SeeDown, DownTimeout, Choose, CheckChild, SeeUp, HealthTimeout,
          GiveUp, Upgrade
  <2> QED BY <1>0, <2>1, <2>2 DEF TypeOK
<1>2. CASE job'[c] = job[c]
  BY <1>0, <1>2 DEF Awaits
<1>3. ASSUME Works(c) PROVE Awaits(c, d)'
  <2>1. ~Healthy /\ ~Closing /\ ~Incompatible
    <3>1. ASSUME Serving # None PROVE FALSE
      BY <1>0, <1>1, <3>1, AnswersAreAlive
    <3>2. ASSUME Closing PROVE FALSE
      <4>1. socket \in Pids /\ proc[socket] = "stopping"
        BY <1>0, <3>2 DEF Closing, TypeOK
      <4> QED BY <1>0, <1>1, <4>1 DEF BootstrapInv, Processes
    <3> QED BY <3>1, <3>2 DEF Healthy, Incompatible
  <2>2. ~GiveUp(c)
    BY DEF GiveUp, Slip
  <2>3. CASE CheckChild(c)
    <3>1. Goto(c, "health")
      BY <1>0, <1>1, <2>3 DEF CheckChild
    <3>2. job'[c].at = "health" /\ job'[c].pid = job[c].pid
      BY <1>0, <3>1 DEF Goto, Jobs
    <3> QED BY <1>0, <3>2 DEF Awaits
  <2> QED
    BY <1>0, <1>1, <1>3, <2>1, <2>2, <2>3
    DEF Works, ClientStep, Begin, Reuse, Replace, FindSilent, ProbeFails, CheckOwner,
        SendShutdown, Terminate, SeeDown, DownTimeout, Choose, Spawn, SeeUp, HealthTimeout
<1>4. ASSUME NEW e \in Clients, Works(e), e # c PROVE job'[c] = job[c]
  BY <1>0, <1>4, OneWrites
<1>5. UNCHANGED job \/ \E e \in Clients : Works(e)
  BY DEF Next, Works, DaemonStep, ClearSocket, Bind, Unlink, StartFails, Lose, Upgrade
<1> QED BY <1>2, <1>3, <1>4, <1>5

\* What a client writes is a manifest: of the daemon it kept, with the version
\* that answers, or of the child it started, with what it was started from.
LEMMA ReuseWrites ==
    ASSUME BootstrapInv, NEW c \in Clients, Reuse(c), manifest' # manifest
    PROVE  /\ manifest # None /\ job[c].m = manifest /\ manifest' \in Manifests
           /\ manifest'.pid = manifest.pid /\ manifest'.version = image[Serving].version
<1>1. TypeOK /\ job[c].m = manifest /\ manifest # None
  BY DEF BootstrapInv, Known, Reuse
<1>2. manifest \in Manifests /\ OriginFor(c) \in Origins
  BY <1>1, OriginsAreOrigins DEF TypeOK
<1>3. image[Serving].version \in Versions
  <2>1. Serving \in Pids /\ image[Serving] # None
    BY AnswersAreAlive DEF Reuse, Healthy
  <2> QED BY <1>1, <2>1 DEF TypeOK, Images
<1>4. manifest' = [manifest EXCEPT !.version = image[Serving].version,
                                   !.origin  = OriginFor(c)]
  BY <1>1 DEF Reuse
<1> QED BY <1>1, <1>2, <1>3, <1>4 DEF Manifests

\* The same of the child.
LEMMA SeeUpWrites ==
    ASSUME BootstrapInv, NEW c \in Clients, SeeUp(c), manifest' # manifest
    PROVE  /\ manifest' \in Manifests /\ manifest'.pid = job[c].pid
           /\ manifest'.version = image[Serving].version
<1>1. TypeOK /\ job[c] \in Jobs /\ job[c].plan # None /\ job[c].pid # None
  BY DEF BootstrapInv, Known, SeeUp, TypeOK, Jobs
<1>2. image[Serving].version \in Versions
  <2>1. Serving \in Pids /\ image[Serving] # None
    BY AnswersAreAlive DEF SeeUp, Healthy
  <2> QED BY <1>1, <2>1 DEF TypeOK, Images
<1>3. job[c].plan \in Plans /\ job[c].pid \in Pids
  BY <1>1 DEF Jobs
<1>4. manifest' = [version |-> image[Serving].version, origin |-> job[c].plan.origin,
                   pid |-> job[c].pid, binary |-> job[c].plan.binary,
                   model |-> job[c].plan.model]
  BY DEF SeeUp
<1> QED BY <1>2, <1>3, <1>4 DEF Manifests, Plans

\* Every daemon that starts is waited for.
LEMMA StartingAreAwaited ==
    ASSUME BootstrapInv, Sole, [Next]_vars, slips = 0, slips' = 0,
           NEW d \in Pids, proc'[d] \in {"starting", "cleared"}
    PROVE  \E c \in Clients : Awaits(c, d)'
<1>0. TypeOK /\ job \in [Clients -> Jobs]
  BY DEF BootstrapInv, TypeOK, Jobs
<1>1. CASE proc[d] \in {"starting", "cleared"}
  BY <1>1, AwaitedNext DEF Sole
<1>2. CASE proc[d] \notin {"starting", "cleared"}
  <2>1. ASSUME NEW e \in Pids, NEW place \in {"up", "stopping", "dead"}, Becomes(e, place)
        PROVE  FALSE
    BY <1>0, <1>2, <2>1 DEF Becomes, TypeOK
  <2>2. ASSUME NEW e \in Pids, DaemonStep(e) \/ StartFails(e) \/ Lose(e) PROVE FALSE
    BY <1>0, <1>2, <2>1, <2>2
    DEF DaemonStep, ClearSocket, Becomes, TypeOK, Bind, Unlink, StartFails, Lose
  <2>3. ASSUME NEW c \in Clients, SendShutdown(c) PROVE FALSE
    BY <1>0, <1>2, <2>1, <2>3, AnswersAreAlive DEF SendShutdown
  <2>4. ASSUME NEW c \in Clients, Terminate(c) PROVE FALSE
    <3>1. job[c].pid \in Pids
      BY <1>0, <2>4 DEF BootstrapInv, Known, Terminate, Jobs
    <3> QED BY <1>2, <2>1, <2>4, <3>1 DEF Terminate
  <2>5. ASSUME NEW c \in Clients, Spawn(c) PROVE Awaits(c, d)'
    <3> PICK e \in Pids : /\ proc' = [proc EXCEPT ![e] = "starting"]
                          /\ job' = [job EXCEPT ![c].at = "check", ![c].pid = e]
      BY <2>5 DEF Spawn
    <3>1. d = e
      BY <1>0, <1>2 DEF TypeOK
    <3>2. job'[c].at = "check" /\ job'[c].pid = e
      BY <1>0 DEF Jobs
    <3> QED BY <3>1, <3>2 DEF Awaits
  <2>6. UNCHANGED proc => FALSE
    BY <1>2
  <2> QED
    BY <2>2, <2>3, <2>4, <2>5, <2>6
    DEF Next, ClientStep, Begin, Reuse, Replace, FindSilent, ProbeFails, CheckOwner, SeeDown,
        DownTimeout, Choose, CheckChild, SeeUp, HealthTimeout, GiveUp, Upgrade
<1> QED BY <1>1, <1>2

\* The socket belongs to the one daemon that serves or closes down.
LEMMA SocketIsTheirs ==
    ASSUME BootstrapInv, Sole, [Next]_vars, slips = 0, slips' = 0,
           NEW d \in Pids, proc'[d] \in {"up", "stopping"}
    PROVE  socket' = d
<1> USE NoneAssumption
<1>0. /\ TypeOK /\ job \in [Clients -> Jobs] /\ socket \in Pids \cup {None}
      /\ proc \in [Pids -> {"unused", "starting", "cleared", "up", "stopping", "dead"}]
      /\ \A e \in Pids : proc[e] \in {"up", "stopping"} => socket = e
  BY DEF BootstrapInv, TypeOK, Jobs, Sole
<1>1. CASE UNCHANGED <<proc, socket>>
  BY <1>0, <1>1
<1>2. ASSUME NEW e \in Pids, proc[e] \in {"up", "stopping"}, NEW place, Becomes(e, place),
             UNCHANGED socket
      PROVE  socket' = d
  BY <1>0, <1>2 DEF Becomes
<1>3. ASSUME NEW c \in Clients, SendShutdown(c) PROVE socket' = d
  BY <1>0, <1>1, <1>2, <1>3, AnswersAreAlive DEF SendShutdown
<1>4. ASSUME NEW c \in Clients, Terminate(c) PROVE socket' = d
  <2>1. CASE UNCHANGED <<proc, socket>>
    BY <1>1, <2>1
  <2>2. CASE Matches(c)
    <3>1. job[c].pid \in Pids /\ image[job[c].pid] # None /\ job[c].at = "term"
      BY <1>0, <1>4, <2>2 DEF BootstrapInv, Known, Terminate, Matches, Processes, Jobs
    <3>2. proc[job[c].pid] \in {"up", "stopping"}
      BY <3>1, OneAtTheEndpoint
    <3> QED BY <1>2, <1>4, <2>2, <3>1, <3>2 DEF Terminate
  <2> QED BY <1>4, <2>1, <2>2 DEF Terminate
<1>5. ASSUME NEW c \in Clients, Spawn(c) PROVE socket' = d
  BY <1>0, <1>5 DEF Spawn
<1>6. ASSUME NEW e \in Pids, ClearSocket(e) PROVE socket' = d
  <2>1. PICK c \in Clients : Awaits(c, e)
    BY <1>6 DEF ClearSocket, Sole
  <2>2. d = e
    <3>1. d # e => image[d] = None
      BY <2>1 DEF Sole, Alone, Awaits
    <3>2. d # e => proc[d] \in {"up", "stopping"}
      BY <1>0, <1>6 DEF ClearSocket, Becomes
    <3> QED BY <3>1, <3>2 DEF BootstrapInv, Processes
  <2> QED BY <1>0, <1>6, <2>2 DEF ClearSocket, Becomes
<1>7. ASSUME NEW e \in Pids, Bind(e) PROVE socket' = d
  BY <1>0, <1>7 DEF Bind, Becomes
<1>8. ASSUME NEW e \in Pids, Unlink(e) PROVE socket' = d
  BY <1>0, <1>8 DEF Unlink, Becomes
<1>9. ASSUME NEW e \in Pids, StartFails(e) \/ Lose(e) PROVE socket' = d
  BY <1>0, <1>9 DEF StartFails, Lose, Becomes
<1> QED
  BY <1>1, <1>3, <1>4, <1>5, <1>6, <1>7, <1>8, <1>9
  DEF Next, ClientStep, DaemonStep, Begin, Reuse, Replace, FindSilent, ProbeFails, CheckOwner,
      SeeDown, DownTimeout, Choose, CheckChild, SeeUp, HealthTimeout, GiveUp, Upgrade

\* A daemon that nobody waits for any more and the manifest does not name is a
\* sibling whose version was not the expected one.
LEMMA UnnamedAreSiblings ==
    ASSUME BootstrapInv, Sole, [Next]_vars, slips = 0, slips' = 0, NEW d \in Pids,
           proc'[d] = "up", d # manifest'.pid, image'[d].version \in Compatible,
           \A c \in Clients : ~Awaits(c, d)'
    PROVE  image'[d].origin = "sibling"
<1> USE NoneAssumption
<1>0. /\ TypeOK /\ Processes /\ job \in [Clients -> Jobs] /\ socket \in Pids \cup {None}
      /\ proc \in [Pids -> {"unused", "starting", "cleared", "up", "stopping", "dead"}]
  BY DEF BootstrapInv, TypeOK, Jobs, Sole
<1>1. ASSUME proc[d] # "up" PROVE FALSE
  <2>1. PICK e \in Pids : Bind(e) /\ d = e
    <3>1. ASSUME NEW c \in Clients, SendShutdown(c) PROVE FALSE
      BY <1>0, <1>1, <3>1, AnswersAreAlive DEF SendShutdown, Becomes
    <3>2. ASSUME NEW c \in Clients, Terminate(c) \/ Spawn(c) PROVE FALSE
      BY <1>0, <1>1, <3>2 DEF Terminate, Becomes, Spawn
    <3> QED
      BY <1>0, <1>1, <3>1, <3>2
      DEF Next, ClientStep, DaemonStep, Begin, Reuse, Replace, FindSilent, ProbeFails,
          CheckOwner, SeeDown, DownTimeout, Choose, CheckChild, SeeUp, HealthTimeout,
          GiveUp, Upgrade, ClearSocket, Bind, Unlink, StartFails, Lose, Becomes
  <2>2. PICK c \in Clients : Awaits(c, d)
    BY <2>1 DEF Bind, Sole
  <2> QED BY <2>1, <2>2 DEF Bind, Awaits
<1>2. proc[d] = "up" /\ image[d] # None /\ socket = d
  BY <1>0, <1>1 DEF Processes, Sole
<1>3. image'[d] = image[d]
  <2>1. image'[d] # None
    BY ProcessesNext DEF Processes
  <2> QED BY <1>2, <2>1, ImagesStay
<1>4. ASSUME NEW c \in Clients, Awaits(c, d) PROVE image[d].origin = "sibling"
  <2>1. job'[c] # job[c] /\ job[c].at \in {"check", "health"} /\ job[c].pid = d
    BY <1>4 DEF Awaits
  <2>2. Works(c)
    <3>1. ~UNCHANGED job
      BY <2>1
    <3>2. \A e \in Clients : Works(e) => e = c
      BY <1>0, <2>1, OneWrites
    <3> QED BY <3>1, <3>2 DEF Next, Works, DaemonStep, ClearSocket, Bind, Unlink, StartFails,
                           Lose, Upgrade
  <2>3. Serving = d /\ ~Silent /\ ~Closing
    BY <1>2 DEF Serving, Silent, Closing
  <2>4. SeeUp(c)
    <3>1. ~GiveUp(c)
      BY DEF GiveUp, Slip
    <3>2. ~ProbeFails(c)
      BY <1>3, <2>3 DEF ProbeFails, Incompatible
    <3>3. ASSUME CheckChild(c) PROVE FALSE
      <4>1. Goto(c, "health")
        BY <1>2, <2>1, <3>3 DEF CheckChild
      <4>2. job'[c].at = "health" /\ job'[c].pid = job[c].pid
        BY <1>0, <4>1 DEF Goto, Jobs
      <4> QED BY <2>1, <4>2 DEF Awaits
    <3> QED
      BY <2>1, <2>2, <2>3, <3>1, <3>2, <3>3
      DEF Works, ClientStep, Begin, Reuse, Replace, FindSilent, CheckOwner, SendShutdown,
          Terminate, SeeDown, DownTimeout, Choose, Spawn, HealthTimeout
  <2>5. job[c].plan.expect # 0
    BY <2>1, <2>4 DEF SeeUp
  <2> QED BY <1>2, <2>1, <2>5 DEF BootstrapInv, Known
<1>5. CASE \A c \in Clients : ~Awaits(c, d)
  <2>1. d # manifest.pid
    <3>1. CASE manifest' = manifest
      BY <3>1
    <3>2. ASSUME NEW c \in Clients, Reuse(c), manifest' # manifest PROVE d # manifest.pid
      BY <3>2, ReuseWrites
    <3>3. ASSUME NEW c \in Clients, SeeUp(c), manifest' # manifest PROVE FALSE
      <4>1. job[c].at = "health" /\ job[c].pid = d
        BY <1>2, <3>3 DEF SeeUp, Sole, Alone
      <4> QED BY <1>5, <4>1 DEF Awaits
    <3> QED BY <3>1, <3>2, <3>3, ManifestChanges
  <2> QED BY <1>2, <1>3, <1>5, <2>1 DEF Sole
<1> QED BY <1>3, <1>4, <1>5

\* There is a manifest, and it has the version of the process it names.
LEMMA ManifestHasTheVersion ==
    ASSUME BootstrapInv, Sole, [Next]_vars, slips = 0, slips' = 0
    PROVE  /\ manifest' # None
           /\ image'[manifest'.pid] # None => image'[manifest'.pid].version = manifest'.version
<1> USE NoneAssumption
<1>0. /\ TypeOK /\ Processes /\ manifest # None /\ manifest \in Manifests
      /\ manifest.pid \in Pids /\ proc[manifest.pid] # "unused"
      /\ image[manifest.pid] # None => image[manifest.pid].version = manifest.version
  BY DEF BootstrapInv, TypeOK, Sole, Processes, Manifests
<1>1. CASE manifest' = manifest
  <2>1. image'[manifest.pid] \in {image[manifest.pid], None}
    BY <1>0, ImagesStay
  <2> QED BY <1>0, <1>1, <2>1
<1>2. ASSUME NEW c \in Clients, Reuse(c), manifest' # manifest
      PROVE  /\ manifest' # None
             /\ image'[manifest'.pid] # None =>
                   image'[manifest'.pid].version = manifest'.version
  <2>1. manifest' \in Manifests /\ manifest'.pid = manifest.pid /\ image' = image
        /\ manifest'.version = image[Serving].version
    BY <1>2, ReuseWrites DEF Reuse
  <2>2. image[manifest.pid] # None => Serving = manifest.pid
    <3>1. Serving # None /\ job[c].at = "probe"
      BY <1>2 DEF Reuse, Healthy
    <3> QED BY <1>0, <3>1, OneAtTheEndpoint, AnswersAreAlive
  <2> QED BY <2>1, <2>2
<1>3. ASSUME NEW c \in Clients, SeeUp(c), manifest' # manifest
      PROVE  /\ manifest' # None
             /\ image'[manifest'.pid] # None =>
                   image'[manifest'.pid].version = manifest'.version
  <2>1. manifest' \in Manifests /\ manifest'.pid = job[c].pid /\ image' = image
        /\ manifest'.version = image[Serving].version
    BY <1>3, SeeUpWrites DEF SeeUp
  <2>2. Serving = job[c].pid
    <3>1. Serving # None /\ job[c].at = "health"
      BY <1>3 DEF SeeUp, Healthy
    <3> QED BY <3>1, AnswersAreAlive DEF Sole, Alone
  <2> QED BY <2>1, <2>2
<1> QED BY <1>1, <1>2, <1>3, ManifestChanges

\* A client that waits while images only fade is as alone as before.
LEMMA AloneWaiting ==
    ASSUME BootstrapInv, [Next]_vars, NEW c \in Clients, Alone(c), job'[c] = job[c],
           \A e \in Clients : ~Spawn(e)
    PROVE  Alone(c)'
<1>1. \A d \in Pids : image'[d] \in {image[d], None}
  BY ImagesFade
<1>2. job[c].at \in {"stop", "rpc", "term"} => job[c].pid \in Pids
  BY NoneAssumption DEF BootstrapInv, Known, TypeOK
<1> QED BY <1>1, <1>2 DEF Alone

\* A client that works stays alone, whatever it does next.
LEMMA AloneWorking ==
    ASSUME BootstrapInv, Sole, [Next]_vars, slips = 0, slips' = 0,
           NEW c \in Clients, Alone(c), Works(c)
    PROVE  Alone(c)'
<1> USE NoneAssumption
<1>0. /\ TypeOK /\ job \in [Clients -> Jobs] /\ job[c] \in Jobs /\ Known(c)
      /\ image \in [Pids -> Images \cup {None}]
  BY DEF BootstrapInv, TypeOK, Jobs
<1>1. ASSUME Finish(c) PROVE Alone(c)'
  BY <1>0, <1>1 DEF Finish, Idle, Alone
<1>2. ASSUME NEW place, Goto(c, place)
      PROVE  job'[c].at = place /\ job'[c].pid = job[c].pid
  BY <1>0, <1>2 DEF Goto, Jobs
<1>3. CASE \E op \in Ops[c] : Begin(c, op)
  <2>1. manifest # None
    BY DEF Sole
  <2>2. job'[c].at = "probe"
    BY <1>0, <1>3, <2>1 DEF Begin, Idle
  <2> QED BY <2>2 DEF Alone
<1>4. CASE Reuse(c) \/ ProbeFails(c) \/ DownTimeout(c) \/ SeeUp(c) \/ HealthTimeout(c) \/ GiveUp(c)
  BY <1>1, <1>4 DEF Reuse, ProbeFails, DownTimeout, SeeUp, HealthTimeout, GiveUp
<1>5. CASE Replace(c)
  <2>1. /\ job'[c].at = "stop" /\ job'[c].pid = Serving /\ image' = image
        /\ job[c].at = "probe" /\ Serving # None
        /\ image[Serving].version \in Compatible
    BY <1>0, <1>5 DEF Replace, Healthy, Jobs
  <2>2. \A d \in Pids : d # Serving => image[d] = None
    BY <2>1, OneAtTheEndpoint, AnswersAreAlive
  <2> QED BY <2>1, <2>2 DEF Alone
<1>6. CASE FindSilent(c) \/ SeeDown(c)
  <2>1. Finish(c) \/ Goto(c, "choose")
    BY <1>6 DEF FindSilent, SeeDown
  <2>2. image' = image /\ \A d \in Pids : image[d] = None
    BY <1>6, NoneWhenSilent DEF FindSilent, SeeDown
  <2> QED BY <1>1, <1>2, <2>1, <2>2 DEF Alone
<1>7. CASE CheckOwner(c)
  <2>1. Finish(c) \/ (job[c].at = "stop" /\ Goto(c, "rpc") /\ image' = image)
    BY <1>7 DEF CheckOwner
  <2> QED BY <1>1, <1>2, <2>1 DEF Alone
<1>8. CASE CheckChild(c)
  <2>1. Finish(c) \/ (job[c].at = "check" /\ Goto(c, "health") /\ image' = image)
    BY <1>8 DEF CheckChild
  <2> QED BY <1>1, <1>2, <2>1 DEF Alone
<1>9. CASE SendShutdown(c) \/ Terminate(c)
  <2>1. \/ Finish(c)
        \/ job[c].at = "rpc" /\ Goto(c, "term") /\ image' = image
        \/ \E victim : job' = [job EXCEPT ![c].at = "down", ![c].victim = victim]
    BY <1>9 DEF SendShutdown, Terminate
  <2>2. ASSUME NEW victim, job' = [job EXCEPT ![c].at = "down", ![c].victim = victim]
        PROVE  job'[c].at = "down"
    BY <1>0, <2>2 DEF Jobs
  <2> QED BY <1>1, <1>2, <2>1, <2>2 DEF Alone
<1>10. CASE Choose(c)
  <2>1. \/ Finish(c)
        \/ \E plan : job' = [job EXCEPT ![c].at = "start", ![c].plan = plan]
    BY <1>10 DEF Choose
  <2>2. ASSUME NEW plan, job' = [job EXCEPT ![c].at = "start", ![c].plan = plan]
        PROVE  job'[c].at = "start"
    BY <1>0, <2>2 DEF Jobs
  <2>3. image' = image /\ job[c].at = "choose"
    BY <1>10 DEF Choose
  <2> QED BY <1>1, <2>1, <2>2, <2>3 DEF Alone
<1>11. CASE Spawn(c)
  <2> PICK d \in Pids :
        /\ \E new : image' = [image EXCEPT ![d] = new]
        /\ job' = [job EXCEPT ![c].at = "check", ![c].pid = d]
    BY <1>11 DEF Spawn
  <2>1. job'[c].at = "check" /\ job'[c].pid = d /\ job[c].at = "start"
    BY <1>0, <1>11 DEF Spawn, Jobs
  <2> QED BY <1>0, <2>1 DEF Alone
<1> QED
  BY <1>3, <1>4, <1>5, <1>6, <1>7, <1>8, <1>9, <1>10, <1>11 DEF Works, ClientStep

\* While no client failed there is one daemon, and it is known (Sole).
LEMMA SoleNext == BootstrapInv /\ Sole /\ [Next]_vars => Sole'
<1> SUFFICES ASSUME BootstrapInv, Sole, [Next]_vars, slips' = 0 PROVE Sole'
  BY DEF Sole
<1>1. slips = 0
  BY SlipsCount
<1>2. manifest' # None
      /\ (image'[manifest'.pid] # None => image'[manifest'.pid].version = manifest'.version)
  BY <1>1, ManifestHasTheVersion
<1>3. ASSUME NEW d \in Pids
      PROVE  /\ proc'[d] \in {"starting", "cleared"} => \E c \in Clients : Awaits(c, d)'
             /\ proc'[d] \in {"up", "stopping"} => socket' = d
             /\ /\ proc'[d] = "up" /\ d # manifest'.pid /\ image'[d].version \in Compatible
                /\ \A c \in Clients : ~Awaits(c, d)'
                => image'[d].origin = "sibling"
  BY <1>1, StartingAreAwaited, SocketIsTheirs, UnnamedAreSiblings
<1>4. ASSUME NEW c \in Clients PROVE Alone(c)'
  <2>1. Alone(c) /\ TypeOK
    BY <1>1 DEF Alone, Sole, BootstrapInv
  <2>2. CASE Works(c)
    BY <1>1, <2>1, <2>2, AloneWorking
  <2>3. ASSUME NEW e \in Clients, Works(e), e # c PROVE Alone(c)'
    <3>1. job'[c] = job[c] /\ job[c].at = "idle"
      BY <2>1, <2>3, OneWrites
    <3> QED BY <3>1 DEF Alone
  <2>4. CASE UNCHANGED job
    <3>1. ASSUME NEW e \in Clients, Spawn(e) PROVE FALSE
      <4>1. job[e].at = "start" /\ job \in [Clients -> Jobs]
        BY <2>1, <3>1 DEF Spawn, TypeOK, Jobs
      <4>2. job'[e].at = "check"
        BY <3>1, <4>1 DEF Spawn, Jobs
      <4> QED BY <2>4, <4>1, <4>2
    <3> QED BY <2>1, <2>4, <3>1, AloneWaiting
  <2> QED
    BY <2>2, <2>3, <2>4
    DEF Next, Works, DaemonStep, ClearSocket, Bind, Unlink, StartFails, Lose, Upgrade
<1> QED BY <1>2, <1>3, <1>4 DEF Sole, Alone

\* In a home where a daemon was recorded before, the first state has one daemon
\* at most, the one the manifest names.
LEMMA SoleInit == ASSUME None \notin FirstManifests PROVE Init => Sole
<1> SUFFICES ASSUME Init PROVE Sole
  OBVIOUS
<1> USE HomeAssumption, NoneAssumption
<1> DEFINE named == [binary  |-> manifest.binary, version |-> manifest.version,
                     model   |-> manifest.model, origin  |-> manifest.origin]
<1>1. /\ manifest # None /\ manifest \in Manifests /\ manifest.pid \in Pids
      /\ socket = manifest.pid /\ job = [c \in Clients |-> Idle]
  BY DEF Init, Manifests
<1> PICK alive \in BOOLEAN :
      /\ proc  = [d \in Pids |-> IF d # manifest.pid THEN "unused"
                                 ELSE IF alive THEN "up" ELSE "dead"]
      /\ image = [d \in Pids |-> IF d = manifest.pid /\ alive THEN named ELSE None]
  <2>1. manifest # None
    BY <1>1
  <2> QED BY <2>1 DEF Init
<1>2. image[manifest.pid] # None => image[manifest.pid].version = manifest.version
  BY <1>1
<1>3. ASSUME NEW c \in Clients PROVE Alone(c)
  BY <1>1 DEF Alone, Idle
<1>4. \A d \in Pids : /\ proc[d] \notin {"starting", "cleared"}
                      /\ proc[d] \in {"up", "stopping"} => d = manifest.pid
  OBVIOUS
<1> QED BY <1>1, <1>2, <1>3, <1>4 DEF Sole

\* In such a home there is one daemon, and it is known, until a client fails.
THEOREM OneDaemon == ASSUME None \notin FirstManifests PROVE Spec => []Sole
<1>1. BootstrapInv /\ Sole /\ [Next]_vars => Sole'
  BY SoleNext
<1> QED BY SoleInit, <1>1, BootstrapCorrect, PTL DEF Spec

\* In such a home, while no client failed, a daemon that answers is never given a
\* second one beside it (KnownDaemonIsNotDuplicated).
THEOREM NotDuplicated ==
    ASSUME None \notin FirstManifests PROVE Spec => KnownDaemonIsNotDuplicated
<1> DEFINE A == \A c \in Clients :
                   Starts(c) /\ slips = 0 /\ job[c].m # None => Serving = None
<1>1. BootstrapInv /\ Sole /\ [Next]_vars => [A]_vars
  <2> SUFFICES ASSUME BootstrapInv, Sole, NEW c \in Clients, Starts(c), slips = 0
               PROVE  Serving = None
    OBVIOUS
  <2>1. \A d \in Pids : image[d] = None
    BY DEF Sole, Alone, Starts
  <2> QED BY <2>1, AnswersAreAlive
<1> QED BY BootstrapCorrect, OneDaemon, <1>1, PTL DEF Spec, KnownDaemonIsNotDuplicated

\* In such a home, while no client failed, none stops a daemon that was started
\* from an override or from PATH (ExternalIsNotStopped).
THEOREM ExternalStays ==
    ASSUME None \notin FirstManifests PROVE Spec => ExternalIsNotStopped
<1> DEFINE A == \A d \in Pids :
                   proc[d] = "up" /\ proc'[d] # "up" /\ job' # job /\ slips = 0 =>
                      image[d].origin \notin {"override", "path"}
<1>1. BootstrapInv /\ Sole /\ [Next]_vars => [A]_vars
  <2> SUFFICES ASSUME BootstrapInv, Sole, [Next]_vars, NEW d \in Pids,
                      proc[d] = "up", proc'[d] # "up", job' # job, slips = 0
               PROVE  image[d].origin \notin External
    BY DEF External
  <2>0. /\ TypeOK /\ Processes /\ Truthful /\ job \in [Clients -> Jobs]
        /\ image[d] # None
    BY DEF BootstrapInv, TypeOK, Jobs, Processes
  <2>1. ASSUME NEW c \in Clients, job[c].at \in {"rpc", "term"}
        PROVE  image[d].origin \notin External
    <3>1. d = job[c].pid /\ image[d].version \in Compatible
      BY <2>0, <2>1 DEF Sole, Alone
    <3>2. \A e \in Clients : ~Awaits(e, d)
      BY <2>0, <2>1, OneAtWork DEF Awaits
    <3>3. job[c].m = manifest /\ manifest # None /\ manifest.origin \notin External
      BY <2>1 DEF BootstrapInv, Known
    <3>4. CASE d = manifest.pid
      BY <2>0, <3>3, <3>4 DEF Truthful
    <3>5. CASE d # manifest.pid
      <4>1. image[d].origin = "sibling"
        BY <3>1, <3>2, <3>5 DEF Sole
      <4> QED BY <4>1 DEF External
    <3> QED BY <3>4, <3>5
  <2>2. ASSUME NEW c \in Clients, Spawn(c) PROVE FALSE
    <3> PICK e \in Pids : /\ \A f \in Pids : proc[f] = "unused" <=> e <= f
                          /\ proc'  = [proc EXCEPT ![e] = "starting"]
      BY <2>2 DEF Spawn
    <3>1. proc[e] = "unused"
      BY HomeAssumption
    <3> QED BY <2>0, <3>1 DEF TypeOK
  <2>3. \E c \in Clients : SendShutdown(c) \/ Terminate(c) \/ Spawn(c)
    BY DEF Next, ClientStep, DaemonStep, Begin, Reuse, Replace, FindSilent, ProbeFails,
           CheckOwner, SeeDown, DownTimeout, Choose, CheckChild, SeeUp, HealthTimeout,
           GiveUp, ClearSocket, Bind, Unlink, StartFails, Lose, Upgrade
  <2> QED BY <2>1, <2>2, <2>3 DEF SendShutdown, Terminate
<1> QED BY BootstrapCorrect, OneDaemon, <1>1, PTL DEF Spec, ExternalIsNotStopped

\* In such a home, while no client failed, the manifest tells the truth between two
\* operations about the process it names, as long as that serves (ManifestIsTrue).
THEOREM ManifestTrue ==
    ASSUME None \notin FirstManifests PROVE Spec => []ManifestIsTrue
<1>1. BootstrapInv /\ Sole => ManifestIsTrue
  <2> SUFFICES ASSUME BootstrapInv, Sole, slips = 0, manifest # None,
                      Serving = manifest.pid
               PROVE  /\ image[Serving].version = manifest.version
                      /\ image[Serving].binary = manifest.binary
                      /\ image[Serving].model = manifest.model
    BY DEF ManifestIsTrue
  <2>1. Serving # None
    BY NoneAssumption DEF BootstrapInv, TypeOK, Manifests
  <2> QED BY <2>1, AnswersAreAlive DEF BootstrapInv, Truthful, Sole
<1> QED BY BootstrapCorrect, OneDaemon, <1>1, PTL
=============================================================================
