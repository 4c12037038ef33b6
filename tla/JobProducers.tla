---------------------------- MODULE JobProducers ----------------------------
(***************************************************************************)
(* The endpoints that control systemd units (internal/systemd) and Docker  *)
(* containers, images and compose projects (internal/docker), and the      *)
(* goroutines that they leave behind: an accepted request gets a record in *)
(* the job store and a goroutine that carries the operation out under a    *)
(* timeout and stores its verdict.                                         *)
(*                                                                         *)
(* systemd answers a unit operation with a job; the end of that job comes  *)
(* as a signal, which go-systemd's dispatcher passes to the channel that   *)
(* is registered for the job while it holds the lock that StartUnit and    *)
(* its kin need.  A second operation on a unit whose job is still queued   *)
(* either cancels that job (mode "replace") or joins it, and a join        *)
(* registers its channel in place of the first one.  All unit operations   *)
(* here are on one unit, the case where they meet.  The Docker CLI is a    *)
(* child process; killing it need not end the operation.                   *)
(***************************************************************************)
EXTENDS Naturals, Sequences, FiniteSets, FiniteSetsExt

CONSTANTS
    MaxRequests,  \* bound on the requests, numbered as they arrive
    Ops,          \* Ops[r]: the operations that request r may ask for
    MaxAgings,    \* bound on how often a record outlives the TTL
    Configs,      \* the configurations considered
    None

Requests == 1..MaxRequests

Verbs ==
    [unit      |-> {"list", "inspect", "file", "start", "stop", "restart", "reload",
                    "enable", "disable", "other", "unnamed"},
     container |-> {"list", "inspect", "logs", "start", "stop", "restart", "other", "unnamed"},
     image     |-> {"list", "inspect", "pull", "remove", "other", "unnamed"},
     compose   |-> {"list", "inspect", "up", "down", "pull", "restart", "build", "other",
                    "unnamed"}]

AllOps == UNION {[family : {f}, verb : Verbs[f]] : f \in DOMAIN Verbs}

(* What systemd.toml and docker.toml switch on, and the operations that    *)
(* their allow lists name.  "dbus": the connection made at start stands.   *)
Sections == {"systemd", "dbus", "units", "docker", "containers", "images", "compose"}

ASSUME ProducersAssumption ==
    /\ MaxRequests \in Nat
    /\ MaxAgings \in Nat
    /\ Ops \in [Requests -> SUBSET AllOps]
    /\ Configs \subseteq [on : SUBSET Sections, allow : SUBSET AllOps]
    /\ None \notin Requests
    /\ None \notin {"accepted", "completed", "failed", "done", "skipped", "canceled", "pending"}

VARIABLES
    cfg,       \* the configuration, read at start
    op,        \* op[r]: what request r asks for
    code,      \* code[r]: the answer to r, 0 before it
    pc,        \* pc[r]: where r's goroutine is
    verdict,   \* verdict[r]: the status that r's goroutine is about to store
    record,    \* record[r]: r's record in JobStore.jobs
    aged,      \* aged[r]: that record is older than the TTL
    work,      \* work[r]: the piece of work that serves r
    outcome,   \* outcome[w]: how the work w ended, or "pending"
    killed,    \* killed[r]: r's timeout has killed the docker command
    installed, \* the unit's job that systemd has not ended, or None
    listener,  \* listener[w]: whose channel is registered for the unit's job w
    ch,        \* ch[r]: the channel of r's goroutine
    signals,   \* JobRemoved signals that the dispatcher has not handled
    agings     \* how often a record has outlived the TTL

storeVars == <<record, aged, agings>>
busVars == <<installed, listener, ch, signals>>
producersVars == <<cfg, op, code, pc, verdict, record, aged, work, outcome, killed,
                   installed, listener, ch, signals, agings>>

Success == {"done", "skipped"}

Ended == Success \cup {"failed", "canceled"}

(* Status codes: 200 is the answer of a synchronous operation.             *)
Codes == {0, 200, 202, 400, 403, 404, 405, 500, 503}

ProducersTypeOK ==
    /\ cfg \in Configs
    /\ op \in [Requests -> AllOps \cup {None}]
    /\ code \in [Requests -> Codes]
    /\ pc \in [Requests -> {"idle", "call", "wait", "reload", "run", "store", "done"}]
    /\ verdict \in [Requests -> {"completed", "failed", None}]
    /\ record \in [Requests -> {"accepted", "completed", "failed", None}]
    /\ aged \in [Requests -> BOOLEAN]
    /\ work \in [Requests -> Requests \cup {None}]
    /\ outcome \in [Requests -> Ended \cup {"pending", None}]
    /\ killed \in [Requests -> BOOLEAN]
    /\ installed \in Requests \cup {None}
    /\ listener \in [Requests -> Requests \cup {None}]
    /\ ch \in [Requests -> Seq(Ended)]
    /\ signals \in Seq(Requests)
    /\ agings \in 0..MaxAgings

ProducersInit ==
    /\ cfg \in Configs
    /\ op = [r \in Requests |-> None]
    /\ code = [r \in Requests |-> 0]
    /\ pc = [r \in Requests |-> "idle"]
    /\ verdict = [r \in Requests |-> None]
    /\ record = [r \in Requests |-> None]
    /\ aged = [r \in Requests |-> FALSE]
    /\ work = [r \in Requests |-> None]
    /\ outcome = [r \in Requests |-> None]
    /\ killed = [r \in Requests |-> FALSE]
    /\ installed = None
    /\ listener = [r \in Requests |-> None]
    /\ ch = [r \in Requests |-> <<>>]
    /\ signals = <<>>
    /\ agings = 0

-----------------------------------------------------------------------------
(* The checks of a handler, in their order: 0 if one holds, else the       *)
(* answer.  The first that fails decides.                                  *)
Check(holds, status) == IF holds THEN 0 ELSE status

FirstFailure(checks) ==
    LET failing == {i \in DOMAIN checks : checks[i] # 0}
    IN  IF failing = {} THEN 0 ELSE checks[Min(failing)]

(* The path names a unit, container, image or project.                     *)
NamesTarget(o) == Check(o.verb # "unnamed", 400)

On(section) == section \in cfg.on

Allowed(o) == o \in cfg.allow

(* m: the request uses the method that the endpoint expects.               *)
handleUnits(m) == <<Check(m, 405), Check(On("units"), 403)>>

handleUnitInspect(m) == <<Check(m, 405), Check(On("units"), 403)>>

handleUnitFile(m) == <<Check(m, 405), Check(On("units"), 403)>>

handleUnitControl(m) == <<Check(m, 405), Check(On("units"), 403)>>

handleUnitEnable(o, m) ==
    <<Check(m, 405), Check(On("units"), 403), Check(Allowed(o), 403)>>

guard == <<Check(On("systemd"), 503), Check(On("dbus"), 503)>>

UnitControls == {"start", "stop", "restart", "reload"}

routeUnit(o, m) ==
    IF o.verb = "list" THEN guard \o handleUnits(m) ELSE
    guard \o <<NamesTarget(o)>> \o
    CASE o.verb = "inspect"               -> handleUnitInspect(m)
      [] o.verb = "file"                  -> handleUnitFile(m)
      [] o.verb \in UnitControls          -> handleUnitControl(m)
      [] o.verb \in {"enable", "disable"} -> handleUnitEnable(o, m)
      [] OTHER                            -> <<Check(FALSE, 404)>>

handleContainers(m) ==
    <<Check(m, 405), Check(On("docker"), 503), Check(On("containers"), 403)>>

handleContainerInspect(m) == <<Check(m, 405)>>

handleContainerLogs(o, m) == <<Check(m, 405), Check(Allowed(o), 403)>>

handleContainerStart(o, m) == <<Check(m, 405), Check(Allowed(o), 403)>>

handleContainerStop(o, m) == <<Check(m, 405), Check(Allowed(o), 403)>>

handleContainerRestart(o, m) == <<Check(m, 405), Check(Allowed(o), 403)>>

routeContainer(o, m) ==
    IF o.verb = "list" THEN handleContainers(m) ELSE
    <<Check(On("docker"), 503), Check(On("containers"), 403), NamesTarget(o)>> \o
    CASE o.verb = "inspect" -> handleContainerInspect(m)
      [] o.verb = "logs"    -> handleContainerLogs(o, m)
      [] o.verb = "start"   -> handleContainerStart(o, m)
      [] o.verb = "stop"    -> handleContainerStop(o, m)
      [] o.verb = "restart" -> handleContainerRestart(o, m)
      [] OTHER              -> <<Check(FALSE, 404)>>

handleImages(m) == <<Check(m, 405), Check(On("docker"), 503), Check(On("images"), 403)>>

handleImageInspect(m) == <<Check(m, 405)>>

handleImagePull(o, m) == <<Check(m, 405), Check(Allowed(o), 403)>>

handleImageRemove(o, m) == <<Check(m, 405), Check(Allowed(o), 403)>>

routeImage(o, m) ==
    IF o.verb = "list" THEN handleImages(m) ELSE
    <<Check(On("docker"), 503), Check(On("images"), 403), NamesTarget(o)>> \o
    CASE o.verb = "inspect" -> handleImageInspect(m)
      [] o.verb = "pull"    -> handleImagePull(o, m)
      [] o.verb = "remove"  -> handleImageRemove(o, m)
      [] OTHER              -> <<Check(FALSE, 404)>>

composeList == [family |-> "compose", verb |-> "list"]

handleComposeProjects(m) ==
    <<Check(m, 405), Check(On("compose"), 403), Check(Allowed(composeList), 403)>>

handleComposeProject(m) == <<Check(m, 405)>>

(* Up is allowed with the section.                                         *)
handleComposeUp(m) == <<Check(m, 405), Check(On("compose"), 403)>>

(* Down, pull, restart and build differ in their command only.             *)
handleComposeAction(o, m) ==
    <<Check(m, 405), Check(On("compose"), 403), Check(Allowed(o), 403)>>

(* The section docker.enabled is not asked for.                            *)
routeCompose(o, m) ==
    IF o.verb = "list" THEN handleComposeProjects(m) ELSE
    <<Check(On("compose"), 403), Check(Allowed(composeList), 403), NamesTarget(o)>> \o
    CASE o.verb = "inspect" -> handleComposeProject(m)
      [] o.verb = "up"      -> handleComposeUp(m)
      [] o.verb \in {"down", "pull", "restart", "build"} -> handleComposeAction(o, m)
      [] OTHER              -> <<Check(FALSE, 404)>>

Route(o, m) ==
    CASE o.family = "unit"      -> routeUnit(o, m)
      [] o.family = "container" -> routeContainer(o, m)
      [] o.family = "image"     -> routeImage(o, m)
      [] o.family = "compose"   -> routeCompose(o, m)

IsQuery(o) == o.verb \in {"list", "inspect", "file", "logs"}

IsRemoval(o) == o.family = "image" /\ o.verb = "remove"

IsUnitControl(o) == o.family = "unit" /\ o.verb \in UnitControls

IsUnitEnable(o) == o.family = "unit" /\ o.verb \in {"enable", "disable"}

IsContainerCall(o) == o.family = "container" /\ o.verb \in {"start", "stop", "restart"}

IsCommand(o) ==
    \/ o.family = "image" /\ o.verb = "pull"
    \/ o.family = "compose" /\ o.verb \in {"up", "down", "pull", "restart", "build"}

-----------------------------------------------------------------------------
(* Requests.                                                               *)
Goto(r, label) == pc' = [pc EXCEPT ![r] = label]

Arrives(r, o) ==
    /\ pc[r] = "idle"
    /\ \A q \in 1..(r - 1) : pc[q] # "idle"
    /\ op' = [op EXCEPT ![r] = o]

Answer(r, status) == code' = [code EXCEPT ![r] = status]

Refuse(r, o, m) ==
    /\ Arrives(r, o)
    /\ FirstFailure(Route(o, m)) # 0
    /\ Answer(r, FirstFailure(Route(o, m)))
    /\ Goto(r, "done")
    /\ UNCHANGED <<cfg, verdict, storeVars, work, outcome, killed, busVars>>

(* A query reads what systemd or Docker says and changes nothing; what it  *)
(* asks for may be missing, and the call may fail.                         *)
Query(r, o) ==
    /\ IsQuery(o)
    /\ Arrives(r, o)
    /\ FirstFailure(Route(o, TRUE)) = 0
    /\ \E status \in {200, 404, 500} : Answer(r, status)
    /\ Goto(r, "done")
    /\ UNCHANGED <<cfg, verdict, storeVars, work, outcome, killed, busVars>>

(* The image is removed within the request.                                *)
RemoveImage(r, o) ==
    /\ IsRemoval(o)
    /\ Arrives(r, o)
    /\ FirstFailure(Route(o, TRUE)) = 0
    /\ \E done \in BOOLEAN :
        /\ Answer(r, IF done THEN 200 ELSE 500)
        /\ work' = [work EXCEPT ![r] = r]
        /\ outcome' = [outcome EXCEPT ![r] = IF done THEN "done" ELSE "failed"]
    /\ Goto(r, "done")
    /\ UNCHANGED <<cfg, verdict, storeVars, killed, busVars>>

(* NewJob, the goroutine, and the answer.                                  *)
AcceptJob(r, o) ==
    /\ ~IsQuery(o) /\ ~IsRemoval(o)
    /\ Arrives(r, o)
    /\ FirstFailure(Route(o, TRUE)) = 0
    /\ Answer(r, 202)
    /\ Goto(r, "call")
    /\ record' = [record EXCEPT ![r] = "accepted"]
    /\ UNCHANGED <<cfg, verdict, aged, agings, work, outcome, killed, busVars>>

-----------------------------------------------------------------------------
(* Unit control.                                                           *)
(* ch := make(chan string): without room for a result.                     *)
MutantNoBuffer == 0

(* ch := make(chan string, 1).                                             *)
Buffer == 1

(* The dispatcher can pass a result to r's channel without waiting.        *)
CanSend(r) == Len(ch[r]) < Buffer \/ (Buffer = 0 /\ pc[r] = "wait")

(* It waits for a channel, and holds jobListener's lock.                   *)
DispatcherBlocked ==
    /\ signals # <<>>
    /\ listener[Head(signals)] # None
    /\ ~CanSend(listener[Head(signals)])

Conclude(r, v) ==
    /\ verdict' = [verdict EXCEPT ![r] = v]
    /\ Goto(r, "store")

(* systemd makes a job for r: it takes the place of one that it conflicts  *)
(* with, which ends canceled.                                              *)
Install(r) ==
    /\ installed' = r
    /\ IF installed = None
       THEN /\ outcome' = [outcome EXCEPT ![r] = "pending"]
            /\ UNCHANGED signals
       ELSE /\ outcome' = [outcome EXCEPT ![r] = "pending", ![installed] = "canceled"]
            /\ signals' = Append(signals, installed)

(* A start, restart or reload joins one of those, a stop joins a stop.     *)
Joins(r) ==
    /\ installed # None
    /\ (op[r].verb = "stop") = (op[installed].verb = "stop")

(* StartUnitContext and its kin: go-systemd holds the lock from the call   *)
(* until it has registered the channel.                                    *)
StartUnit(r) ==
    /\ pc[r] = "call" /\ IsUnitControl(op[r])
    /\ ~DispatcherBlocked
    /\ \/ /\ ~Joins(r)
          /\ Install(r)
          /\ work' = [work EXCEPT ![r] = r]
          /\ listener' = [listener EXCEPT ![r] = r]
       \/ /\ Joins(r)
          /\ work' = [work EXCEPT ![r] = installed]
          /\ listener' = [listener EXCEPT ![installed] = r]
          /\ UNCHANGED <<installed, outcome, signals>>
    /\ Goto(r, "wait")
    /\ UNCHANGED <<cfg, op, code, verdict, storeVars, killed, ch>>

(* The call fails, or its answer comes too late: then systemd has the job  *)
(* and no channel is registered.                                           *)
StartUnitFails(r) ==
    /\ pc[r] = "call" /\ IsUnitControl(op[r])
    /\ ~DispatcherBlocked
    /\ \/ UNCHANGED <<installed, outcome, signals>>
       \/ ~Joins(r) /\ Install(r)
    /\ Conclude(r, "failed")
    /\ UNCHANGED <<cfg, op, code, storeVars, work, killed, listener, ch>>

(* Outside: the unit's job ends, and systemd says so.                      *)
UnitJobEnds ==
    /\ installed # None
    /\ \E how \in Success \cup {"failed"} :
        outcome' = [outcome EXCEPT ![installed] = how]
    /\ signals' = Append(signals, installed)
    /\ installed' = None
    /\ UNCHANGED <<cfg, op, code, pc, verdict, storeVars, work, killed, listener, ch>>

(* go-systemd's jobComplete.                                               *)
Dispatch ==
    /\ signals # <<>>
    /\ ~DispatcherBlocked
    /\ LET w == Head(signals) IN
        /\ ch' = IF listener[w] = None THEN ch
                 ELSE [ch EXCEPT ![listener[w]] = Append(@, outcome[w])]
        /\ listener' = [listener EXCEPT ![w] = None]
    /\ signals' = Tail(signals)
    /\ UNCHANGED <<cfg, op, code, pc, verdict, storeVars, work, outcome, killed, installed>>

(* Whatever is no failure counts as success.                               *)
MutantUnitVerdict(result) == IF result = "failed" THEN "failed" ELSE "completed"

UnitVerdict(result) == IF result \in Success THEN "completed" ELSE "failed"

ReceiveResult(r) ==
    /\ pc[r] = "wait"
    /\ ch[r] # <<>>
    /\ Conclude(r, UnitVerdict(Head(ch[r])))
    /\ ch' = [ch EXCEPT ![r] = Tail(@)]
    /\ UNCHANGED <<cfg, op, code, storeVars, work, outcome, killed, installed, listener, signals>>

(* A wait that only a result ends.                                         *)
MutantNoTimeout(r) ==
    /\ pc[r] = "wait"
    /\ ch[r] # <<>>
    /\ Conclude(r, "failed")
    /\ UNCHANGED <<cfg, op, code, storeVars, work, outcome, killed, busVars>>

(* ctx.Done() of the 30 seconds; select may take it beside a result.       *)
WaitTimeout(r) ==
    /\ pc[r] = "wait"
    /\ Conclude(r, "failed")
    /\ UNCHANGED <<cfg, op, code, storeVars, work, outcome, killed, busVars>>

-----------------------------------------------------------------------------
(* Enable and disable: the change of the unit files, then a reload of the  *)
(* manager whose error is dropped.                                         *)
EnableUnit(r) ==
    /\ pc[r] = "call" /\ IsUnitEnable(op[r])
    /\ work' = [work EXCEPT ![r] = r]
    /\ \E how \in {"done", "failed"}, lost \in BOOLEAN :
        /\ outcome' = [outcome EXCEPT ![r] = how]
        /\ IF how = "done" /\ ~lost
           THEN Goto(r, "reload") /\ UNCHANGED verdict
           ELSE Conclude(r, "failed")
    /\ UNCHANGED <<cfg, op, code, storeVars, killed, busVars>>

ReloadManager(r) ==
    /\ pc[r] = "reload"
    /\ Conclude(r, "completed")
    /\ UNCHANGED <<cfg, op, code, storeVars, work, outcome, killed, busVars>>

(* ContainerStart, ContainerStop, ContainerRestart: the daemon may do what *)
(* it is asked while the answer is late.                                   *)
CallContainer(r) ==
    /\ pc[r] = "call" /\ IsContainerCall(op[r])
    /\ work' = [work EXCEPT ![r] = r]
    /\ \E how \in {"done", "failed"}, lost \in BOOLEAN :
        /\ outcome' = [outcome EXCEPT ![r] = how]
        /\ Conclude(r, IF how = "done" /\ ~lost THEN "completed" ELSE "failed")
    /\ UNCHANGED <<cfg, op, code, storeVars, killed, busVars>>

-----------------------------------------------------------------------------
(* The docker command.                                                     *)
StartCommand(r) ==
    /\ pc[r] = "call" /\ IsCommand(op[r])
    /\ Goto(r, "run")
    /\ work' = [work EXCEPT ![r] = r]
    /\ outcome' = [outcome EXCEPT ![r] = "pending"]
    /\ UNCHANGED <<cfg, op, code, verdict, storeVars, killed, busVars>>

(* Outside: the command has done its work, or gives up.                    *)
CommandEnds(r) ==
    /\ pc[r] = "run" /\ outcome[r] = "pending"
    /\ \E how \in {"done", "failed"} : outcome' = [outcome EXCEPT ![r] = how]
    /\ UNCHANGED <<cfg, op, code, pc, verdict, storeVars, work, killed, busVars>>

(* The context ends: docker is killed.  A plugin that it has started goes  *)
(* on and keeps the output open, so that Run does not return yet.          *)
KillCommand(r) ==
    /\ pc[r] = "run" /\ outcome[r] = "pending" /\ ~killed[r]
    /\ killed' = [killed EXCEPT ![r] = TRUE]
    /\ \E how \in {"pending", "failed"} : outcome' = [outcome EXCEPT ![r] = how]
    /\ UNCHANGED <<cfg, op, code, pc, verdict, storeVars, work, busVars>>

(* The status is what the command says.                                    *)
MutantRunDockerCLI(r) ==
    /\ pc[r] = "run" /\ outcome[r] # "pending"
    /\ Conclude(r, outcome[r])
    /\ UNCHANGED <<cfg, op, code, storeVars, work, outcome, killed, busVars>>

runDockerCLI(r) ==
    /\ pc[r] = "run" /\ outcome[r] # "pending"
    /\ Conclude(r, IF outcome[r] = "done" /\ ~killed[r] THEN "completed" ELSE "failed")
    /\ UNCHANGED <<cfg, op, code, storeVars, work, outcome, killed, busVars>>

-----------------------------------------------------------------------------
(* The job store.                                                          *)
StoreVerdict(r) ==
    /\ pc[r] = "store"
    /\ Goto(r, "done")
    /\ record' = [record EXCEPT ![r] = verdict[r]]
    /\ aged' = [aged EXCEPT ![r] = FALSE]
    /\ verdict' = [verdict EXCEPT ![r] = None]
    /\ UNCHANGED <<cfg, op, code, agings, work, outcome, killed, busVars>>

RecordAges(r) ==
    /\ record[r] # None
    /\ ~aged[r]
    /\ agings < MaxAgings
    /\ agings' = agings + 1
    /\ aged' = [aged EXCEPT ![r] = TRUE]
    /\ UNCHANGED <<cfg, op, code, pc, verdict, record, work, outcome, killed, busVars>>

evict ==
    /\ \E r \in Requests : aged[r]
    /\ record' = [r \in Requests |-> IF aged[r] THEN None ELSE record[r]]
    /\ aged' = [r \in Requests |-> FALSE]
    /\ UNCHANGED <<cfg, op, code, pc, verdict, agings, work, outcome, killed, busVars>>

(* Every request has been served and no record waits for its eviction.     *)
AllServed ==
    /\ \A r \in Requests : pc[r] = "done" /\ ~aged[r]
    /\ installed = None /\ signals = <<>>
    /\ UNCHANGED producersVars

-----------------------------------------------------------------------------
Request(r) ==
    \E o \in Ops[r] :
        \/ \E m \in BOOLEAN : Refuse(r, o, m)
        \/ Query(r, o) \/ RemoveImage(r, o) \/ AcceptJob(r, o)

Producer(r) ==
    \/ StartUnit(r) \/ StartUnitFails(r) \/ ReceiveResult(r) \/ WaitTimeout(r)
    \/ EnableUnit(r) \/ ReloadManager(r)
    \/ CallContainer(r)
    \/ StartCommand(r) \/ runDockerCLI(r)
    \/ StoreVerdict(r)

ProducersNext ==
    \/ \E r \in Requests :
        Request(r) \/ Producer(r) \/ CommandEnds(r) \/ KillCommand(r) \/ RecordAges(r)
    \/ UnitJobEnds
    \/ Dispatch
    \/ evict
    \/ AllServed

ProducersSpec == ProducersInit /\ [][ProducersNext]_producersVars

(***************************************************************************)
(* The goroutines and the dispatcher run, contexts end, and a docker       *)
(* command, or the plugin that outlives it, ends.  Nothing is assumed of   *)
(* the unit: it may stay in transition for ever.                           *)
(***************************************************************************)
FairProducersSpec ==
    /\ ProducersSpec
    /\ WF_producersVars(Dispatch)
    /\ \A r \in Requests : WF_producersVars(Producer(r)) /\ WF_producersVars(CommandEnds(r))

-----------------------------------------------------------------------------
(***************************************************************************)
(* A job is reported completed only if the work that serves it has ended   *)
(* well: not on a timeout, not when another operation canceled the unit's  *)
(* job, not with the result of another job (systemd.go, "status :=         *)
(* types.JobStatusCompleted").                                             *)
(***************************************************************************)
CompletedIsEarned ==
    \A r \in Requests :
        record[r] = "completed" => work[r] # None /\ outcome[work[r]] \in Success

(***************************************************************************)
(* "Buffer of 1 so the write never blocks" (systemd.go): go-systemd's      *)
(* dispatcher never waits for a goroutine, although goroutines stop        *)
(* listening on timeout and unit jobs change hands.                        *)
(***************************************************************************)
WriteNeverBlocks == ~DispatcherBlocked

Phase(r) ==
    IF code[r] # 202 THEN "none" ELSE IF pc[r] = "done" THEN "finished" ELSE "running"

Lifecycle == INSTANCE JobLifecycle WITH
    Jobs <- Requests, Verdicts <- {"completed", "failed"}, Accepted <- "accepted",
    phase <- [r \in Requests |-> Phase(r)], entry <- record, old <- aged

(***************************************************************************)
(* Every request's record lives the life that JobStream assumes: one       *)
(* verdict, stored once, and stored in the end whatever systemd and the    *)
(* Docker daemon do.                                                       *)
(***************************************************************************)
ImplementsLifecycle == Lifecycle!Spec

-----------------------------------------------------------------------------
(***************************************************************************)
(* The inductive invariant.  A verdict is earned because the channel of a  *)
(* goroutine carries the result of the work that serves it and no other,   *)
(* and because a result, once there, stands.  The dispatcher never waits   *)
(* because a registered channel is empty.                                  *)
(***************************************************************************)
UntouchedYet ==
    \A r \in Requests : pc[r] \in {"idle", "call"} => work[r] = None /\ outcome[r] = None

(* The unit's job is that of an operation whose call is over.              *)
InstalledIsPending ==
    installed # None =>
        pc[installed] \in {"wait", "store", "done"} /\ outcome[installed] = "pending"

SignalsTellEnds == \A i \in DOMAIN signals : outcome[signals[i]] \in Ended

ListenersEmpty ==
    \A w, r \in Requests : listener[w] = r => work[r] = w /\ ch[r] = <<>>

ChannelsTrue ==
    \A r \in Requests :
        ch[r] # <<>> =>
            /\ work[r] \in Requests
            /\ outcome[work[r]] \in Ended
            /\ ch[r] = <<outcome[work[r]]>>

(* Enabling a unit and a docker command are the goroutine's own work.      *)
OwnWork ==
    \A r \in Requests :
        /\ pc[r] = "reload" => work[r] = r /\ outcome[r] = "done"
        /\ pc[r] = "run" => work[r] = r /\ outcome[r] \in {"pending", "done", "failed"}

VerdictsEarned ==
    \A r \in Requests :
        record[r] = "completed" \/ verdict[r] = "completed" =>
            work[r] \in Requests /\ outcome[work[r]] \in Success

VerdictsReady ==
    \A r \in Requests : pc[r] = "store" => verdict[r] \in {"completed", "failed"}

(* 202 is the answer of those that have a goroutine or had one.            *)
AcceptedRun ==
    \A r \in Requests :
        /\ pc[r] = "idle" => code[r] = 0
        /\ pc[r] \in {"call", "wait", "reload", "run", "store"} => code[r] = 202

ProducerInv ==
    /\ ProducersTypeOK
    /\ UntouchedYet
    /\ InstalledIsPending
    /\ SignalsTellEnds
    /\ ListenersEmpty
    /\ ChannelsTrue
    /\ OwnWork
    /\ VerdictsEarned
    /\ VerdictsReady
    /\ AcceptedRun
=============================================================================
