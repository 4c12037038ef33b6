--------------------------- MODULE ServiceRegistry ---------------------------
(***************************************************************************)
(* The services of services.d, the map of them that GET /services lists    *)
(* (internal/services/registry.go), and everything that changes them: the  *)
(* admin's push and delete (internal/api/admin.go), POST                   *)
(* /services/provision (internal/provision, internal/api/provision.go) and *)
(* edits by hand.                                                          *)
(*                                                                         *)
(* A reload lists the directory, opens the listed files one after the      *)
(* other and only then takes the lock to assign the map; the watcher       *)
(* goroutine and every request reload on their own, so the steps of their  *)
(* reloads interleave with each other and with writes of the files.  A     *)
(* provision makes three writes, and the daemon may die between them.      *)
(* Permissions and the state epoch are the business of StateEpoch.         *)
(***************************************************************************)
EXTENDS Naturals, FiniteSets

CONSTANTS
    Names,        \* service names; n stands for the file n.toml too
    Position,     \* Position[n]: where os.ReadDir lists n.toml among all files
    Pushes, Deletes, Provisions,   \* the requests
    Target,       \* Target[r]: the service that request r names
    Paths,        \* paths of staged files
    StagedPath,   \* StagedPath[r]: where provision r finds its artifact
    Hash,         \* Hash[r]: the artifact whose hash provision r declares
    Artifacts,    \* what may be staged
    HandMade,     \* service configs written by hand
    Left,         \* the services whose files are there at the start
    None,         \* no file, no service
    Broken,       \* a file that loadOne rejects, also one half written
    watcher,      \* the goroutine of watchLoop
    MaxRequests,  \* bound on requests that are made
    MaxTroubles   \* bound on edits, restagings, failing directory reads and restarts

Requests == Pushes \cup Deletes \cup Provisions

Loaders == Requests \cup {watcher}

(* A service's config is known by who made it.                             *)
Configs == Pushes \cup Provisions \cup HandMade

(* What a file holds: a config and the name it gives to its service.       *)
Valid == [name : Names, config : Configs]

ASSUME RegistryAssumption ==
    /\ IsFiniteSet(Names)
    /\ Position \in [Names -> 1..Cardinality(Names)]
    /\ \A m, n \in Names : Position[m] = Position[n] => m = n
    /\ Target \in [Requests -> Names]
    /\ StagedPath \in [Provisions -> Paths]
    /\ Hash \in [Provisions -> Artifacts]
    /\ Pushes \cap Deletes = {} /\ Provisions \cap (Pushes \cup Deletes) = {}
    /\ Left \subseteq Names
    /\ HandMade \cap Requests = {} /\ watcher \notin Requests
    /\ None \notin Configs \cup Artifacts \cup Valid
    /\ Broken \notin Valid \cup {None}
    /\ MaxRequests \in Nat /\ MaxTroubles \in Nat

VARIABLES
    dir,       \* dir[n]: the content of services.d/n.toml
    staged,    \* staged[p]: the staged file at path p
    artifact,  \* artifact[n]: services/n/artifact
    meta,      \* meta[n]: the hash in services/n/meta.json
    services,  \* Registry.services
    events,    \* file events the watcher goroutine has not taken yet
    timer,     \* its timer: off, armed, or fired and not yet taken
    pc,        \* pc[l]: where the watcher or the goroutine of a request is
    todo,      \* todo[l]: the listed files that l's LoadDir has still to open
    loaded,    \* loaded[l]: the map that it builds
    held,      \* held[r]: the artifact that provision r has read
    status,    \* status[r]: what r was answered, 0 before that
    disturbed, \* history: while r ran, another one changed what r works on
    behind,    \* history: behind[r]: the reloads under way when r changed its file
    missed,    \* history: the last reload failed, or assigned what was replaced meanwhile
    troubles   \* how many of the events that MaxTroubles bounds there were

diskVars == <<staged, artifact, meta>>
reqVars == <<held, status, disturbed, behind>>
vars == <<dir, staged, artifact, meta, services, events, timer, pc, todo, loaded,
          held, status, disturbed, behind, missed, troubles>>

Reloading == {"list", "files"}

(* A request whose file is as it wants it.                                 *)
Written == Reloading \cup {"answer"}

Running == {"verify", "copy", "artifact", "meta", "write", "remove"} \cup Written

TypeOK ==
    /\ dir \in [Names -> Valid \cup {None, Broken}]
    /\ staged \in [Paths -> Artifacts \cup {None}]
    /\ artifact \in [Names -> Artifacts \cup {None}]
    /\ meta \in [Names -> Artifacts \cup {None}]
    /\ services \in [Names -> Configs \cup {None}]
    /\ events \in Nat
    /\ timer \in {"off", "armed", "fired"}
    /\ pc \in [Loaders -> {"idle", "done", "lost", "select"} \cup Running]
    /\ pc[watcher] \in {"select"} \cup Reloading
    /\ todo \in [Loaders -> SUBSET Names]
    /\ loaded \in [Loaders -> [Names -> Configs \cup {None}]]
    /\ held \in [Provisions -> Artifacts \cup {None}]
    /\ status \in [Requests -> {0, 200, 204, 400, 404, 409, 500}]
    /\ disturbed \in [Requests -> BOOLEAN]
    /\ behind \in [Requests -> SUBSET Loaders]
    /\ missed \in BOOLEAN
    /\ troubles \in 0..MaxTroubles

-----------------------------------------------------------------------------
(* The files that define service n.                                        *)
Definers(d, n) == {f \in Names : d[f] \in Valid /\ d[f].name = n}

First(S) == CHOOSE f \in S : \A g \in S : Position[f] <= Position[g]

Last(S) == CHOOSE f \in S : \A g \in S : Position[g] <= Position[f]

Empty == [n \in Names |-> None]

(* The rest of a LoadDir that has built map m and has yet to open files t, *)
(* if the directory stays as it is: the file opened last wins.             *)
Finish(m, t, d) ==
    [n \in Names |->
        IF Definers(d, n) \cap t = {} THEN m[n] ELSE d[Last(Definers(d, n) \cap t)].config]

LoadDir(d) == Finish(Empty, Names, d)

(* NewRegistry, over files that the operator left.                         *)
Init ==
    /\ \E h \in HandMade :
        dir = [n \in Names |-> IF n \in Left THEN [name |-> n, config |-> h] ELSE None]
    /\ staged \in [Paths -> Artifacts]
    /\ artifact = Empty
    /\ meta = Empty
    /\ services = LoadDir(dir)
    /\ events = 0
    /\ timer = "off"
    /\ pc = [l \in Loaders |-> IF l = watcher THEN "select" ELSE "idle"]
    /\ todo = [l \in Loaders |-> {}]
    /\ loaded = [l \in Loaders |-> Empty]
    /\ held = [r \in Provisions |-> None]
    /\ status = [r \in Requests |-> 0]
    /\ disturbed = [r \in Requests |-> FALSE]
    /\ behind = [r \in Requests |-> {}]
    /\ missed = FALSE
    /\ troubles = 0

-----------------------------------------------------------------------------
Goto(l, label) == pc' = [pc EXCEPT ![l] = label]

Proceed(r, label) ==
    /\ Goto(r, label)
    /\ UNCHANGED status

Answer(r, code) ==
    /\ Goto(r, "done")
    /\ status' = [status EXCEPT ![r] = code]

Trouble ==
    /\ troubles < MaxTroubles
    /\ troubles' = troubles + 1

(* Request r changes n.toml or what else belongs to service n.             *)
Disturb(r, n) ==
    disturbed' = [q \in Requests |->
        \/ disturbed[q]
        \/ /\ q # r /\ pc[q] \in Running
           /\ Target[q] = n \/ n \in Definers(dir, Target[q])]

(* Request r changes its file: the reloads under way may have passed it.   *)
LeaveBehind(r) == behind' = [behind EXCEPT ![r] = {l \in Loaders : pc[l] = "files"}]

(* n.toml gets a new content or goes, and the kernel reports it.           *)
FileBecomes(n, c) ==
    /\ dir' = [dir EXCEPT ![n] = c]
    /\ events' = events + 1

-----------------------------------------------------------------------------
(* Outside the daemon.                                                     *)
(* The operator saves a file, broken or half written too, or removes it.   *)
Edit(n, c) ==
    /\ Trouble
    /\ FileBecomes(n, c)
    /\ disturbed' = [r \in Requests |-> disturbed[r] \/ pc[r] \in Running]
    /\ UNCHANGED <<diskVars, services, timer, pc, todo, loaded, held, status, behind, missed>>

(* A sender replaces the staged file, or removes it.                       *)
Stage(p, a) ==
    /\ Trouble
    /\ staged' = [staged EXCEPT ![p] = a]
    /\ disturbed' = [r \in Requests |->
                        disturbed[r] \/ (r \in Provisions /\ pc[r] \in Running /\ StagedPath[r] = p)]
    /\ UNCHANGED <<dir, artifact, meta, services, events, timer, pc, todo, loaded,
                   held, status, behind, missed>>

-----------------------------------------------------------------------------
(* watchLoop.                                                              *)
(* A watcher whose armed timer is stopped by the next event.               *)
MutantTakeEventStops ==
    /\ pc[watcher] = "select"
    /\ events > 0
    /\ events' = events - 1
    /\ timer' = IF timer = "off" THEN "armed" ELSE "off"
    /\ UNCHANGED <<dir, diskVars, services, pc, todo, loaded, reqVars, missed, troubles>>

(* An event of a .toml file: resetRegistryTimer stops, drains and arms.    *)
TakeEvent ==
    /\ pc[watcher] = "select"
    /\ events > 0
    /\ events' = events - 1
    /\ timer' = "armed"
    /\ UNCHANGED <<dir, diskVars, services, pc, todo, loaded, reqVars, missed, troubles>>

(* reloadDebounce has passed.                                              *)
Fire ==
    /\ timer = "armed"
    /\ timer' = "fired"
    /\ UNCHANGED <<dir, diskVars, services, events, pc, todo, loaded, reqVars, missed, troubles>>

TakeTimer ==
    /\ pc[watcher] = "select"
    /\ timer = "fired"
    /\ timer' = "off"
    /\ Goto(watcher, "list")
    /\ UNCHANGED <<dir, diskVars, services, events, todo, loaded, reqVars, missed, troubles>>

-----------------------------------------------------------------------------
(* Reload, of the watcher or of a request.                                 *)
(* A reload that joins the one under way instead of starting its own.      *)
MutantListFilesJoins(l) ==
    /\ pc[l] = "list"
    /\ Goto(l, "files")
    /\ \/ \E k \in Loaders :
              /\ pc[k] = "files"
              /\ todo' = [todo EXCEPT ![l] = todo[k]]
              /\ loaded' = [loaded EXCEPT ![l] = loaded[k]]
       \/ /\ \A k \in Loaders : pc[k] # "files"
          /\ todo' = [todo EXCEPT ![l] = {f \in Names : dir[f] # None}]
          /\ UNCHANGED loaded
    /\ UNCHANGED <<dir, diskVars, services, events, timer, reqVars, missed, troubles>>

(* os.ReadDir: the files that are there now.                               *)
ListFiles(l) ==
    /\ pc[l] = "list"
    /\ Goto(l, "files")
    /\ todo' = [todo EXCEPT ![l] = {f \in Names : dir[f] # None}]
    /\ UNCHANGED <<dir, diskVars, services, events, timer, loaded, reqVars, missed, troubles>>

(* A watcher that ends with the first error.                               *)
MutantListFailsEnds(l) ==
    /\ pc[l] = "list"
    /\ Trouble
    /\ \/ /\ l = watcher
          /\ Goto(l, "done")
          /\ missed' = TRUE
          /\ UNCHANGED status
       \/ /\ l # watcher
          /\ Answer(l, 500)
          /\ UNCHANGED missed
    /\ UNCHANGED <<dir, diskVars, services, events, timer, todo, loaded, held,
                   disturbed, behind>>

(* os.ReadDir fails: the watcher only logs it, a request is answered 500.  *)
ListFails(l) ==
    /\ pc[l] = "list"
    /\ Trouble
    /\ \/ /\ l = watcher
          /\ Goto(l, "select")
          /\ missed' = TRUE
          /\ UNCHANGED status
       \/ /\ l # watcher
          /\ Answer(l, 500)
          /\ UNCHANGED missed
    /\ UNCHANGED <<dir, diskVars, services, events, timer, todo, loaded, held,
                   disturbed, behind>>

(* loadOne: a file that is gone or does not parse or validate is skipped.  *)
LoadOne(l) ==
    /\ pc[l] = "files"
    /\ todo[l] # {}
    /\ LET c == dir[First(todo[l])]
       IN  loaded' = IF c \in Valid THEN [loaded EXCEPT ![l][c.name] = c.config] ELSE loaded
    /\ todo' = [todo EXCEPT ![l] = @ \ {First(@)}]
    /\ UNCHANGED <<dir, diskVars, services, events, timer, pc, reqVars, missed, troubles>>

(* The assignment under the lock; a request has yet to answer.  It counts  *)
(* as disturbed if a reload that it left behind is assigned after its own. *)
Assign(l) ==
    /\ pc[l] = "files"
    /\ todo[l] = {}
    /\ services' = loaded[l]
    /\ Goto(l, IF l = watcher THEN "select" ELSE "answer")
    /\ missed' = (l # watcher /\ loaded[l] # LoadDir(dir))
    /\ loaded' = [loaded EXCEPT ![l] = Empty]
    /\ disturbed' = [r \in Requests |-> disturbed[r] \/ (pc[r] = "answer" /\ l \in behind[r])]
    /\ behind' = [r \in Requests |-> behind[r] \ {l}]
    /\ UNCHANGED <<dir, diskVars, events, timer, todo, held, status, troubles>>

Reload(l) == ListFiles(l) \/ ListFails(l) \/ LoadOne(l) \/ Assign(l)

-----------------------------------------------------------------------------
(* The requests.                                                           *)
FirstStep(r) == IF r \in Pushes THEN "write" ELSE IF r \in Deletes THEN "remove" ELSE "verify"

(* The body or the runtime is refused, or on.                              *)
Begin(r) ==
    /\ pc[r] = "idle"
    /\ Cardinality({q \in Requests : pc[q] # "idle"}) < MaxRequests
    /\ \/ r \notin Deletes /\ Answer(r, 400)
       \/ Proceed(r, FirstStep(r))
    /\ UNCHANGED <<dir, diskVars, services, events, timer, todo, loaded, held, disturbed,
                   behind, missed, troubles>>

(* deleteService.                                                          *)
RemoveFile(r) ==
    /\ pc[r] = "remove"
    /\ \/ /\ dir[Target[r]] # None
          /\ Proceed(r, "list")
          /\ FileBecomes(Target[r], None)
          /\ Disturb(r, Target[r])
          /\ LeaveBehind(r)
       \/ /\ dir[Target[r]] = None
          /\ Answer(r, 404)
          /\ UNCHANGED <<dir, events, disturbed, behind>>
       \/ /\ Answer(r, 500)
          /\ UNCHANGED <<dir, events, disturbed, behind>>
    /\ UNCHANGED <<diskVars, services, timer, todo, loaded, held, missed, troubles>>

(* VerifyArtifact reads the staged file; the signature may be wrong too.   *)
VerifyArtifact(r) ==
    /\ pc[r] = "verify"
    /\ \/ staged[StagedPath[r]] = Hash[r] /\ Proceed(r, "copy")
       \/ Answer(r, 400)
    /\ UNCHANGED <<dir, diskVars, services, events, timer, todo, loaded, held, disturbed,
                   behind, missed, troubles>>

(* Provision reads it again.                                               *)
ReadStaged(r) ==
    /\ pc[r] = "copy"
    /\ \/ /\ staged[StagedPath[r]] # None
          /\ Proceed(r, "artifact")
          /\ held' = [held EXCEPT ![r] = staged[StagedPath[r]]]
       \/ Answer(r, 400) /\ UNCHANGED held
    /\ UNCHANGED <<dir, diskVars, services, events, timer, todo, loaded, disturbed, behind,
                   missed, troubles>>

(* The three writes, each of which replaces its file or fails.             *)
WriteArtifact(r) ==
    /\ pc[r] = "artifact"
    /\ \/ /\ Proceed(r, "meta")
          /\ artifact' = [artifact EXCEPT ![Target[r]] = held[r]]
          /\ Disturb(r, Target[r])
       \/ Answer(r, 400) /\ UNCHANGED <<artifact, disturbed>>
    /\ held' = [held EXCEPT ![r] = None]
    /\ UNCHANGED <<dir, staged, meta, services, events, timer, todo, loaded, behind, missed,
                   troubles>>

(* A provision that leaves a failing write of the metadata unnoticed.      *)
MutantWriteMetaIgnoresError(r) ==
    /\ pc[r] = "meta"
    /\ Proceed(r, "write")
    /\ \/ /\ meta' = [meta EXCEPT ![Target[r]] = Hash[r]]
          /\ Disturb(r, Target[r])
       \/ UNCHANGED <<meta, disturbed>>
    /\ UNCHANGED <<dir, staged, artifact, services, events, timer, todo, loaded, held,
                   behind, missed, troubles>>

WriteMeta(r) ==
    /\ pc[r] = "meta"
    /\ \/ /\ Proceed(r, "write")
          /\ meta' = [meta EXCEPT ![Target[r]] = Hash[r]]
          /\ Disturb(r, Target[r])
       \/ Answer(r, 400) /\ UNCHANGED <<meta, disturbed>>
    /\ UNCHANGED <<dir, staged, artifact, services, events, timer, todo, loaded, held,
                   behind, missed, troubles>>

(* pushService answers a failing encoding or directory with 500 and a      *)
(* failing write with 409; of a provision all are a 400.                   *)
WriteFailure(r) == IF r \in Pushes THEN {409, 500} ELSE {400}

(* The service file, of a push and of a provision, under the name asked for. *)
WriteService(r) ==
    /\ pc[r] = "write"
    /\ \/ /\ Proceed(r, "list")
          /\ FileBecomes(Target[r], [name |-> Target[r], config |-> r])
          /\ Disturb(r, Target[r])
          /\ LeaveBehind(r)
       \/ /\ \E code \in WriteFailure(r) : Answer(r, code)
          /\ UNCHANGED <<dir, events, disturbed, behind>>
    /\ UNCHANGED <<diskVars, services, timer, todo, loaded, held, missed, troubles>>

(* Reload has returned, and the lock is free again.                        *)
AnswerSuccess(r) ==
    /\ pc[r] = "answer"
    /\ Answer(r, IF r \in Deletes THEN 204 ELSE 200)
    /\ behind' = [behind EXCEPT ![r] = {}]
    /\ UNCHANGED <<dir, diskVars, services, events, timer, todo, loaded, held, disturbed,
                   missed, troubles>>

Provision(r) ==
    \/ VerifyArtifact(r)
    \/ ReadStaged(r)
    \/ WriteArtifact(r)
    \/ WriteMeta(r)

Handler(r) ==
    \/ Begin(r)
    \/ r \in Provisions /\ Provision(r)
    \/ r \in Pushes \cup Provisions /\ WriteService(r)
    \/ r \in Deletes /\ RemoveFile(r)
    \/ Reload(r)
    \/ AnswerSuccess(r)

-----------------------------------------------------------------------------
(* The daemon dies and starts again: what was under way is lost.           *)
Restart ==
    /\ Trouble
    /\ services' = LoadDir(dir)
    /\ events' = 0
    /\ timer' = "off"
    /\ pc' = [l \in Loaders |->
                IF l = watcher THEN "select"
                ELSE IF pc[l] \in Running THEN "lost" ELSE pc[l]]
    /\ todo' = [l \in Loaders |-> {}]
    /\ loaded' = [l \in Loaders |-> Empty]
    /\ behind' = [r \in Requests |-> {}]
    /\ missed' = FALSE
    /\ UNCHANGED <<dir, diskVars, held, status, disturbed>>

(* The daemon serves, and nothing is to be done.                           *)
Idle ==
    /\ events = 0 /\ timer = "off" /\ pc[watcher] = "select"
    /\ \A r \in Requests : pc[r] \notin Running
    /\ UNCHANGED vars

Watcher == TakeEvent \/ TakeTimer \/ Reload(watcher)

Next ==
    \/ \E n \in Names, c \in {None, Broken} \cup {v \in Valid : v.config \in HandMade} : Edit(n, c)
    \/ \E p \in Paths, a \in Artifacts \cup {None} : Stage(p, a)
    \/ Watcher
    \/ Fire
    \/ \E r \in Requests : Handler(r)
    \/ Restart
    \/ Idle

Spec == Init /\ [][Next]_vars

(* The runtime runs the watcher goroutine and its timer.                   *)
FairSpec == Spec /\ WF_vars(Watcher) /\ WF_vars(Fire)

-----------------------------------------------------------------------------
(***************************************************************************)
(* A provisioned service is defined and listed only when its artifact and  *)
(* its metadata are on disk, wherever the daemon died or a write failed    *)
(* before: the service file is written last, and nobody takes them away.   *)
(***************************************************************************)
Backed(n) == artifact[n] # None /\ meta[n] # None

ProvisionedBacked ==
    \A n \in Names :
        /\ dir[n] \in Valid /\ dir[n].config \in Provisions => Backed(n)
        /\ services[n] \in Provisions => Backed(n)

(***************************************************************************)
(* A change of the directory is not forgotten, although reloads read it    *)
(* file by file while it changes: if the map differs from what LoadDir     *)
(* would make of the directory, an event, the timer or the watcher's       *)
(* reload is on its way.  Except when the directory could not be read, or  *)
(* a request assigned what had changed since it read it, until the next    *)
(* reload.                                                                 *)
(***************************************************************************)
OnItsWay ==
    \/ events > 0
    \/ timer # "off"
    \/ pc[watcher] \in {"list", "files"}

ChangesOnTheirWay == ~missed => services = LoadDir(dir) \/ OnItsWay

(***************************************************************************)
(* When all changes are over the map is that of the directory for good,    *)
(* under the same two exceptions.                                          *)
(***************************************************************************)
DirectoryArrives == <>[](~missed => services = LoadDir(dir))

(***************************************************************************)
(* A success means what it says: when a request that nobody disturbed is   *)
(* answered 2xx, the map has the service as pushed or provisioned, or has  *)
(* it no more, unless another file defines it too; and a provisioned       *)
(* artifact and its metadata are the ones whose hash the request declared. *)
(* Nobody disturbed it if nobody else changed what it works on, and if no  *)
(* reload that had begun before it changed its file was assigned between   *)
(* its own reload and its answer.  Reloads that began later, and however   *)
(* many of them, do no harm.                                               *)
(***************************************************************************)
Meant(r) == IF r \in Deletes THEN None ELSE r

Succeeds(r) == status[r] = 0 /\ status'[r] \in {200, 204}

SuccessIsServed ==
    [][\A r \in Requests :
        Succeeds(r) /\ ~disturbed[r] =>
            /\ Definers(dir, Target[r]) \subseteq {Target[r]} =>
                   services[Target[r]] = Meant(r)
            /\ r \in Provisions =>
                   artifact[Target[r]] = Hash[r] /\ meta[Target[r]] = Hash[r]]_vars

-----------------------------------------------------------------------------
(***************************************************************************)
(* The inductive invariant behind ProvisionedBacked: also what a request   *)
(* is about to write, and what a reload holds, is backed, and a provision  *)
(* defines its service in the file of its name only.                       *)
(***************************************************************************)
WritesInOrder ==
    \A r \in Provisions :
        /\ pc[r] = "artifact" => held[r] # None
        /\ pc[r] = "meta" => artifact[Target[r]] # None
        /\ pc[r] = "write" => Backed(Target[r])

FilesBacked ==
    \A f \in Names :
        dir[f] \in Valid /\ dir[f].config \in Provisions => dir[f].name = f /\ Backed(f)

LoadedBacked ==
    \A n \in Names :
        /\ services[n] \in Provisions => Backed(n)
        /\ \A l \in Loaders : loaded[l][n] \in Provisions => Backed(n)

BackedInv == TypeOK /\ WritesInOrder /\ FilesBacked /\ LoadedBacked

(***************************************************************************)
(* And behind ChangesOnTheirWay: a reload of the watcher that has not seen *)
(* the last change of the directory will be followed by another.           *)
(***************************************************************************)
StaleReadFollowed ==
    /\ pc[watcher] # "files" => loaded[watcher] = Empty
    /\ pc[watcher] = "files" /\ events = 0 /\ timer = "off" =>
           Finish(loaded[watcher], todo[watcher], dir) = LoadDir(dir)

FreshInv == TypeOK /\ ChangesOnTheirWay /\ StaleReadFollowed

(***************************************************************************)
(* And behind SuccessIsServed: what a request has made so far stays as it  *)
(* made it while nobody disturbs it, and every reload that it did not      *)
(* leave behind, which sees every other file at some moment only, finds    *)
(* its service in its own file.                                            *)
(***************************************************************************)
MadeOf(r) == IF r \in Deletes THEN None ELSE [name |-> Target[r], config |-> r]

WorkKept(r) ==
    /\ pc[r] \in Written => dir[Target[r]] = MadeOf(r)
    /\ r \in Provisions =>
           /\ pc[r] = "copy" => staged[StagedPath[r]] = Hash[r]
           /\ pc[r] = "artifact" => held[r] = Hash[r]
           /\ pc[r] \in {"meta", "write"} \cup Written => artifact[Target[r]] = Hash[r]
           /\ pc[r] \in {"write"} \cup Written => meta[Target[r]] = Hash[r]

FindsIt(l, r) == pc[l] = "files" => Finish(loaded[l], todo[l], dir)[Target[r]] = Meant(r)

WillBeServed(r) ==
    pc[r] \in Written /\ Definers(dir, Target[r]) \subseteq {Target[r]} =>
        /\ \A l \in Loaders \ behind[r] : FindsIt(l, r)
        /\ r \notin behind[r]
        /\ pc[r] = "answer" => services[Target[r]] = Meant(r)

Undisturbed(r) == ~disturbed[r] => WorkKept(r) /\ WillBeServed(r)

EmptyBetween == \A l \in Loaders : pc[l] # "files" => loaded[l] = Empty

ServedInv == TypeOK /\ EmptyBetween /\ \A r \in Requests : Undisturbed(r)
=============================================================================
