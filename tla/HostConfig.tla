----------------------------- MODULE HostConfig -----------------------------
(***************************************************************************)
(* hosts.toml, the copy of it that the daemon serves from memory           *)
(* (internal/config/host.go), and the two that bring the copy up to date:  *)
(* the watcher goroutine, which reloads after a quiet period, and POST     *)
(* /admin/hosts/{host}/config (pushHostConfig of internal/api/admin.go),   *)
(* which rewrites the file from the copy and reloads.                      *)
(*                                                                         *)
(* Reload reads the file without the manager's lock and takes the lock for *)
(* the assignment only, so that a reload is two steps and two reloads may  *)
(* overlap.  A start reads the file first and begins to watch it then.     *)
(* The operator edits the file by hand at any time.                        *)
(***************************************************************************)
EXTENDS Naturals

CONSTANTS
    Pushes,      \* the requests to /admin/hosts/{host}/config
    Names,       \* peer names
    Self,        \* the local peer's name
    Configs,     \* what an entry may say
    Default,     \* the entry that SetDefaults makes
    Missing,     \* no entry of that name
    Broken,      \* a file that LoadHostFile rejects
    Absent,      \* no file
    MaxEdits,    \* bound on edits by hand
    MaxRestarts  \* bound on restarts of the daemon

ASSUME HostAssumption ==
    /\ Self \in Names
    /\ Default \in Configs
    /\ Missing \notin Configs
    /\ {Broken, Absent} \cap [Names -> Configs \cup {Missing}] = {}
    /\ MaxEdits \in Nat
    /\ MaxRestarts \in Nat

Files == [Names -> Configs \cup {Missing}] \cup {Broken, Absent}

(* LoadHostFile and resolveSelfHost both succeed.                          *)
Loadable(f) == f \notin {Broken, Absent} /\ f[Self] # Missing

Good == {f \in [Names -> Configs \cup {Missing}] : f[Self] # Missing}

VARIABLES
    file,      \* the content of hosts.toml
    hosts,     \* HostManager.hosts (self is its entry of that name)
    events,    \* file events the watcher goroutine has not taken yet
    timer,     \* its timer: off, armed, or fired and not yet taken
    watch,     \* where NewHostManager is, and then the watcher goroutine
    read,      \* what its reload read
    pc,        \* pc[p]: where the goroutine of push p is
    config,    \* config[p]: the entry p carries
    local,     \* local[p]: the list p holds: to write, and later to assign
    status,    \* status[p]: what p was answered, 0 before that
    past,      \* history: every content the file has had
    overtaken, \* history: the copy was taken, by a push's reload or at the start,
               \* of a file replaced before the copy was in place
    edits, restarts

watchVars == <<timer, watch, read>>
pushVars == <<pc, config, local, status>>
boundVars == <<edits, restarts>>
vars == <<file, hosts, events, timer, watch, read, pc, config, local, status,
          past, overtaken, edits, restarts>>

Running == {"all", "write", "load", "assign"}

TypeOK ==
    /\ file \in Files
    /\ hosts \in Good
    /\ events \in Nat
    /\ timer \in {"off", "armed", "fired"}
    /\ watch \in {"down", "start", "select", "load", "assign"}
    /\ read \in Good
    /\ pc \in [Pushes -> {"idle", "done", "lost"} \cup Running]
    /\ config \in [Pushes -> Configs]
    /\ local \in [Pushes -> Good]
    /\ status \in [Pushes -> {0, 200, 400, 409, 500}]
    /\ past \subseteq Files
    /\ overtaken \in BOOLEAN
    /\ edits \in 0..MaxEdits
    /\ restarts \in 0..MaxRestarts

(* The file that will be served first, and no daemon yet: its copy and     *)
(* what the goroutines hold have no meaning.                               *)
Init ==
    /\ file \in Good
    /\ hosts = file
    /\ events = 0
    /\ timer = "off"
    /\ watch = "down"
    /\ read = hosts
    /\ pc = [p \in Pushes |-> "idle"]
    /\ config \in [Pushes -> Configs]
    /\ local = [p \in Pushes |-> hosts]
    /\ status = [p \in Pushes |-> 0]
    /\ past = {file}
    /\ overtaken = FALSE
    /\ edits = 0
    /\ restarts = 0

-----------------------------------------------------------------------------
(* The daemon watches the file, and serves requests.                       *)
Serving == watch \notin {"down", "start"}

(* The file gets a new content, and the kernel reports it to who watches.  *)
FileBecomes(f) ==
    /\ file' = f
    /\ past' = past \cup {f}
    /\ events' = IF Serving THEN events + 1 ELSE events

(***************************************************************************)
(* The operator saves the file, in one step or truncated first and written *)
(* then, removes it, or replaces it as a whole by POST /admin/files/write, *)
(* which does not reload.                                                  *)
(***************************************************************************)
Edit(f) ==
    /\ edits < MaxEdits
    /\ edits' = edits + 1
    /\ FileBecomes(f)
    /\ UNCHANGED <<hosts, watchVars, pushVars, overtaken, restarts>>

-----------------------------------------------------------------------------
(* watchLoop.                                                              *)
(* A watcher that drops the events of an armed timer.                      *)
MutantTakeEventStops ==
    /\ watch = "select"
    /\ events > 0
    /\ events' = events - 1
    /\ timer' = IF timer = "off" THEN "armed" ELSE "off"
    /\ UNCHANGED <<file, hosts, watch, read, pushVars, past, overtaken, boundVars>>

(* An event of hosts.toml: resetTimer stops, drains and arms the timer.    *)
TakeEvent ==
    /\ watch = "select"
    /\ events > 0
    /\ events' = events - 1
    /\ timer' = "armed"
    /\ UNCHANGED <<file, hosts, watch, read, pushVars, past, overtaken, boundVars>>

(* hostReloadDebounce has passed.                                          *)
Fire ==
    /\ timer = "armed"
    /\ timer' = "fired"
    /\ UNCHANGED <<file, hosts, events, watch, read, pushVars, past, overtaken, boundVars>>

TakeTimer ==
    /\ watch = "select"
    /\ timer = "fired"
    /\ timer' = "off"
    /\ watch' = "load"
    /\ UNCHANGED <<file, hosts, events, read, pushVars, past, overtaken, boundVars>>

(* A reload that assigns what it could read of a file without the local peer. *)
MutantWatchLoadNoSelf ==
    /\ watch = "load"
    /\ \/ file # Broken /\ watch' = "assign" /\ read' = file
       \/ file = Broken /\ watch' = "select" /\ UNCHANGED read
    /\ UNCHANGED <<file, hosts, events, timer, pushVars, past, overtaken, boundVars>>

(* The first half of Reload; an error is logged and the copy stays.        *)
WatchLoad ==
    /\ watch = "load"
    /\ \/ Loadable(file) /\ watch' = "assign" /\ read' = file
       \/ ~Loadable(file) /\ watch' = "select" /\ UNCHANGED read
    /\ UNCHANGED <<file, hosts, events, timer, pushVars, past, overtaken, boundVars>>

(* The second half, under the lock.                                        *)
WatchAssign ==
    /\ watch = "assign"
    /\ watch' = "select"
    /\ hosts' = read
    /\ overtaken' = FALSE
    /\ UNCHANGED <<file, events, timer, read, pushVars, past, boundVars>>

-----------------------------------------------------------------------------
(* pushHostConfig.                                                         *)
Goto(p, l) ==
    /\ pc' = [pc EXCEPT ![p] = l]
    /\ UNCHANGED status

Answer(p, code) ==
    /\ pc' = [pc EXCEPT ![p] = "done"]
    /\ status' = [status EXCEPT ![p] = code]

(* The body is no JSON or names another host, or on.                       *)
Decode(p) ==
    /\ pc[p] = "idle"
    /\ Serving
    /\ Answer(p, 400) \/ Goto(p, "all")
    /\ UNCHANGED <<file, hosts, events, watchVars, config, local, past, overtaken, boundVars>>

(* All, under the read lock, and the local entry replaced in the copy.     *)
All(p) ==
    /\ pc[p] = "all"
    /\ Goto(p, "write")
    /\ local' = [local EXCEPT ![p] = [hosts EXCEPT ![Self] = config[p]]]
    /\ UNCHANGED <<file, hosts, events, watchVars, config, past, overtaken, boundVars>>

(* WriteHostFile replaces the file as a whole or fails and leaves it.      *)
WriteHostFile(p) ==
    /\ pc[p] = "write"
    /\ \/ Goto(p, "load") /\ FileBecomes(local[p])
       \/ Answer(p, 409) /\ UNCHANGED <<file, past, events>>
    /\ UNCHANGED <<hosts, watchVars, config, local, overtaken, boundVars>>

(* The handler's own Reload.                                               *)
ReloadLoad(p) ==
    /\ pc[p] = "load"
    /\ \/ Loadable(file) /\ Goto(p, "assign") /\ local' = [local EXCEPT ![p] = file]
       \/ ~Loadable(file) /\ Answer(p, 500) /\ UNCHANGED local
    /\ UNCHANGED <<file, hosts, events, watchVars, config, past, overtaken, boundVars>>

(* A handler that replaces its entry in memory instead of reloading.       *)
MutantAssignSelf(p) ==
    /\ pc[p] = "assign"
    /\ Answer(p, 200)
    /\ hosts' = [hosts EXCEPT ![Self] = config[p]]
    /\ overtaken' = (local[p] # file)
    /\ UNCHANGED <<file, events, watchVars, config, local, past, boundVars>>

ReloadAssign(p) ==
    /\ pc[p] = "assign"
    /\ Answer(p, 200)
    /\ hosts' = local[p]
    /\ overtaken' = (local[p] # file)
    /\ UNCHANGED <<file, events, watchVars, config, local, past, boundVars>>

-----------------------------------------------------------------------------
(* The daemon dies.                                                        *)
Die ==
    /\ watch # "down"
    /\ restarts < MaxRestarts
    /\ restarts' = restarts + 1
    /\ watch' = "down"
    /\ events' = 0
    /\ timer' = "off"
    /\ pc' = [p \in Pushes |-> IF pc[p] \in Running THEN "lost" ELSE pc[p]]
    /\ overtaken' = FALSE
    /\ UNCHANGED <<file, hosts, read, config, local, status, past, edits>>

(* What EnsureHostConfig writes where no file is.                          *)
Generated == [n \in Names |-> IF n = Self THEN Default ELSE Missing]

(* NewHostManager, up to resolveSelfHost: an error ends the start.         *)
EnsureHostConfig ==
    /\ watch = "down"
    /\ \/ /\ file = Absent
          /\ FileBecomes(Generated)
          /\ hosts' = Generated
       \/ /\ Loadable(file)
          /\ hosts' = file
          /\ UNCHANGED <<file, past, events>>
    /\ watch' = "start"
    /\ UNCHANGED <<timer, read, pushVars, overtaken, boundVars>>

(* The rest of it: from here on the kernel reports changes, and the        *)
(* watcher goroutine runs.                                                 *)
AddWatch ==
    /\ watch = "start"
    /\ watch' = "select"
    /\ overtaken' = (hosts # file)
    /\ UNCHANGED <<file, hosts, events, timer, read, pushVars, past, boundVars>>

NewHostManager == EnsureHostConfig \/ AddWatch

(* The daemon serves and has nothing to do, or cannot start.               *)
Idle ==
    /\ events = 0 /\ timer = "off"
    /\ watch = "select" \/ (watch = "down" /\ file # Absent /\ ~Loadable(file))
    /\ \A p \in Pushes : pc[p] \notin Running
    /\ UNCHANGED vars

Watcher == TakeEvent \/ TakeTimer \/ WatchLoad \/ WatchAssign

Push(p) == Decode(p) \/ All(p) \/ WriteHostFile(p) \/ ReloadLoad(p) \/ ReloadAssign(p)

Next ==
    \/ \E f \in Files : Edit(f)
    \/ Watcher
    \/ Fire
    \/ \E p \in Pushes : Push(p)
    \/ Die
    \/ NewHostManager
    \/ Idle

Spec == Init /\ [][Next]_vars

(* The runtime runs the watcher goroutine and its timer, and the service   *)
(* manager starts the daemon (Restart=on-failure).                         *)
FairSpec == Spec /\ WF_vars(Watcher) /\ WF_vars(Fire) /\ WF_vars(NewHostManager)

-----------------------------------------------------------------------------
(***************************************************************************)
(* What the daemon serves is a content that the file had at one time, and  *)
(* that loads and has an entry of the local peer: no interleaving of       *)
(* reloads, pushes and starts mixes two contents.  A half-written file     *)
(* that happens to parse is such a content.                                *)
(***************************************************************************)
ServesWholeFile == Loadable(hosts) /\ hosts \in past

(***************************************************************************)
(* No change of the file is forgotten: if the copy differs from a loadable *)
(* file, an event, the timer or a reload is on its way that will bring the *)
(* change in.  There are two exceptions, which last until the next reload: *)
(* a push assigned a file that had been replaced since it read it, and the *)
(* file was replaced between the load and the watch of a start.            *)
(***************************************************************************)
OnItsWay ==
    \/ events > 0
    \/ timer # "off"
    \/ watch = "load"
    \/ watch = "assign" /\ read = file

NothingForgotten ==
    Serving /\ Loadable(file) /\ ~overtaken => hosts = file \/ OnItsWay

(***************************************************************************)
(* When the changes are over and the file loads, a daemon that runs serves *)
(* it for good, unless a push or a start was overtaken last: every save    *)
(* rearms the timer, and the timer fires at last.                          *)
(***************************************************************************)
EditsArrive == <>[](Serving /\ Loadable(file) /\ ~overtaken => hosts = file)

(***************************************************************************)
(* "HostManager watches and hot-reloads hosts.toml": when the changes are  *)
(* over and the file loads, a daemon that runs serves it for good.         *)
(***************************************************************************)
HotReloaded == <>[](Serving /\ Loadable(file) => hosts = file)

-----------------------------------------------------------------------------
(***************************************************************************)
(* The inductive invariant behind ServesWholeFile and NothingForgotten.  A *)
(* goroutine between the halves of a reload holds a content the file has   *)
(* had; if it is not the file's any more, the watcher will hear of it.     *)
(***************************************************************************)
HeldWasFile ==
    /\ file \in past
    /\ read \in past
    /\ \A p \in Pushes : pc[p] = "assign" => local[p] \in past

StaleReadFollowed ==
    watch = "assign" /\ read # file => events > 0 \/ timer # "off"

HostInv ==
    /\ TypeOK
    /\ ServesWholeFile
    /\ NothingForgotten
    /\ HeldWasFile
    /\ StaleReadFollowed
=============================================================================
