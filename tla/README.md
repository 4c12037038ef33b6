# tailkitd: TLA+ models, model checks and proofs

tailkitd is a daemon that runs on every node of a Tailscale network and exposes
the node over HTTP: host configuration, services, Docker and systemd control,
files, variables and metrics. This directory holds TLA+ models of the parts of
it that keep state and are used concurrently, TLC configurations that check
them on small instances, and TLAPS proofs of the properties that matter most.

`PROJECT.json` maps every definition to the source lines it models and lists
the runs, the mutated definitions that show what each property notices, the
hazards of the code and the theorems.

## 1. Inventory

| Part | State | Operations | Hard behaviour | What makes it correct |
|---|---|---|---|---|
| Invite claims (`internal/invite`, `internal/api/invites.go`) | map of claims, claims file | claim, load, persist | test and mark are two critical sections; failing write; crash before the answer | a token is granted once; a granted claim is in the file for good |
| Mutation epoch (`internal/state`, `internal/api/admin.go`, `provision.go`) | counter, epoch file | validate, increment | validate, handler and increment are separate; answer before increment | a client that is behind is refused |
| Admin role (`internal/admin`, `internal/api/admin.go`) | flag in memory, fence file, per node | bootstrap election, transfer, accept promotion | probes of starting peers; lost answers; the role dies with the process | one admin; no gap; fences grow |
| Jobs and streams (`internal/exec`, `internal/sse`) | map of job records with a TTL; per stream: last id | accept, store, poll, stream, evict | reconnects; eviction of running jobs; error events in the id sequence | an id names an event; replay is exact |
| Host configuration (`internal/config/host.go`) | hosts.toml, copy in memory, debounce timer | load, reload, push, watch | a start loads before it watches; reload reads outside the lock; edits by hand; half-written files | a whole file is served; no change is forgotten |
| Service registry (`internal/services`) | directory of TOML files, map in memory, debounce timer | load, push, delete, watch | a directory is read file by file; reloads overlap | no change is forgotten; a success is served |
| Provisioning (`internal/provision`) | staged file, artifact, metadata, service file | verify, provision | second read after verification; three writes, and a crash between them | a listed service has its artifact; an installed artifact is a verified one |
| Artifact keys (`internal/identity`) | two key files | ensure, load | crash between two writes | both keys or none |
| Job producers (`internal/docker`, `internal/systemd`) | a goroutine per job; systemd's unit jobs and the channels registered for them | unit control, enable, container calls, docker commands | result against timeout; two operations on one unit; killed commands that go on | completed means done; every accepted job gets one verdict |
| Vars store (`internal/vars`) | one JSON file and one reader-writer lock per scope | list, get, set, delete, delete scope | read-modify-write of whole files; failing writes, damaged files, crashes | each scope is an atomic map; no path keeps the lock |
| Files endpoints (`internal/files`) | inboxes, files under rules, temporary files, the identity of threads | upload, read, stat, list, delete | concurrent uploads; temporary files that can be read and deleted; identities per thread | uploads are whole at their destination; the answer is true; each call has its identity |
| Metrics (`internal/metrics`) | the shared port snapshotter; per stream: the last sample | sample, stream | a shared poller and a list rewritten in place without a lock | events add up; the truth arrives |
| Access registry (`internal/access`) | grants file, copy in memory | reload, allow, write | reload against write | decisions agree with the grants |
| Tool registry (`internal/exec`) | directory of tools, map in memory | reload | as the service registry | |
| Startup, setup, configuration loaders, logging | none after start | | | |

How they interact: the HTTP mux runs every request in a goroutine of its own.
`requireAdminKey` wraps every `/admin` route except accept-promotion: it reads
the epoch, lets the handler run, and increments the epoch after a 2xx.
Handlers write files (`utils.AtomicWrite` replaces a file by rename) and call
`Reload` of a registry, while the registry's watcher goroutine reloads on file
events 300 ms after the last one. A starting daemon probes its peers' `/host`
before it listens. Docker and systemd handlers accept a job in the job store,
answer, and store the result from a goroutine; `GET /exec/jobs/{id}` polls or
streams it.

## 2. Modules

| Module | Models | Composes |
|---|---|---|
| `SingleUseLedger` | what the invite endpoint promises | |
| `InviteClaims` | the claim handler, the store and its file | implements `SingleUseLedger` |
| `InviteClaimsProofs` | theorems | extends `InviteClaims` |
| `StateEpoch` | the epoch and the two request paths through it | `Epoch`, `requireAdminKey`, `ProvisionHandler` |
| `StateEpochProofs` | theorems | extends `StateEpoch` |
| `AdminRole` | election and hand-over on all nodes | `BootstrapState`, `transferAdmin`, `acceptPromotion` |
| `AdminRoleProofs` | theorems | extends `AdminRole` |
| `JobStream` | a job, its record and its streaming clients | `JobStore`, `streamJob`, the SSE writer |
| `HostConfig` | hosts.toml and its copy | `HostManager`, `pushHostConfig`, `atomicWriteFile` |
| `ServiceRegistry` | services.d, the map of services, and what changes them | `services.Registry`, `pushService`, `deleteService`, `provision.Provision` |
| `ServiceRegistryProofs` | theorems | extends `ServiceRegistry` |
| `JobLifecycle` | the life of a job's record that `JobStream` assumes | |
| `JobProducers` | the endpoints of Docker and systemd and their goroutines | implements `JobLifecycle`; systemd's job queue, go-systemd's dispatcher, `JobStore` |
| `JobsProofs` | theorems | extends `JobStream` and `JobProducers` |
| `VarsMap` | what the vars store promises: an atomic map per scope | |
| `VarsStore` | the store, its files and its locks | implements `VarsMap` |
| `VarsStoreProofs` | theorems | extends `VarsStore` |
| `FilesInbox` | uploads, reads and deletions, and the threads that do them | `files.Handler`, the kernel's credentials per thread |
| `FilesInboxProofs` | theorems | extends `FilesInbox` |
| `PortStream` | the port snapshotter and its streams | `procPortSnapshotter`, `portlist.Poller`, `handlePortsStream` |
| `HostProofs` | theorems | extends `HostConfig` and `PortStream` |
| `MC...` | constants of the TLC runs | |

`JobsProofs` and `HostProofs` extend two components each, which therefore have no
name in common: `JobProducers` and `PortStream` have `ProducersSpec`,
`PortsSpec`, `ProducersTypeOK` and so on where the other modules have `Spec` and
`TypeOK`.

### InviteClaims

`claims` is `Store.claims`, `disk` the claims file, and each request has a
program counter. `Receive`, `Verify`, `IsClaimed`, `MarkClaimed` and `Reply`
are the stretches of `ServeHTTP` between two accesses to shared state.
`MarkClaimed` has the three ways out of the code: taken, saved, and not saved
(`persistLocked` fails, the entry stays in the map, the caller gets 409). A
crash loses the map and the running requests; a restart loads the file.
Signatures are the set `Genuine`; a record is the claimant's login.

### StateEpoch

`value` and `file` are the epoch in memory and in its file. A request is an
`/admin` mutation, an `/admin` query or a provision request. `Apply` is the
handler behind the middleware, reduced to whether it changed the node's state
and what it answered: 400 stands for all refusals without a change, 500 for a
failure after one, 200 for every 2xx (deleting a service answers 204). The
answer of an `/admin` route is sent in `Apply`, before `Increment`; the answer
of provision after it. `finished` and `prior` are history: which mutations had
ended when a request was validated.

### AdminRole

Each node is down, probing or up. `Probe` takes one peer per step, in the
order of the names, and may miss a peer's answer. A transfer is a program
counter at its source and a promotion request (`promo`) that the target
handles in two steps. A promotion request can get lost, the target can refuse,
its answer can get lost (`ReplyLost`), and either node can crash. Environment
assumptions, as constants: one transfer is under way at a time (`MaxActive`),
and a transfer names another node (`SelfTransfer = FALSE`). Both are needed,
and the code enforces neither: two overlapping transfers can end with two
admins or none, and a transfer to the node itself leaves none.

### JobStream

`entry` is the job's record, `old` whether it is past its TTL. `BuildJobEvents`
is the source's list; lines are their numbers. Per client there is the server's
goroutine (`thread`, `snap`, `lastSent`, `seq`), the frames in flight, and what
the client received over all its connections. A client reconnects with the id
of the last frame it received. A job that was evicted while it ran stores its
result later, as the comment on `StoreResult` says. "cancelled" is terminal in
the code, but no producer stores it.

### HostConfig

`file` is hosts.toml as a function from names to entries, or `Broken`, or
`Absent`; `hosts` is the copy in memory. A start has two steps, as
`NewHostManager` has: `EnsureHostConfig` loads the file, or generates it where
there is none, and `AddWatch` adds the watch. Before the second step a change
of the file raises no event. A start that finds a file that does not load fails
and leaves the daemon down. The watcher takes events, arms its timer, and
reloads in two steps, because `Reload` reads before it locks. `Edit` is a save
by hand, a removal, or `POST /admin/files/write` on hosts.toml. A push takes its
list from `All`, writes, and reloads in two steps. The daemon can die at any
moment (`Die`). `overtaken` is history: the copy came from a push whose file was
replaced before it assigned, or from a start whose file was replaced before it
watched.

### ServiceRegistry

`dir` is services.d: per file its content, which names a service and carries a
config, or `Broken`, or `None`. `staged`, `artifact` and `meta` are the files of
a provision, and `services` is the map that is listed. The watcher (`events`,
`timer`) and each request have a program counter. A reload lists the directory
(`ListFiles`, or `ListFails`), opens the listed files one per step in the order
of `os.ReadDir` (`LoadOne`; a file that is gone or broken is skipped), and
assigns under the lock (`Assign`); `todo` and `loaded` are its progress. The
answer of a request is a step of its own after that (`AnswerSuccess`), so that
other reloads may assign in between. A push and a deletion change their file and
reload. A provision verifies the staged
file, reads it again, writes artifact, metadata and service file, each of which
may fail, and reloads. `Edit`, `Stage` and `Restart` come at any moment: saves
by hand, broken ones too and of any service name, a staged file that is
replaced, and a daemon that dies and starts again. `behind`, `disturbed` and
`missed` are history: the reloads that were reading when a request changed its
file; that another actor changed what a request works on, or one of the reloads
it left behind assigned between its own assignment and its answer; and that the
last reload failed or was a request's with an outdated read. Watch events of files that are
not `.toml` and directories have no effect in the code and are left out;
permissions and the epoch are in `StateEpoch`.

### JobProducers and JobLifecycle

A request is one of the endpoints of units, containers, images and compose
projects. `Route` lists the checks of its handler in their order, and the first
that fails gives the answer. An accepted request has a record (`record`) and a
goroutine (`pc`) that ends in one `StoreVerdict` (`JobStore.StoreResult`). `work` and `outcome` are what
really happened: which piece of work serves a request and how it ended.

systemd keeps one job per unit (`installed`). A second operation cancels it or
joins it, and go-systemd keeps one channel per job (`listener`), so that a join
takes the channel of the first over and the first can only time out. `Dispatch`
writes the result to the channel while it holds the lock that `StartUnit`
needs. A start whose answer comes too late leaves a job without a channel. All
unit operations are on one unit, the case in which they meet. A docker command
is killed when its context ends, but a plugin that it started may go on and
keep its output open (`KillCommand`, `CommandEnds`). Calls of the Docker API
may succeed with the answer lost.

`JobLifecycle` is the view from the job store: accepted, evicted or not, one
verdict, and in the end one. `JobStream` takes its producer to be that, and
`ImplementsLifecycle` shows it of all producers. Systemd's queue and go-systemd
are external: they are modelled from the calls and from the comments in
`systemd.go` on what arrives on the channel.

### VarsStore and VarsMap

`file` is the scope's file, `writer` and `readers` the scope's lock, and each
request has a program counter: it takes the lock, reads, prepares its data,
renames, and unlocks. A value is the number of the request that wrote it. A
file can be missing, damaged so that it does not parse, or hold `null`, which
parses to a nil map and makes a change panic: the deferred unlock runs, and
net/http ends the request. `VarsMap` does every operation in one step between
arrival and answer. Temporary files are seen by nobody, since only configured
scopes can be named. The lock's preference for writers is left out; it only
delays readers.

### FilesInbox

One file of an inbox and one under a rule, the uploads to them with their
temporary files, and the threads. `Call` picks the thread on which a system call
is made: the pinned one, or any that nobody is pinned to, and records its
identity. A goroutine that changed its thread's identity ends without
unlocking, and Go ends the thread with it (`GoroutineEnds`). Its handler goes on
then; in the code it may do so as soon as the result is in the channel, but as
the handler runs on another thread, and a pinned thread is nobody else's until
it ends, no call can tell the difference. Temporary files lie beside their
destinations. A read can name one and is given what has been written so far
(`Readable`), and a deletion in an inbox can remove one (`DeleteTemp`); the
upload goes on and its rename fails. A listing reads the directory in one step
(`ListDir`, under the rule's identity if there is one, and `InboxList`) and has
the handler look at the entries in the next (`EntryInfo`, the lstat calls of
`e.Info()`), always as the daemon. Uploads to a path read the body first
(`ReadBody`); those to an inbox copy it from the connection.

### PortStream

`bound` is what processes listen on; the poller (`prev`) hands a list out only
when it changed since the last call, whoever made that one. A sample reads the
sockets, polls, and either writes the list to `cached` or takes it from there.
`cached` is rewritten in place and without a lock: a sample that writes or
reads while another writes may get any mixture of the lists involved
(`mixed`, `Contents`), which is what the race can give. The poller's own
`Poll` is taken to be one step. `view` is what a client that applies the events
believes; ports are told apart by address and number, as `portIdentity` does,
not by process.

## 3. Runs

| Run | Shows |
|---|---|
| `claims` | `SingleUse`, `GrantDurable`, `ClaimAccounted`, and the refinement `ImplementsLedger`, for three requests, two tokens, two users and callers without identity, one crash and one failing write |
| `epoch` | `RealTimeOrder`, `StaleStaysStale` for three requests on any of the three routes, one crash and one failing write |
| `job_stream` | `ReplayExact`, `IdNamesEvent`, `EndArrives` for a client with three connections, two broken ones, a restart and evictions |
| `transfer` | `OneAdminAtRest` (with the highest fence), `NoGap` for three nodes and two transfers, with refusals and losses |
| `election` | `AtMostOneAdmin`, `AdminEmerges` for three nodes and two crashes |
| `host_config` | `ServesWholeFile`, `NothingForgotten`, `EditsArrive` for a push, two edits or removals and a restart |
| `host_start_edit` | violation of `HotReloaded`: an edit between the load and the watch of a start is not served |
| `services` | `ProvisionedBacked`, `ChangesOnTheirWay`, `SuccessIsServed`, `DirectoryArrives` for two of a push, a deletion and two provisions of one service, and one edit, restaging, failing directory read or restart |
| `job_producers` | `CompletedIsEarned`, `WriteNeverBlocks`, and the refinement `ImplementsLifecycle` for two requests of any kind under three configurations, with timeouts, kills, late answers and evictions |
| `vars` | the refinement `ImplementsMap` and `EveryRequestAnswered` for three requests on one scope, a fault and a crash |
| `files` | `UploadsWhole`, `AnswerTellsOutcome`, `WorksAsIntended` for three requests of all kinds over two threads, a fault and a crash |
| `ports` | `ViewIsLastSample`, `PortsSettle` for two clients and a port with two listeners that change twice |

The violation is a disagreement between the code and the repository's
documents: `2-host-config.md:20` says that `HostManager` watches and hot-reloads
hosts.toml, and the trace is a start that loads (`host.go:161`), an edit, and the
watch (`host.go:176`), after which nothing ever happens. The service registry
watches first and loads then (`registry.go:170` and `:181`); the same order
would cure it. Other sentences of the documents
that the code does not keep are named below, with what the properties say
instead. What the runs mean in practice:

- The epoch orders mutations that follow each other; it does not serialise
  concurrent ones. Clients that send concurrently with the same epoch may both
  succeed, although `14-feature-decentralized-fencing-consensus.md:23` speaks of
  deterministic stale-write detection. `RealTimeOrder` is what does hold, and it is proved. Moreover an
  `/admin` answer is sent before the epoch is saved, so a crash in between
  leaves a successful mutation whose epoch stays valid.
- The `X-State-Epoch` of an `/admin` answer is set after the header has been
  written, so no such answer carries it, although `7-admin-endpoints.md`
  promises it. This needs no run: it happens on every request. A client has to
  fetch the epoch from a 409 or from provision.
- A stream that ends with "job not found" has used up an id, and a reconnect
  with it skips the job event of that number (`docs/api.md:68` promises a replay
  of missed events). A client should not resume from the id of an error event.
- A transfer that fails may have succeeded at the target: if the answer to the
  promotion is lost, the source takes back its own fence (`admin.go:416`) and
  answers 409 while the target keeps the role and the higher fence, so that two
  nodes are admin. No document says otherwise, and `OneAdminAtRest` leaves such
  behaviours out. After a 409 the operator should look at both nodes. After a restart of a node that got the
  role by a transfer, the least name has to be restarted to get an admin,
  although `6-admin.md:20` says that the ordering picks one.
- A push right after an edit by hand may take the edit back, although
  `2-host-config.md:26` says that it updates the local entry only. Also, a push that
  is delayed between the halves of its reload can leave an old content in
  memory, until the next change: that is one exception in `NothingForgotten`,
  and the overtaken start the other. A half-written file that parses and has the
  local entry is served like any other until the save is complete.
- The same holds of a push, a deletion or a provision whose reload is overtaken,
  and a reload of the watcher that cannot read the directory is not repeated:
  these are the two exceptions in `ChangesOnTheirWay`. A success answers for
  what is served when it is sent, and only if no reload that had begun before
  the change assigned between the request's own reload and the answer (it then
  answers 2xx for a service as it was before, until the next reload), if no
  other file defines the same service, and a
  provision's only if its staged file was not replaced while it ran; senders
  should not reuse a staging path.
- A unit operation that another one joins is reported failed after its 30
  seconds, even if the unit did start: its channel was taken over. Failed means
  "not known to have succeeded"; completed is always true.
- A docker command that ignores its kill keeps its job in the state accepted
  (`run.go` sets no `WaitDelay`) until it ends.
- An upload whose temporary file is deleted through the inbox fails with 500;
  clients should not delete the names that start with `.tailkitd-recv-`, and one
  that reads them can be given a part of an upload: `UploadsWhole` is about
  destinations. Under a rule with `use_as` a listing's sizes and times are looked
  up as the daemon, whoever the rule names. With
  `stat=true` size and time may belong to a later upload than the digest, and
  `handlers.go:113` announces a `job_id` that no code sends.
- Overlapping samples of the ports can leave an old list in `cached`, which
  every client is then told until the ports change again; a released port is
  not reported meanwhile, contrary to `docs/api.md:572`. `PortsSettle` is
  conditional on this not happening; a lock around `Snapshot` would remove the
  condition.
- A value of exactly 1 MiB is refused by the vars store, whose message names
  that size as the maximum.

### Bounds

Three requests are enough for a race of two and a third that meets what they
left behind (a failed write that a later claim saves; a request validated after
a concurrent pair). One crash separates a before and an after; two in the
election let a node be missed by one peer and found by another. Two transfers
hand the role on and back, so fences have to grow past one. Two lines per output
stream distinguish positions in the event list, and three connections with two
drops resume at different points, one of them after an error. Two names and two
entry contents are the local peer and any other; two edits make a broken save
and its repair, or a removal and an edit during the start after it. The run
`host_start_edit` needs one edit and nothing else. In `services` two requests
and one trouble meet in every order: the pairs include two provisions that share
a staging path and a target, and a push against a deletion; two files are enough
for a reload to be between them, and for both to define one service; the
directory starts with one service, so that an old read has something to bring
back. In `job_producers` two requests suffice for a join, a cancellation and a
late signal: a request registers its channel for one unit job at most. In `vars`
three requests are two that interfere and one that reads the result, on one
scope, because scopes share nothing. In `files` three requests are two uploads,
or a pinned one and its successor on the same thread, and a reader or deleter;
two threads let a call choose. In `ports` two clients are a sample and what
disturbs it; two listeners of one port make a change of the address without a
change of the port. Requests are symmetric in `claims` and `epoch`, whose
properties are all safety properties.

Names of the bounds: `MaxCrashes`, `MaxWriteFails`, `MaxEpoch`, `MaxLines`,
`MaxConnects`, `MaxDrops`, `MaxRestarts`, `MaxEdits`, `MaxActive`,
`MaxRequests`, `MaxTroubles`, `MaxAgings`, `MaxFaults`, `MaxChanges`.

### Fairness

`JobStream`: goroutines run (weak fairness of `Server`), every producer has a
timeout and stores a result, and clients read and reconnect; nothing is assumed
of the TTL, and `EndArrives` is conditional on it. `AdminRole`: daemons start
and run, restarts come from the unit file's `Restart=on-failure`
(`internal/setup/service.go`), and an HTTP request ends in an answer or an
error. `HostConfig` and `ServiceRegistry`: the watcher goroutine and its timer
run; the edits are finitely many, so that the debounce period ends. A daemon
that is down is started again, by the same unit file (`NewHostManager`), and one
that cannot start stays down. Nothing is assumed of the requests. `JobProducers`: goroutines
and the dispatcher run, contexts end, and a docker command or its plugin ends;
nothing is assumed of the units, which may stay in transition for ever.
`VarsStore`: goroutines run; each request takes the lock once, so that weak
fairness is enough. `PortStream`: goroutines run and tickers tick. Handlers
without loops or waiting need no liveness property.

## 4. Proofs

Each proof rests on an inductive invariant, which is a conjunction of named
parts in the component's module.

- `ClaimInv`: the map of a running daemon covers the file (`MapCoversFile`), a
  request that has not marked has no answer (`NoAnswerYet`), and one that
  reached the store acts for the token's grantee (`CallerIsGrantee`). Without
  the first, a rewrite of the file could drop a claim; without the second, a
  grant could not be traced to one request. From it: `TypeCorrect`,
  `SingleUseHolds`, `GrantDurableHolds`, `LedgerPermanentHolds`, and
  `Refinement`: every step is a `Grant` of the ledger or leaves it alone. The
  mapping sends the file to the ledger and the request with a 200 to the
  winner. `AccountedInv` adds that every record of the file, too, is accounted
  for (`FileAccounted`), because a restart loads the map from it; from it:
  `ClaimAccountedHolds`.
- `EpochInv`: the value is never below the file (`NeverBehindFile`), finished
  mutations named epochs below the value and validated ones at most the value
  (`FinishedBelow`, `ValidatedBelow`), and headers are written with the answer
  (`HeaderLast`). From it: `EpochTypeCorrect`, `RealTimeOrderHolds`,
  `ReturnedEpochSavedHolds`, `StaleStaysStaleHolds`.
- `HostInv`: what a goroutine holds between the halves of a reload is a content
  the file has had (`HeldWasFile`), and if the watcher's is not the file's any
  more, an event or the timer is pending (`StaleReadFollowed`). Both read only
  what is watched, so that the steps of a start need the exception in
  `NothingForgotten` and nothing else. From it:
  `HostTypeCorrect`, `ServesWholeFileHolds`, `NothingForgottenHolds`.
- `BackedInv`: a provision's writes come in their order (`WritesInOrder`), a file
  of a provision is the one of its service (`FilesBacked`), and what the map or
  a running reload holds is backed (`LoadedBacked`); the last is needed because
  a reload may assign what it read long before. From it: `RegistryTypeCorrect`
  and `ProvisionedBackedHolds`.
- `FreshInv`: if no event and no timer is pending while the watcher reads files,
  then what it has read, completed with the files it has yet to open, is what
  `LoadDir` makes of the directory now (`StaleReadFollowed`). `Finish` says what
  "completed" means without recursion: per service, the last definer wins. The
  lemmas show that opening one more file leaves `Finish` the same, and that
  files which are not listed do not matter. From it: `ChangesOnTheirWayHolds`.
- `ServedInv`: while nobody disturbs a request, what it has written so far stays
  (`WorkKept`), and every reload that began after its change, its own among
  them, has its service once completed (`FindsIt`); when it has assigned and not
  yet answered, so has the map (`WillBeServed`). A reload sees every file at
  another moment; the point of the proof is that only the files that define the
  request's service matter (`FinishSame`), that to change one of them counts as
  a disturbance, and that of all reloads which may assign before the answer only
  those left behind can harm. From it: `SuccessIsServedHolds`.
- `StoreInv` of `VarsStore`: the lock excludes (`WriterHoldsLock`), only changes
  come to write (`RunningIsAsked`, `OnlyChangesWrite`), and the data that a
  change has prepared is its change of the file as it is now
  (`PreparedIsCurrent`). The last is what makes read, prepare and rename one step of the map. From it:
  `StoreInvariant`, `VarsTypeCorrect` and `VarsRefinement`.
- Of `FilesInbox`: `ThreadInv` says that goroutines share no pinned thread, that
  a thread nobody is pinned to has the daemon's identity, that a request
  touches files pinned exactly if its kind is to be, and that it is not pinned
  when it looks at the entries of a directory; from it: `WorksAsIntendedHolds`.
  `UploadInv` says that a temporary file is whole before it is renamed; from it:
  `UploadsWholeHolds`, of destinations and their readers. `OutcomeInv` says that nothing
  is answered before the work is over, nothing is put in its place without an
  answer, and only uploads can be; from it:
  `AnswerTellsOutcomeHolds`.
- `StreamInv` of `JobStream`: the store holds the job's true record or none
  (`RecordInv`), the goroutine of a connection holds a snapshot that begins the
  job's list, and its two counters agree (`SnapBegins`, `Served`),
  each frame bears the number of its event (`FramesNamed`), and up to the first
  error event ids are 1, 2, 3, ... over all connections (`IdsInOrder`). From it:
  `StreamTypeCorrect`, `IdNamesEventHolds`, `ReplayExactHolds`.
- Of `AdminRole`: only daemons that listen hold the role (`RunningAdmins`), and
  only the least name is elected (`OnlyLeast`); from these: `ElectionSafe`.
  `HandoverInv` says which promotion can be under way at which stage of a
  transfer, and that the target has the role when the source comes to give it
  up; from it: `NoGapHolds`. `RoleInv` adds who is admin and who has the highest
  fence at each stage (`RoleBegins`, `SourceHolds`, `TwoShareHandover`,
  `AdminFenceTop`, `FenceAtStage`), as long as no transfer was `Forked`, that is,
  carried out at the target and reported failed at the source; from it:
  `OneAdminAtRestHolds`.
- `ProducerInv` of `JobProducers`: what is read from a channel, or already stored,
  is the result of the reader's own work (`ChannelsTrue`, `OwnWork`), a verdict
  that is ready or given was earned (`VerdictsReady`, `VerdictsEarned`), a channel
  that is registered with the dispatcher is empty (`ListenersEmpty`), signals tell
  how a job ended and an installed job has not ended (`SignalsTellEnds`,
  `InstalledIsPending`), requests that have not come have touched nothing
  (`UntouchedYet`), and accepted ones have a goroutine until they have a verdict
  (`AcceptedRun`). The point is the join: the second request takes the first one's
  place at the dispatcher, and the proof shows that a result still finds an empty
  channel of somebody whose work it is. From it: `ProducerTypeCorrect`,
  `CompletedIsEarnedHolds`, `WriteNeverBlocksHolds` and `LifecycleRefinement`,
  which maps every step to one of `JobLifecycle` or to none, with the mapping that
  `ImplementsLifecycle` has. The requests, their operations and the
  configurations are arbitrary.
- `PortsInv` of `PortStream`: a stream that has sent its snapshot knows what its
  client knows (`StreamTold`); `DiffsAddUp` shows that the two diffs of a tick lead
  from the one sample to the other. And as long as no two samples have
  overlapped, one goroutine at most is past the poller (`AloneAfterPoll`), and
  what is kept and what a sample is built from is the poller's last list
  (`CacheIsLastList`, `SampleIsLastList`). From it: `PortsTypeCorrect`,
  `ViewIsLastSampleHolds`, and with `PortsInvariant` the safety argument under
  `PortsSettle`.

The assumptions are the `ASSUME`s of the modules: the special values differ
from ordinary ones, the grantees are users, the bounds are naturals, the
positions of the files are an order of finitely many, there are nodes and
finitely many transfers. The sets of requests, tokens, users, names, contents,
clients, lines, threads and nodes are otherwise arbitrary, and so are all the
bounds.

Three theorems about the role have hypotheses, because the code does not keep
what they say without them. `OneAtATime` (for `NoGapHolds` and
`OneAdminAtRestHolds`): transfers do not overlap, name another node, and no node
crashes. The first two are the operator's to keep (see `AdminRole` in section
2), and the role of a node that crashes after a transfer is lost. `KnowSmaller`
(for `ElectionSafe` and `OneAdminAtRestHolds`): every node has the nodes with
smaller names among its peers; two nodes that do not know of each other may
both elect themselves. `ElectionSafe` also takes `Xfers = {}`, a fleet without
transfers, and any number of crashes. The TLC instances satisfy these
hypotheses.

Some theorems state more than the runs check: `LedgerPermanentHolds` and
`ReturnedEpochSavedHolds` speak of every single step and of the file, and
`StoreInvariant`, `StreamInvariant`, `HandoverInvariant`, `RoleInvariant`,
`ProducerInvariant` and `PortsInvariant` state the inductive invariants
themselves, as what a change of the code has to keep.

Only model-checked: all liveness (`EndArrives`, `AdminEmerges`, `EditsArrive`,
`DirectoryArrives`, `EveryRequestAnswered`, `PortsSettle`, and the fairness in
`ImplementsLifecycle`). Every invariant that a run checks is also a theorem. The prover handles neither liveness under
fairness nor `ENABLED`, no induction over data and no recursive operators.

## 5. What is not modelled

- Startup, setup and the configuration loaders run once and keep no state.
- Logging, request helpers and the wording of errors are left out, as are string
  rules (paths, escaping, TOML and JSON syntax, quoting for `format=env`): where
  their result matters it is a choice between success and each error.
- Authentication and grants are a choice between refused and passed. The access
  registry is a lookup in two maps; its reload loop, and the tool registry's,
  are the loop of `ServiceRegistry` over other files.
- Docker's queries and streams and the journal pass on what a daemon or a child
  process says and keep nothing. The metrics other than ports are reads of the
  operating system.
- The two key files of `internal/identity` are written at the first start; a
  crash between them leaves a private key without a public one.
- An overflow of the kernel's event queue, after which a watcher misses changes,
  is not modelled. `HostManager.ReplaceSelf` has no caller.
- After a client is gone, `sse.Handler` returns while its goroutine may still
  write; what net/http does with such a write is outside the models.

## 6. Plan

Every component of section 2 has its theorems. What could still be added:

1. The safety arguments under the other liveness properties, as `PortsInv` is for
   `PortsSettle`: of `EndArrives`, that a job with a verdict has it in its record
   or was evicted; of `EveryRequestAnswered`, that a held lock has a holder who is
   not waiting.
2. The role theorems with crashes of nodes that take no part in a transfer.
