----------------------------- MODULE JobsProofs -----------------------------
(***************************************************************************)
(* Proofs about asynchronous jobs.                                         *)
(*                                                                         *)
(* JobProducers: a verdict is earned, the dispatcher of systemd's signals  *)
(* never waits, and every record lives the life of JobLifecycle, for any   *)
(* number of requests, any operations and configurations.                  *)
(*                                                                         *)
(* JobStream: what a client has received over all its connections is a     *)
(* beginning of the job's event list, and an event id means the same event *)
(* on every connection.                                                    *)
(***************************************************************************)
EXTENDS JobProducers, JobStream, SequenceTheorems, WellFoundedInduction, TLAPS

-----------------------------------------------------------------------------
(* The checks: a request is refused with an error and with nothing else.   *)
Refusals == {400, 403, 404, 405, 503}

Checks == Refusals \cup {0}

(* A non-empty set of numbers has a least element, which Min chooses.      *)
LEMMA HasMin ==
    ASSUME NEW S \in SUBSET Nat, S # {}
    PROVE  Min(S) \in S
  <1>1. PICK m \in S : \A k \in S : ~ (<<k, m>> \in OpToRel(<, Nat))
    BY NatLessThanWellFounded, WFMin
  <1>2. \A k \in S : ~ (k < m)
    BY <1>1 DEF OpToRel
  <1>3. \A k \in S : m <= k
    BY <1>2
  <1>4. QED
    BY <1>3 DEF Min

(* The first failing check decides: an error of those checks, or 0.        *)
LEMMA FirstFailureType ==
    ASSUME NEW checks \in Seq(Checks)
    PROVE  FirstFailure(checks) \in Checks
  <1> DEFINE failing == {i \in DOMAIN checks : checks[i] # 0}
  <1>1. failing \in SUBSET Nat /\ failing \subseteq DOMAIN checks
    OBVIOUS
  <1>2. \A i \in DOMAIN checks : checks[i] \in Checks
    BY ElementOfSeq
  <1>3. CASE failing = {}
    BY <1>3 DEF FirstFailure, Checks
  <1>4. CASE failing # {}
    <2>1. Min(failing) \in failing
      <3> HIDE DEF failing
      <3>1. QED
        BY <1>1, <1>4, HasMin
    <2>2. QED
      BY <1>1, <1>2, <1>4, <2>1 DEF FirstFailure
  <1>5. QED
    BY <1>3, <1>4

(* Every route is a list of such checks.                                   *)
LEMMA RouteType ==
    ASSUME NEW o \in AllOps, NEW m \in BOOLEAN
    PROVE  Route(o, m) \in Seq(Checks)
  <1>1. o.family \in {"unit", "container", "image", "compose"}
    BY DEF AllOps, Verbs
  <1>2. \A s, t \in Seq(Checks) : s \o t \in Seq(Checks)
    BY ConcatProperties
  <1>3. <<NamesTarget(o)>> \in Seq(Checks) /\ <<Check(FALSE, 404)>> \in Seq(Checks)
    BY DEF Check, On, Allowed, NamesTarget, Checks, Refusals
  <1>4. CASE o.family = "unit"
    <2>1. guard \in Seq(Checks)
      BY DEF Check, On, Allowed, Checks, Refusals, guard
    <2>2. handleUnits(m) \in Seq(Checks)
      BY DEF Check, On, Allowed, Checks, Refusals, handleUnits
    <2>3. handleUnitInspect(m) \in Seq(Checks)
      BY DEF Check, On, Allowed, Checks, Refusals, handleUnitInspect
    <2>4. handleUnitFile(m) \in Seq(Checks)
      BY DEF Check, On, Allowed, Checks, Refusals, handleUnitFile
    <2>5. handleUnitControl(m) \in Seq(Checks)
      BY DEF Check, On, Allowed, Checks, Refusals, handleUnitControl
    <2>6. handleUnitEnable(o, m) \in Seq(Checks)
      BY DEF Check, On, Allowed, Checks, Refusals, handleUnitEnable
    <2>7. routeUnit(o, m) \in Seq(Checks)
      BY <1>2, <1>3, <2>1, <2>2, <2>3, <2>4, <2>5, <2>6 DEF routeUnit
    <2>8. QED
      BY <1>4, <2>7 DEF Route
  <1>5. CASE o.family = "container"
    <2>1. handleContainers(m) \in Seq(Checks)
      BY DEF Check, On, Allowed, Checks, Refusals, handleContainers
    <2>2. handleContainerInspect(m) \in Seq(Checks)
      BY DEF Check, On, Allowed, Checks, Refusals, handleContainerInspect
    <2>3. handleContainerLogs(o, m) \in Seq(Checks)
      BY DEF Check, On, Allowed, Checks, Refusals, handleContainerLogs
    <2>4. handleContainerStart(o, m) \in Seq(Checks)
      BY DEF Check, On, Allowed, Checks, Refusals, handleContainerStart
    <2>5. handleContainerStop(o, m) \in Seq(Checks)
      BY DEF Check, On, Allowed, Checks, Refusals, handleContainerStop
    <2>6. handleContainerRestart(o, m) \in Seq(Checks)
      BY DEF Check, On, Allowed, Checks, Refusals, handleContainerRestart
    <2>7. <<Check(On("docker"), 503), Check(On("containers"), 403), NamesTarget(o)>> \in Seq(Checks)
      BY DEF Check, On, Allowed, NamesTarget, Checks, Refusals
    <2> DEFINE front == <<Check(On("docker"), 503), Check(On("containers"), 403), NamesTarget(o)>>
               tail == CASE o.verb = "inspect" -> handleContainerInspect(m)
                         [] o.verb = "logs"    -> handleContainerLogs(o, m)
                         [] o.verb = "start"   -> handleContainerStart(o, m)
                         [] o.verb = "stop"    -> handleContainerStop(o, m)
                         [] o.verb = "restart" -> handleContainerRestart(o, m)
                         [] OTHER              -> <<Check(FALSE, 404)>>
    <2>8. front \o tail \in Seq(Checks)
      <3>1. front \in Seq(Checks)
        BY <2>7
      <3>2. tail \in Seq(Checks)
        BY <1>2, <1>3, <2>1, <2>2, <2>3, <2>4, <2>5, <2>6, <2>7
      <3> HIDE DEF front, tail
      <3>3. QED
        BY <1>2, <3>1, <3>2
    <2>9. routeContainer(o, m) \in Seq(Checks)
      <3>1. routeContainer(o, m) = IF o.verb = "list" THEN handleContainers(m) ELSE front \o tail
        BY DEF routeContainer
      <3> HIDE DEF front, tail
      <3>2. QED
        BY <2>1, <2>8, <3>1
    <2>10. QED
      BY <1>5, <2>9 DEF Route
  <1>6. CASE o.family = "image"
    <2>1. handleImages(m) \in Seq(Checks)
      BY DEF Check, On, Allowed, Checks, Refusals, handleImages
    <2>2. handleImageInspect(m) \in Seq(Checks)
      BY DEF Check, On, Allowed, Checks, Refusals, handleImageInspect
    <2>3. handleImagePull(o, m) \in Seq(Checks)
      BY DEF Check, On, Allowed, Checks, Refusals, handleImagePull
    <2>4. handleImageRemove(o, m) \in Seq(Checks)
      BY DEF Check, On, Allowed, Checks, Refusals, handleImageRemove
    <2>5. <<Check(On("docker"), 503), Check(On("images"), 403), NamesTarget(o)>> \in Seq(Checks)
      BY DEF Check, On, Allowed, NamesTarget, Checks, Refusals
    <2> DEFINE front == <<Check(On("docker"), 503), Check(On("images"), 403), NamesTarget(o)>>
               tail == CASE o.verb = "inspect" -> handleImageInspect(m)
                         [] o.verb = "pull"    -> handleImagePull(o, m)
                         [] o.verb = "remove"  -> handleImageRemove(o, m)
                         [] OTHER              -> <<Check(FALSE, 404)>>
    <2>6. front \o tail \in Seq(Checks)
      <3>1. front \in Seq(Checks)
        BY <2>5
      <3>2. tail \in Seq(Checks)
        BY <1>2, <1>3, <2>1, <2>2, <2>3, <2>4, <2>5
      <3> HIDE DEF front, tail
      <3>3. QED
        BY <1>2, <3>1, <3>2
    <2>7. routeImage(o, m) \in Seq(Checks)
      <3>1. routeImage(o, m) = IF o.verb = "list" THEN handleImages(m) ELSE front \o tail
        BY DEF routeImage
      <3> HIDE DEF front, tail
      <3>2. QED
        BY <2>1, <2>6, <3>1
    <2>8. QED
      BY <1>6, <2>7 DEF Route
  <1>7. CASE o.family = "compose"
    <2>1. handleComposeProjects(m) \in Seq(Checks)
      BY DEF Check, On, Allowed, Checks, Refusals, handleComposeProjects
    <2>2. handleComposeProject(m) \in Seq(Checks)
      BY DEF Check, On, Allowed, Checks, Refusals, handleComposeProject
    <2>3. handleComposeUp(m) \in Seq(Checks)
      BY DEF Check, On, Allowed, Checks, Refusals, handleComposeUp
    <2>4. handleComposeAction(o, m) \in Seq(Checks)
      BY DEF Check, On, Allowed, Checks, Refusals, handleComposeAction
    <2>5. <<Check(On("compose"), 403), Check(Allowed(composeList), 403), NamesTarget(o)>> \in Seq(Checks)
      BY DEF Check, On, Allowed, NamesTarget, Checks, Refusals
    <2> DEFINE front == <<Check(On("compose"), 403), Check(Allowed(composeList), 403), NamesTarget(o)>>
               tail == CASE o.verb = "inspect" -> handleComposeProject(m)
                         [] o.verb = "up"      -> handleComposeUp(m)
                         [] o.verb \in {"down", "pull", "restart", "build"} -> handleComposeAction(o, m)
                         [] OTHER              -> <<Check(FALSE, 404)>>
    <2>6. front \o tail \in Seq(Checks)
      <3>1. front \in Seq(Checks)
        BY <2>5
      <3>2. tail \in Seq(Checks)
        BY <1>2, <1>3, <2>1, <2>2, <2>3, <2>4, <2>5
      <3> HIDE DEF front, tail
      <3>3. QED
        BY <1>2, <3>1, <3>2
    <2>7. routeCompose(o, m) \in Seq(Checks)
      <3>1. routeCompose(o, m) = IF o.verb = "list" THEN handleComposeProjects(m) ELSE front \o tail
        BY DEF routeCompose
      <3> HIDE DEF front, tail
      <3>2. QED
        BY <2>1, <2>6, <3>1
    <2>8. QED
      BY <1>7, <2>7 DEF Route
  <1>8. QED
    BY <1>1, <1>4, <1>5, <1>6, <1>7

(* What a refused request is answered.                                     *)
LEMMA RefusalType ==
    ASSUME NEW r \in Requests, NEW o \in Ops[r], NEW m \in BOOLEAN,
           FirstFailure(Route(o, m)) # 0
    PROVE  FirstFailure(Route(o, m)) \in Refusals
  <1>1. o \in AllOps
    BY ProducersAssumption
  <1>2. QED
    BY <1>1, RouteType, FirstFailureType DEF Checks

-----------------------------------------------------------------------------
(* Results stand.                                                          *)
LEMMA Values ==
    /\ None \notin Requests
    /\ None \notin Ended /\ "pending" \notin Ended /\ None # "pending"
    /\ None \notin {"accepted", "completed", "failed"}
    /\ Success \subseteq Ended /\ {"failed", "canceled"} \subseteq Ended /\ "done" \in Success
  BY ProducersAssumption DEF Ended, Success

(* The steps that touch no work.                                           *)
Idles(r) ==
    \/ \E o \in Ops[r] : (\E m \in BOOLEAN : Refuse(r, o, m)) \/ Query(r, o) \/ AcceptJob(r, o)
    \/ ReceiveResult(r) \/ WaitTimeout(r) \/ ReloadManager(r) \/ runDockerCLI(r)
    \/ StoreVerdict(r) \/ RecordAges(r)

(* They leave work, outcomes and systemd alone.                            *)
LEMMA IdlesKeep ==
    ASSUME NEW r \in Requests, Idles(r)
    PROVE  UNCHANGED <<work, outcome, installed, listener, signals>>
  BY DEF Idles, Refuse, Query, AcceptJob, ReceiveResult, WaitTimeout, ReloadManager, runDockerCLI,
         StoreVerdict, RecordAges, busVars

(* The steps, sorted.                                                      *)
LEMMA Steps ==
    ASSUME ProducersNext
    PROVE  \/ \E r \in Requests :
                \/ Idles(r)
                \/ \E o \in Ops[r] : RemoveImage(r, o)
                \/ StartUnit(r) \/ StartUnitFails(r)
                \/ EnableUnit(r) \/ CallContainer(r) \/ StartCommand(r)
                \/ CommandEnds(r) \/ KillCommand(r)
           \/ UnitJobEnds \/ Dispatch \/ evict \/ UNCHANGED producersVars
  BY DEF ProducersNext, Request, Producer, Idles, AllServed

(* A step of a request that has not touched any work yet, and what it does *)
(* to others': it may cancel the unit's job.                               *)
LEMMA InstallStands ==
    ASSUME ProducersTypeOK, UntouchedYet, InstalledIsPending, NEW r \in Requests, pc[r] = "call", Install(r)
    PROVE  /\ outcome'[r] = "pending" /\ installed' = r
           /\ installed \in Requests => outcome'[installed] = "canceled"
           /\ \A w \in Requests : w # r /\ w # installed => outcome'[w] = outcome[w]
           /\ \A w \in Requests : outcome[w] \in Ended => outcome'[w] = outcome[w]
           /\ r # installed
  <1>1. outcome[r] = None
    BY DEF UntouchedYet
  <1>2. r # installed
    BY Values DEF InstalledIsPending
  <1>3. outcome \in [Requests -> Ended \cup {"pending", None}] /\ installed \in Requests \cup {None}
    BY DEF ProducersTypeOK
  <1>4. CASE installed = None
    BY <1>1, <1>2, <1>3, <1>4, Values DEF Install
  <1>5. CASE installed # None
    <2>1. outcome[installed] = "pending" /\ installed \in Requests
      BY <1>3, <1>5 DEF InstalledIsPending
    <2>2. outcome' = [outcome EXCEPT ![r] = "pending", ![installed] = "canceled"] /\ installed' = r
      BY <1>5 DEF Install
    <2>3. \A w \in Requests : w # r /\ w # installed => outcome'[w] = outcome[w]
      BY <1>3, <2>2
    <2>4. outcome'[r] = "pending" /\ outcome'[installed] = "canceled"
      BY <1>2, <1>3, <2>1, <2>2
    <2>5. \A w \in Requests : outcome[w] \in Ended => w # r /\ w # installed
      BY <1>1, <2>1, Values
    <2>6. QED
      BY <1>2, <2>2, <2>3, <2>4, <2>5
  <1>6. QED
    BY <1>4, <1>5

(* A result, once there, stands, and so does the work behind a request.    *)
LEMMA ResultsStand ==
    ASSUME ProducerInv, ProducersNext
    PROVE  \A w \in Requests :
                /\ outcome[w] \in Ended => outcome'[w] = outcome[w]
                /\ work[w] # None => work'[w] = work[w]
  <1> DEFINE Goal == \A w \in Requests : /\ outcome[w] \in Ended => outcome'[w] = outcome[w]
                                         /\ work[w] # None => work'[w] = work[w]
  <1>1. ProducersTypeOK /\ UntouchedYet /\ InstalledIsPending
    BY DEF ProducerInv
  <1>2. ASSUME UNCHANGED <<work, outcome>>
        PROVE  Goal
    BY <1>2
  <1>3. ASSUME NEW r \in Requests, NEW x, outcome[r] \notin Ended,
               outcome' = [outcome EXCEPT ![r] = x],
               \/ UNCHANGED work
               \/ work[r] = None /\ \E y : work' = [work EXCEPT ![r] = y]
        PROVE  Goal
    <2>1. \A w \in Requests : outcome[w] \in Ended => outcome'[w] = outcome[w]
      BY <1>1, <1>3 DEF ProducersTypeOK
    <2>2. \A w \in Requests : work[w] # None => work'[w] = work[w]
      BY <1>1, <1>3 DEF ProducersTypeOK
    <2>3. QED
      BY <2>1, <2>2
  <1>4. \A r \in Requests : pc[r] \in {"idle", "call"} => work[r] = None /\ outcome[r] \notin Ended
    BY <1>1, Values DEF UntouchedYet
  <1>5. ASSUME NEW r \in Requests, NEW o, RemoveImage(r, o)
        PROVE  Goal
    <2>1. work[r] = None /\ outcome[r] \notin Ended
      BY <1>4, <1>5 DEF RemoveImage, Arrives
    <2>2. QED
      BY <1>3, <1>5, <2>1 DEF RemoveImage
  <1>6. ASSUME NEW r \in Requests, EnableUnit(r) \/ CallContainer(r) \/ StartCommand(r)
        PROVE  Goal
    <2>1. work[r] = None /\ outcome[r] \notin Ended
      BY <1>4, <1>6 DEF EnableUnit, CallContainer, StartCommand
    <2>2. QED
      BY <1>3, <1>6, <2>1 DEF EnableUnit, CallContainer, StartCommand
  <1>7. ASSUME NEW r \in Requests, CommandEnds(r) \/ KillCommand(r)
        PROVE  Goal
    <2>1. outcome[r] \notin Ended /\ UNCHANGED work
      BY <1>7, Values DEF CommandEnds, KillCommand
    <2>2. QED
      BY <1>3, <1>7, <2>1 DEF CommandEnds, KillCommand
  <1>8. ASSUME UnitJobEnds
        PROVE  Goal
    <2>1. installed \in Requests /\ outcome[installed] \notin Ended /\ UNCHANGED work
      BY <1>1, <1>8, Values DEF UnitJobEnds, InstalledIsPending, ProducersTypeOK
    <2>2. QED
      BY <1>3, <1>8, <2>1 DEF UnitJobEnds
  <1>9. ASSUME NEW r \in Requests, StartUnit(r) \/ StartUnitFails(r)
        PROVE  Goal
    <2>1. pc[r] = "call" /\ work[r] = None
      BY <1>4, <1>9 DEF StartUnit, StartUnitFails
    <2>2. \A w \in Requests : outcome[w] \in Ended => outcome'[w] = outcome[w]
      <3>1. CASE UNCHANGED outcome
        BY <3>1
      <3>2. CASE Install(r)
        BY <1>1, <2>1, <3>2, InstallStands
      <3>3. QED
        BY <1>9, <3>1, <3>2 DEF StartUnit, StartUnitFails
    <2>3. \A w \in Requests : work[w] # None => work'[w] = work[w]
      BY <1>1, <1>9, <2>1 DEF StartUnit, StartUnitFails, ProducersTypeOK
    <2>4. QED
      BY <2>2, <2>3
  <1>10. Dispatch \/ evict \/ UNCHANGED producersVars => UNCHANGED <<work, outcome>>
    BY DEF Dispatch, evict, producersVars
  <1>11. \A r \in Requests : Idles(r) => UNCHANGED <<work, outcome>>
    BY IdlesKeep
  <1>12. QED
    <2> HIDE DEF Goal
    <2>1. Goal
      BY <1>2, <1>5, <1>6, <1>7, <1>8, <1>9, <1>10, <1>11, Steps
    <2>2. QED
      BY <2>1 DEF Goal

-----------------------------------------------------------------------------
(* Types.                                                                  *)
LEMMA RequestTypes ==
    ASSUME ProducersTypeOK, NEW r \in Requests, Request(r)
    PROVE  ProducersTypeOK'
  <1> USE DEF ProducersTypeOK
  <1>1. PICK o \in Ops[r] : \/ \E m \in BOOLEAN : Refuse(r, o, m)
                            \/ Query(r, o) \/ RemoveImage(r, o) \/ AcceptJob(r, o)
    BY DEF Request
  <1>2. o \in AllOps
    BY ProducersAssumption
  <1>3. op' \in [Requests -> AllOps \cup {None}]
    <2>1. op' = [op EXCEPT ![r] = o]
      BY <1>1 DEF Refuse, Query, RemoveImage, AcceptJob, Arrives
    <2>2. QED
      BY <1>2, <2>1
  <1>4. \A k \in Codes : Answer(r, k) => code' \in [Requests -> Codes]
    BY DEF Answer
  <1>5. ASSUME NEW m \in BOOLEAN, Refuse(r, o, m)
        PROVE  ProducersTypeOK'
    <2>1. FirstFailure(Route(o, m)) \in Codes
      BY <1>5, RefusalType DEF Refuse, Refusals, Codes
    <2>2. code' \in [Requests -> Codes]
      BY <1>4, <1>5, <2>1 DEF Refuse
    <2>3. QED
      BY <1>3, <1>5, <2>2 DEF Refuse, Goto, storeVars, busVars
  <1>6. ASSUME Query(r, o)
        PROVE  ProducersTypeOK'
    <2>1. code' \in [Requests -> Codes]
      BY <1>4, <1>6 DEF Query, Codes
    <2>2. pc' \in [Requests -> {"idle", "call", "wait", "reload", "run", "store", "done"}]
      BY <1>6 DEF Query, Goto
    <2>3. UNCHANGED <<cfg, verdict, storeVars, work, outcome, killed, busVars>>
      BY <1>6 DEF Query
    <2>4. QED
      BY <1>3, <2>1, <2>2, <2>3 DEF storeVars, busVars
  <1>7. ASSUME RemoveImage(r, o)
        PROVE  ProducersTypeOK'
    <2>1. code' \in [Requests -> Codes]
      BY <1>4, <1>7 DEF RemoveImage, Codes
    <2>2. work' \in [Requests -> Requests \cup {None}]
      BY <1>7 DEF RemoveImage
    <2>3. outcome' \in [Requests -> Ended \cup {"pending", None}]
      BY <1>7, Values DEF RemoveImage
    <2>4. pc' \in [Requests -> {"idle", "call", "wait", "reload", "run", "store", "done"}]
      BY <1>7 DEF RemoveImage, Goto
    <2>5. QED
      BY <1>3, <1>7, <2>1, <2>2, <2>3, <2>4 DEF RemoveImage, storeVars, busVars
  <1>8. ASSUME AcceptJob(r, o)
        PROVE  ProducersTypeOK'
    <2>1. code' \in [Requests -> Codes]
      BY <1>4, <1>8 DEF AcceptJob, Codes
    <2>2. record' \in [Requests -> {"accepted", "completed", "failed", None}]
      BY <1>8 DEF AcceptJob
    <2>3. pc' \in [Requests -> {"idle", "call", "wait", "reload", "run", "store", "done"}]
      BY <1>8 DEF AcceptJob, Goto
    <2>4. QED
      BY <1>3, <1>8, <2>1, <2>2, <2>3 DEF AcceptJob, busVars
  <1>9. QED
    BY <1>1, <1>5, <1>6, <1>7, <1>8

(* What systemd does on a new job.                                         *)
LEMMA InstallTypes ==
    ASSUME ProducersTypeOK, NEW r \in Requests, Install(r)
    PROVE  /\ outcome' \in [Requests -> Ended \cup {"pending", None}]
           /\ installed' \in Requests
           /\ signals' \in Seq(Requests)
  <1> USE DEF ProducersTypeOK
  <1>1. outcome' \in [Requests -> Ended \cup {"pending", None}]
    BY Values DEF Install
  <1>2. signals' \in Seq(Requests)
    <2>1. CASE installed = None
      BY <2>1 DEF Install
    <2>2. CASE installed # None
      <3>1. installed \in Requests
        BY <2>2
      <3>2. signals' = Append(signals, installed)
        BY <2>2 DEF Install
      <3>3. QED
        BY <3>1, <3>2, AppendProperties
    <2>3. QED
      BY <2>1, <2>2
  <1>3. QED
    BY <1>1, <1>2 DEF Install

(* What a goroutine does on its verdict.                                   *)
LEMMA ConcludeTypes ==
    ASSUME ProducersTypeOK, NEW r \in Requests, NEW v \in {"completed", "failed"}, Conclude(r, v)
    PROVE  /\ verdict' \in [Requests -> {"completed", "failed", None}]
           /\ pc' \in [Requests -> {"idle", "call", "wait", "reload", "run", "store", "done"}]
  BY DEF ProducersTypeOK, Conclude, Goto

(* The goroutines' steps keep the types.                                   *)
LEMMA ProducerTypes ==
    ASSUME ProducersTypeOK, NEW r \in Requests, Producer(r)
    PROVE  ProducersTypeOK'
  <1> USE DEF ProducersTypeOK
  <1>1. ASSUME StartUnit(r)
        PROVE  ProducersTypeOK'
    <2>1. pc' \in [Requests -> {"idle", "call", "wait", "reload", "run", "store", "done"}]
      BY <1>1 DEF StartUnit, Goto
    <2>2. CASE Install(r) /\ work' = [work EXCEPT ![r] = r] /\ listener' = [listener EXCEPT ![r] = r]
      <3>1. /\ outcome' \in [Requests -> Ended \cup {"pending", None}]
            /\ installed' \in Requests /\ signals' \in Seq(Requests)
        BY <2>2, InstallTypes
      <3>2. /\ work' \in [Requests -> Requests \cup {None}]
            /\ listener' \in [Requests -> Requests \cup {None}]
        BY <2>2
      <3>3. QED
        BY <1>1, <2>1, <3>1, <3>2 DEF StartUnit, storeVars
    <2>3. CASE /\ Joins(r) /\ work' = [work EXCEPT ![r] = installed]
               /\ listener' = [listener EXCEPT ![installed] = r]
               /\ UNCHANGED <<installed, outcome, signals>>
      <3>1. installed \in Requests
        BY <2>3 DEF Joins
      <3>2. /\ work' \in [Requests -> Requests \cup {None}]
            /\ listener' \in [Requests -> Requests \cup {None}]
        BY <2>3, <3>1
      <3>3. QED
        BY <1>1, <2>1, <2>3, <3>2 DEF StartUnit, storeVars
    <2>4. QED
      BY <1>1, <2>2, <2>3 DEF StartUnit
  <1>2. ASSUME StartUnitFails(r)
        PROVE  ProducersTypeOK'
    <2>1. /\ outcome' \in [Requests -> Ended \cup {"pending", None}]
          /\ installed' \in Requests \cup {None} /\ signals' \in Seq(Requests)
      BY <1>2, InstallTypes DEF StartUnitFails
    <2>2. QED
      BY <1>2, <2>1, ConcludeTypes DEF StartUnitFails, storeVars
  <1>3. ASSUME ReceiveResult(r)
        PROVE  ProducersTypeOK'
    <2>1. Tail(ch[r]) \in Seq(Ended)
      BY <1>3, HeadTailProperties DEF ReceiveResult
    <2>2. ch' \in [Requests -> Seq(Ended)]
      BY <1>3, <2>1 DEF ReceiveResult
    <2>3. UnitVerdict(Head(ch[r])) \in {"completed", "failed"}
      BY DEF UnitVerdict
    <2>4. /\ verdict' \in [Requests -> {"completed", "failed", None}]
          /\ pc' \in [Requests -> {"idle", "call", "wait", "reload", "run", "store", "done"}]
      BY <1>3, <2>3, ConcludeTypes DEF ReceiveResult
    <2>5. QED
      BY <1>3, <2>2, <2>4 DEF ReceiveResult, storeVars
  <1>4. ASSUME WaitTimeout(r)
        PROVE  ProducersTypeOK'
    BY <1>4, ConcludeTypes DEF WaitTimeout, storeVars, busVars
  <1>5. ASSUME EnableUnit(r)
        PROVE  ProducersTypeOK'
    <2>1. work' \in [Requests -> Requests \cup {None}]
      BY <1>5 DEF EnableUnit
    <2>2. outcome' \in [Requests -> Ended \cup {"pending", None}]
      BY <1>5, Values DEF EnableUnit
    <2>3. /\ verdict' \in [Requests -> {"completed", "failed", None}]
          /\ pc' \in [Requests -> {"idle", "call", "wait", "reload", "run", "store", "done"}]
      BY <1>5, ConcludeTypes DEF EnableUnit, Goto
    <2>4. QED
      BY <1>5, <2>1, <2>2, <2>3 DEF EnableUnit, storeVars, busVars
  <1>6. ASSUME ReloadManager(r)
        PROVE  ProducersTypeOK'
    BY <1>6, ConcludeTypes DEF ReloadManager, storeVars, busVars
  <1>7. ASSUME CallContainer(r)
        PROVE  ProducersTypeOK'
    <2>1. work' \in [Requests -> Requests \cup {None}]
      BY <1>7 DEF CallContainer
    <2>2. outcome' \in [Requests -> Ended \cup {"pending", None}]
      BY <1>7, Values DEF CallContainer
    <2>3. /\ verdict' \in [Requests -> {"completed", "failed", None}]
          /\ pc' \in [Requests -> {"idle", "call", "wait", "reload", "run", "store", "done"}]
      BY <1>7, ConcludeTypes DEF CallContainer
    <2>4. QED
      BY <1>7, <2>1, <2>2, <2>3 DEF CallContainer, storeVars, busVars
  <1>8. ASSUME StartCommand(r)
        PROVE  ProducersTypeOK'
    BY <1>8 DEF StartCommand, Goto, storeVars, busVars
  <1>9. ASSUME runDockerCLI(r)
        PROVE  ProducersTypeOK'
    <2>1. /\ verdict' \in [Requests -> {"completed", "failed", None}]
          /\ pc' \in [Requests -> {"idle", "call", "wait", "reload", "run", "store", "done"}]
      BY <1>9, ConcludeTypes DEF runDockerCLI
    <2>2. QED
      BY <1>9, <2>1 DEF runDockerCLI, storeVars, busVars
  <1>10. ASSUME StoreVerdict(r)
         PROVE  ProducersTypeOK'
    <2>1. aged' \in [Requests -> BOOLEAN]
      BY <1>10 DEF StoreVerdict
    <2>2. verdict[r] \in {"completed", "failed", None}
      OBVIOUS
    <2>3. /\ record' \in [Requests -> {"accepted", "completed", "failed", None}]
          /\ verdict' \in [Requests -> {"completed", "failed", None}]
          /\ pc' \in [Requests -> {"idle", "call", "wait", "reload", "run", "store", "done"}]
      BY <1>10, <2>2 DEF StoreVerdict, Goto
    <2>4. QED
      BY <1>10, <2>1, <2>3 DEF StoreVerdict, busVars
  <1>11. QED
    BY <1>1, <1>2, <1>3, <1>4, <1>5, <1>6, <1>7, <1>8, <1>9, <1>10 DEF Producer

(* So do systemd, Docker, the dispatcher, the clock and the eviction.      *)
LEMMA OutsideTypes ==
    ASSUME ProducersTypeOK, SignalsTellEnds
    PROVE  /\ \A r \in Requests : CommandEnds(r) \/ KillCommand(r) \/ RecordAges(r) => ProducersTypeOK'
           /\ UnitJobEnds \/ Dispatch \/ evict \/ UNCHANGED producersVars => ProducersTypeOK'
  <1> USE DEF ProducersTypeOK
  <1>1. ASSUME NEW r \in Requests, CommandEnds(r)
        PROVE  ProducersTypeOK'
    BY <1>1, Values DEF CommandEnds, storeVars, busVars
  <1>2. ASSUME NEW r \in Requests, KillCommand(r)
        PROVE  ProducersTypeOK'
    <2>1. killed' \in [Requests -> BOOLEAN]
      BY <1>2 DEF KillCommand
    <2>2. outcome' \in [Requests -> Ended \cup {"pending", None}]
      BY <1>2, Values DEF KillCommand
    <2>3. QED
      BY <1>2, <2>1, <2>2 DEF KillCommand, storeVars, busVars
  <1>3. ASSUME NEW r \in Requests, RecordAges(r)
        PROVE  ProducersTypeOK'
    <2>1. aged' \in [Requests -> BOOLEAN]
      BY <1>3 DEF RecordAges
    <2>2. agings' \in 0..MaxAgings
      BY <1>3, ProducersAssumption DEF RecordAges
    <2>3. QED
      BY <1>3, <2>1, <2>2 DEF RecordAges, busVars
  <1>4. ASSUME UnitJobEnds
        PROVE  ProducersTypeOK'
    <2>1. installed \in Requests
      BY <1>4 DEF UnitJobEnds
    <2>2. signals' \in Seq(Requests)
      BY <1>4, <2>1, AppendProperties DEF UnitJobEnds
    <2>3. outcome' \in [Requests -> Ended \cup {"pending", None}]
      BY <1>4, <2>1, Values DEF UnitJobEnds
    <2>4. QED
      BY <1>4, <2>2, <2>3 DEF UnitJobEnds, storeVars
  <1>5. ASSUME Dispatch
        PROVE  ProducersTypeOK'
    <2> DEFINE w == Head(signals)
    <2>1. w \in Requests /\ Tail(signals) \in Seq(Requests) /\ outcome[w] \in Ended
      <3>1. w \in Requests /\ Tail(signals) \in Seq(Requests)
        BY <1>5, HeadTailProperties DEF Dispatch
      <3>2. 1 \in DOMAIN signals /\ w = signals[1]
        BY <1>5, LenProperties DEF Dispatch
      <3>3. QED
        BY <3>1, <3>2 DEF SignalsTellEnds
    <2> HIDE DEF w
    <2>2. ch' \in [Requests -> Seq(Ended)]
      <3>1. CASE listener[w] = None
        BY <1>5, <3>1 DEF Dispatch, w
      <3>2. CASE listener[w] # None
        <4>1. listener[w] \in Requests
          BY <2>1, <3>2
        <4>2. Append(ch[listener[w]], outcome[w]) \in Seq(Ended)
          BY <2>1, <4>1, AppendProperties
        <4>3. ch' = [ch EXCEPT ![listener[w]] = Append(ch[listener[w]], outcome[w])]
          BY <1>5, <3>2 DEF Dispatch, w
        <4>4. QED
          BY <4>1, <4>2, <4>3
      <3>3. QED
        BY <3>1, <3>2
    <2>3. listener' \in [Requests -> Requests \cup {None}]
      BY <1>5, <2>1 DEF Dispatch, w
    <2>4. QED
      BY <1>5, <2>1, <2>2, <2>3 DEF Dispatch, storeVars
  <1>6. ASSUME evict
        PROVE  ProducersTypeOK'
    <2>1. aged' \in [Requests -> BOOLEAN]
      BY <1>6 DEF evict
    <2>2. record' \in [Requests -> {"accepted", "completed", "failed", None}]
      BY <1>6 DEF evict
    <2>3. QED
      BY <1>6, <2>1, <2>2 DEF evict, busVars
  <1>7. ASSUME UNCHANGED producersVars
        PROVE  ProducersTypeOK'
    BY <1>7 DEF producersVars
  <1>8. QED
    BY <1>1, <1>2, <1>3, <1>4, <1>5, <1>6, <1>7

(* Every step keeps the types.                                             *)
LEMMA NextTypes ==
    ASSUME ProducerInv, ProducersNext
    PROVE  ProducersTypeOK'
  <1>1. ProducersTypeOK /\ SignalsTellEnds
    BY DEF ProducerInv
  <1>2. QED
    BY <1>1, RequestTypes, ProducerTypes, OutsideTypes DEF ProducersNext, AllServed

-----------------------------------------------------------------------------
(* The parts of the invariant.                                             *)

(* Only these steps leave "idle" or "call", and they leave it with work or *)
(* for good; no step comes back.                                           *)
LEMMA UntouchedWorkKept ==
    ASSUME ProducerInv, ProducersNext
    PROVE  UntouchedYet'
  <1> SUFFICES ASSUME NEW q \in Requests, pc'[q] \in {"idle", "call"}
               PROVE  work'[q] = None /\ outcome'[q] = None
    BY DEF UntouchedYet
  <1>1. ProducersTypeOK /\ UntouchedYet /\ InstalledIsPending
    BY DEF ProducerInv
  <1>2. ASSUME pc[q] \in {"idle", "call"}, work'[q] = work[q], outcome'[q] = outcome[q]
        PROVE  work'[q] = None /\ outcome'[q] = None
    BY <1>1, <1>2 DEF UntouchedYet
  <1>3. ASSUME NEW r \in Requests, NEW l, Goto(r, l), l \notin {"idle", "call"}
        PROVE  q # r /\ pc[q] \in {"idle", "call"}
    BY <1>1, <1>3 DEF Goto, ProducersTypeOK
  <1>4. \A r \in Requests : \A v : Conclude(r, v) => Goto(r, "store")
    BY DEF Conclude
  <1>5. ASSUME NEW r \in Requests, Idles(r)
        PROVE  pc[q] \in {"idle", "call"}
    <2>1. ASSUME NEW o, AcceptJob(r, o)
          PROVE  pc[q] \in {"idle", "call"}
      <3>1. pc[r] = "idle" /\ pc' = [pc EXCEPT ![r] = "call"]
        BY <2>1 DEF AcceptJob, Arrives, Goto
      <3>2. QED
        BY <1>1, <3>1 DEF ProducersTypeOK
    <2>2. ASSUME NEW o, NEW m, Refuse(r, o, m) \/ Query(r, o)
          PROVE  pc[q] \in {"idle", "call"}
      <3>1. Goto(r, "done")
        BY <2>2 DEF Refuse, Query
      <3>2. QED
        BY <1>3, <3>1
    <2>3. CASE ReceiveResult(r) \/ WaitTimeout(r) \/ ReloadManager(r) \/ runDockerCLI(r)
      BY <1>3, <1>4, <2>3 DEF ReceiveResult, WaitTimeout, ReloadManager, runDockerCLI
    <2>4. CASE StoreVerdict(r) \/ RecordAges(r)
      BY <1>3, <2>4 DEF StoreVerdict, RecordAges
    <2>5. QED
      BY <1>5, <2>1, <2>2, <2>3, <2>4 DEF Idles
  <1>6. ASSUME NEW r \in Requests, NEW o, RemoveImage(r, o)
        PROVE  work'[q] = None /\ outcome'[q] = None
    <2>1. q # r /\ pc[q] \in {"idle", "call"}
      BY <1>3, <1>6 DEF RemoveImage
    <2>2. work'[q] = work[q] /\ outcome'[q] = outcome[q]
      BY <1>1, <1>6, <2>1 DEF RemoveImage, ProducersTypeOK
    <2>3. QED
      BY <1>2, <2>1, <2>2
  <1>7. ASSUME NEW r \in Requests, EnableUnit(r) \/ CallContainer(r) \/ StartCommand(r)
        PROVE  work'[q] = None /\ outcome'[q] = None
    <2>1. q # r /\ pc[q] \in {"idle", "call"}
      BY <1>3, <1>4, <1>7 DEF EnableUnit, CallContainer, StartCommand
    <2>2. work'[q] = work[q] /\ outcome'[q] = outcome[q]
      BY <1>1, <1>7, <2>1 DEF EnableUnit, CallContainer, StartCommand, ProducersTypeOK
    <2>3. QED
      BY <1>2, <2>1, <2>2
  <1>8. ASSUME NEW r \in Requests, CommandEnds(r) \/ KillCommand(r)
        PROVE  work'[q] = None /\ outcome'[q] = None
    <2>1. UNCHANGED <<pc, work>> /\ pc[r] = "run"
      BY <1>8 DEF CommandEnds, KillCommand
    <2>2. q # r
      BY <2>1
    <2>3. outcome'[q] = outcome[q]
      BY <1>1, <1>8, <2>2 DEF CommandEnds, KillCommand, ProducersTypeOK
    <2>4. QED
      BY <1>2, <2>1, <2>3
  <1>9. q # installed \/ pc[q] \notin {"idle", "call"}
    BY <1>1, Values DEF InstalledIsPending
  <1>10. ASSUME NEW r \in Requests, StartUnit(r) \/ StartUnitFails(r)
         PROVE  work'[q] = None /\ outcome'[q] = None
    <2>1. q # r /\ pc[q] \in {"idle", "call"} /\ pc[r] = "call"
      BY <1>3, <1>4, <1>10 DEF StartUnit, StartUnitFails
    <2>2. work'[q] = work[q]
      BY <1>1, <1>10, <2>1 DEF StartUnit, StartUnitFails, ProducersTypeOK
    <2>3. outcome'[q] = outcome[q]
      BY <1>1, <1>9, <1>10, <2>1, InstallStands DEF StartUnit, StartUnitFails
    <2>4. QED
      BY <1>2, <2>1, <2>2, <2>3
  <1>11. ASSUME UnitJobEnds
         PROVE  work'[q] = None /\ outcome'[q] = None
    <2>1. UNCHANGED <<pc, work>>
      BY <1>11 DEF UnitJobEnds
    <2>2. outcome'[q] = outcome[q]
      BY <1>1, <1>9, <1>11, <2>1 DEF UnitJobEnds, ProducersTypeOK
    <2>3. QED
      BY <1>2, <2>1, <2>2
  <1>12. ASSUME Dispatch \/ evict \/ UNCHANGED producersVars
         PROVE  UNCHANGED <<pc, work, outcome>>
    BY <1>12 DEF Dispatch, evict, producersVars
  <1>13. QED
    BY <1>2, <1>5, <1>6, <1>7, <1>8, <1>10, <1>11, <1>12, Steps, IdlesKeep

(* The unit's job is pending until systemd ends or cancels it.             *)
LEMMA InstalledKept ==
    ASSUME ProducerInv, ProducersNext
    PROVE  InstalledIsPending'
  <1>1. ProducersTypeOK /\ UntouchedYet /\ InstalledIsPending
    BY DEF ProducerInv
  <1> DEFINE Late == {"wait", "store", "done"}
  <1>2. \A r \in Requests : \A v : Conclude(r, v) => Goto(r, "store")
    BY DEF Conclude
  <1>3. installed \in Requests => pc[installed] \in Late /\ outcome[installed] = "pending"
    BY <1>1, Values DEF InstalledIsPending
  <1>4. ASSUME installed' = installed,
               installed \in Requests =>
                   pc'[installed] \in Late /\ outcome'[installed] = outcome[installed]
        PROVE  InstalledIsPending'
    BY <1>1, <1>3, <1>4 DEF InstalledIsPending, ProducersTypeOK
  <1>5. ASSUME NEW r \in Requests, NEW l, Goto(r, l),
               l \in Late \/ pc[r] \notin Late
        PROVE  installed \in Requests => pc'[installed] \in Late
    BY <1>1, <1>3, <1>5 DEF Goto, ProducersTypeOK
  <1>6. ASSUME NEW r \in Requests, Idles(r)
        PROVE  InstalledIsPending'
    <2>1. installed \in Requests => pc'[installed] \in Late
      <3>1. ASSUME NEW o, NEW m, Refuse(r, o, m) \/ Query(r, o) \/ AcceptJob(r, o)
            PROVE  installed \in Requests => pc'[installed] \in Late
        BY <1>5, <3>1 DEF Refuse, Query, AcceptJob, Arrives
      <3>2. CASE ReceiveResult(r) \/ WaitTimeout(r) \/ ReloadManager(r) \/ runDockerCLI(r)
        BY <1>2, <1>5, <3>2 DEF ReceiveResult, WaitTimeout, ReloadManager, runDockerCLI
      <3>3. CASE StoreVerdict(r) \/ RecordAges(r)
        BY <1>3, <1>5, <3>3 DEF StoreVerdict, RecordAges
      <3>4. QED
        BY <1>6, <3>1, <3>2, <3>3 DEF Idles
    <2>2. QED
      BY <1>4, <1>6, <2>1, IdlesKeep
  <1>7. ASSUME NEW r \in Requests, r # installed, pc[r] \notin Late, NEW l, Goto(r, l),
               NEW x, outcome' = [outcome EXCEPT ![r] = x], UNCHANGED installed
        PROVE  InstalledIsPending'
    <2>1. installed \in Requests => outcome'[installed] = outcome[installed]
      BY <1>1, <1>7 DEF ProducersTypeOK
    <2>2. QED
      BY <1>4, <1>5, <1>7, <2>1
  <1>8. \A r \in Requests : pc[r] \in {"idle", "call", "run"} => r # installed /\ pc[r] \notin Late
    BY <1>3
  <1>9. ASSUME NEW r \in Requests, NEW o, RemoveImage(r, o)
        PROVE  InstalledIsPending'
    BY <1>7, <1>8, <1>9 DEF RemoveImage, Arrives, busVars
  <1>10. ASSUME NEW r \in Requests, EnableUnit(r) \/ CallContainer(r) \/ StartCommand(r)
         PROVE  InstalledIsPending'
    BY <1>2, <1>7, <1>8, <1>10 DEF EnableUnit, CallContainer, StartCommand, busVars
  <1>11. ASSUME NEW r \in Requests, CommandEnds(r) \/ KillCommand(r)
         PROVE  InstalledIsPending'
    <2>1. r # installed /\ UNCHANGED <<pc, installed>>
      BY <1>8, <1>11 DEF CommandEnds, KillCommand, busVars
    <2>2. installed \in Requests => outcome'[installed] = outcome[installed]
      BY <1>1, <1>11, <2>1 DEF CommandEnds, KillCommand, ProducersTypeOK
    <2>3. QED
      BY <1>3, <1>4, <2>1, <2>2
  <1>12. ASSUME NEW r \in Requests, StartUnit(r) \/ StartUnitFails(r)
         PROVE  InstalledIsPending'
    <2>1. PICK l \in {"wait", "store"} : Goto(r, l)
      BY <1>2, <1>12 DEF StartUnit, StartUnitFails
    <2>2. pc[r] = "call" /\ pc'[r] = l
      BY <1>1, <1>12, <2>1 DEF StartUnit, StartUnitFails, Goto, ProducersTypeOK
    <2>3. CASE Install(r)
      BY <1>1, <2>1, <2>2, <2>3, InstallStands DEF InstalledIsPending
    <2>4. CASE UNCHANGED <<installed, outcome>>
      BY <1>4, <1>5, <2>1, <2>4
    <2>5. QED
      BY <1>12, <2>3, <2>4 DEF StartUnit, StartUnitFails
  <1>13. UnitJobEnds => InstalledIsPending'
    BY DEF UnitJobEnds, InstalledIsPending
  <1>14. ASSUME Dispatch \/ evict \/ UNCHANGED producersVars
         PROVE  InstalledIsPending'
    BY <1>3, <1>4, <1>14 DEF Dispatch, evict, producersVars, busVars
  <1>15. QED
    BY <1>6, <1>9, <1>10, <1>11, <1>12, <1>13, <1>14, Steps

(* Only an ended unit's job is signalled, and its result stands.           *)
LEMMA SignalsKept ==
    ASSUME ProducerInv, ProducersNext
    PROVE  SignalsTellEnds'
  <1>1. ProducersTypeOK /\ UntouchedYet /\ InstalledIsPending /\ SignalsTellEnds
    BY DEF ProducerInv
  <1>2. \A w \in Requests : outcome[w] \in Ended => outcome'[w] \in Ended
    BY ResultsStand
  <1>3. \A i \in DOMAIN signals : signals[i] \in Requests /\ outcome'[signals[i]] \in Ended
    <2>1. \A i \in DOMAIN signals : signals[i] \in Requests
      BY <1>1, ElementOfSeq DEF ProducersTypeOK
    <2>2. QED
      BY <1>1, <1>2, <2>1 DEF SignalsTellEnds
  <1>4. UNCHANGED signals => SignalsTellEnds'
    BY <1>3 DEF SignalsTellEnds
  <1>5. ASSUME NEW w \in Requests, outcome'[w] \in Ended, signals' = Append(signals, w)
        PROVE  SignalsTellEnds'
    <2>1. SUFFICES ASSUME NEW i \in DOMAIN signals'
                   PROVE  outcome'[signals'[i]] \in Ended
      BY DEF SignalsTellEnds
    <2>2. signals \in Seq(Requests)
      BY <1>1 DEF ProducersTypeOK
    <2>3. /\ DOMAIN signals' = 1..(Len(signals) + 1)
          /\ signals'[Len(signals) + 1] = w
          /\ \A k \in 1..Len(signals) : signals'[k] = signals[k]
      BY <1>5, <2>2, AppendProperties, LenProperties
    <2>4. DOMAIN signals = 1..Len(signals) /\ Len(signals) \in Nat
      BY <2>2, LenProperties
    <2>5. i = Len(signals) + 1 \/ i \in 1..Len(signals)
      BY <2>1, <2>3, <2>4
    <2>6. QED
      BY <1>3, <1>5, <2>3, <2>4, <2>5
  <1>6. ASSUME NEW r \in Requests, pc[r] = "call", Install(r)
        PROVE  SignalsTellEnds'
    <2>1. CASE installed = None
      BY <1>4, <1>6, <2>1 DEF Install
    <2>2. CASE installed # None
      <3>1. installed \in Requests
        BY <1>1, <2>2 DEF ProducersTypeOK
      <3>2. outcome'[installed] \in Ended
        BY <1>1, <1>6, <3>1, InstallStands, Values
      <3>3. signals' = Append(signals, installed)
        BY <1>6, <2>2 DEF Install
      <3>4. QED
        BY <1>5, <3>1, <3>2, <3>3
    <2>3. QED
      BY <2>1, <2>2
  <1>7. ASSUME UnitJobEnds
        PROVE  SignalsTellEnds'
    <2>1. installed \in Requests /\ signals' = Append(signals, installed)
      BY <1>1, <1>7 DEF UnitJobEnds, ProducersTypeOK
    <2>2. outcome'[installed] \in Ended
      BY <1>1, <1>7, <2>1, Values DEF UnitJobEnds, ProducersTypeOK
    <2>3. QED
      BY <1>5, <2>1, <2>2
  <1>8. ASSUME Dispatch
        PROVE  SignalsTellEnds'
    <2>1. signals \in Seq(Requests) /\ signals # <<>> /\ signals' = Tail(signals)
      BY <1>1, <1>8 DEF Dispatch, ProducersTypeOK
    <2>2. \A i \in DOMAIN signals' : i + 1 \in DOMAIN signals /\ signals'[i] = signals[i + 1]
      BY <2>1, HeadTailProperties, LenProperties
    <2>3. QED
      BY <1>3, <2>2 DEF SignalsTellEnds
  <1>9. ASSUME NEW r \in Requests, StartUnit(r) \/ StartUnitFails(r)
        PROVE  SignalsTellEnds'
    <2>1. pc[r] = "call" /\ (UNCHANGED signals \/ Install(r))
      BY <1>9 DEF StartUnit, StartUnitFails
    <2>2. QED
      BY <1>4, <1>6, <2>1
  <1>10. ASSUME NEW r \in Requests, NEW o, RemoveImage(r, o)
         PROVE  UNCHANGED signals
    BY <1>10 DEF RemoveImage, busVars
  <1>11. ASSUME NEW r \in Requests, EnableUnit(r) \/ CallContainer(r) \/ StartCommand(r)
         PROVE  UNCHANGED signals
    BY <1>11 DEF EnableUnit, CallContainer, StartCommand, busVars
  <1>12. ASSUME NEW r \in Requests, CommandEnds(r) \/ KillCommand(r)
         PROVE  UNCHANGED signals
    BY <1>12 DEF CommandEnds, KillCommand, busVars
  <1>13. evict \/ UNCHANGED producersVars => UNCHANGED signals
    BY DEF evict, producersVars, busVars
  <1>14. QED
    BY <1>4, <1>7, <1>8, <1>9, <1>10, <1>11, <1>12, <1>13, Steps, IdlesKeep

-----------------------------------------------------------------------------
(* The bus: who holds the channel of whom.                                 *)
LEMMA BusSteps ==
    ASSUME ProducersNext
    PROVE  \/ UNCHANGED <<listener, ch>>
           \/ \E r \in Requests : ReceiveResult(r) \/ StartUnit(r)
           \/ Dispatch
  <1>1. ASSUME NEW r \in Requests, Idles(r)
        PROVE  UNCHANGED <<listener, ch>> \/ ReceiveResult(r)
    BY <1>1 DEF Idles, Refuse, Query, AcceptJob, WaitTimeout, ReloadManager, runDockerCLI,
       StoreVerdict, RecordAges, busVars
  <1>2. ASSUME NEW r \in Requests, NEW o, RemoveImage(r, o)
        PROVE  UNCHANGED <<listener, ch>>
    BY <1>2 DEF RemoveImage, busVars
  <1>3. ASSUME NEW r \in Requests, EnableUnit(r) \/ CallContainer(r) \/ StartCommand(r)
        PROVE  UNCHANGED <<listener, ch>>
    BY <1>3 DEF EnableUnit, CallContainer, StartCommand, busVars
  <1>4. ASSUME NEW r \in Requests, CommandEnds(r) \/ KillCommand(r) \/ StartUnitFails(r)
        PROVE  UNCHANGED <<listener, ch>>
    BY <1>4 DEF CommandEnds, KillCommand, StartUnitFails, busVars
  <1>5. UnitJobEnds \/ evict \/ UNCHANGED producersVars => UNCHANGED <<listener, ch>>
    BY DEF UnitJobEnds, evict, producersVars, busVars
  <1>6. QED
    BY <1>1, <1>2, <1>3, <1>4, <1>5, Steps

(* What the dispatcher does with the oldest signal.                        *)
LEMMA DispatchEffect ==
    ASSUME ProducerInv, Dispatch
    PROVE  \E w \in Requests :
                /\ outcome[w] \in Ended
                /\ listener' = [listener EXCEPT ![w] = None]
                /\ \/ listener[w] = None /\ UNCHANGED ch
                   \/ /\ listener[w] \in Requests
                      /\ work[listener[w]] = w
                      /\ ch' = [ch EXCEPT ![listener[w]] = <<outcome[w]>>]
  <1>1. ProducersTypeOK /\ SignalsTellEnds /\ ListenersEmpty
    BY DEF ProducerInv
  <1> DEFINE w == Head(signals)
  <1>2. signals \in Seq(Requests) /\ signals # <<>>
    BY <1>1 DEF Dispatch, ProducersTypeOK
  <1>3. w \in Requests
    BY <1>2, HeadTailProperties
  <1>4. 1 \in DOMAIN signals /\ w = signals[1]
    BY <1>2, LenProperties
  <1>5. outcome[w] \in Ended
    BY <1>1, <1>4 DEF SignalsTellEnds
  <1>6. /\ listener' = [listener EXCEPT ![w] = None]
        /\ ch' = IF listener[w] = None THEN ch
                 ELSE [ch EXCEPT ![listener[w]] = Append(ch[listener[w]], outcome[w])]
    BY DEF Dispatch
  <1> HIDE DEF w
  <1>7. CASE listener[w] = None
    BY <1>3, <1>5, <1>6, <1>7
  <1>8. CASE listener[w] # None
    <2>1. listener[w] \in Requests
      BY <1>1, <1>3, <1>8 DEF ProducersTypeOK
    <2>2. work[listener[w]] = w /\ ch[listener[w]] = <<>>
      BY <1>1, <1>3, <2>1 DEF ListenersEmpty
    <2>3. Append(ch[listener[w]], outcome[w]) = <<outcome[w]>>
      BY <2>2
    <2>4. QED
      BY <1>3, <1>5, <1>6, <1>8, <2>1, <2>2, <2>3
  <1>9. QED
    BY <1>7, <1>8

(* A received result leaves the channel empty.                             *)
LEMMA ReceiveEffect ==
    ASSUME ProducerInv, NEW r \in Requests, ReceiveResult(r)
    PROVE  /\ work[r] \in Requests /\ outcome[work[r]] \in Ended
           /\ ch[r] = <<outcome[work[r]]>>
           /\ ch' = [ch EXCEPT ![r] = <<>>]
           /\ UNCHANGED <<listener, work, outcome>>
           /\ Conclude(r, UnitVerdict(outcome[work[r]]))
  <1>1. /\ work[r] \in Requests /\ outcome[work[r]] \in Ended
        /\ ch[r] = <<outcome[work[r]]>>
    BY DEF ProducerInv, ChannelsTrue, ReceiveResult
  <1>2. Head(ch[r]) = outcome[work[r]] /\ Tail(ch[r]) = <<>>
    BY <1>1
  <1>3. QED
    BY <1>1, <1>2 DEF ReceiveResult

(* A call that registers its channel finds it empty and unregistered.      *)
LEMMA StartUnitEffect ==
    ASSUME ProducerInv, NEW r \in Requests, StartUnit(r)
    PROVE  /\ ch[r] = <<>> /\ UNCHANGED ch
           /\ \A w \in Requests : listener[w] # r
           /\ \E w \in Requests : /\ work' = [work EXCEPT ![r] = w]
                                  /\ listener' = [listener EXCEPT ![w] = r]
  <1>1. ProducersTypeOK /\ UntouchedYet /\ ListenersEmpty /\ ChannelsTrue
    BY DEF ProducerInv
  <1>2. work[r] = None
    BY <1>1 DEF StartUnit, UntouchedYet
  <1>3. ch[r] = <<>>
    BY <1>1, <1>2, Values DEF ChannelsTrue
  <1>4. \A w \in Requests : listener[w] # r
    BY <1>1, <1>2, Values DEF ListenersEmpty
  <1>5. Joins(r) => installed \in Requests
    BY <1>1 DEF Joins, ProducersTypeOK
  <1>6. QED
    BY <1>3, <1>4, <1>5 DEF StartUnit

(* A registered channel is empty, and its owner waits for that very job.   *)
LEMMA ListenersKept ==
    ASSUME ProducerInv, ProducersNext
    PROVE  ListenersEmpty'
  <1> SUFFICES ASSUME NEW w \in Requests, NEW r \in Requests, listener'[w] = r
               PROVE  work'[r] = w /\ ch'[r] = <<>>
    BY DEF ListenersEmpty
  <1>1. ProducersTypeOK /\ ListenersEmpty
    BY DEF ProducerInv
  <1>2. listener[w] = r => work'[r] = w /\ work[r] = w /\ ch[r] = <<>>
    BY <1>1, ResultsStand, Values DEF ListenersEmpty
  <1>3. /\ listener \in [Requests -> Requests \cup {None}] /\ ch \in [Requests -> Seq(Ended)]
        /\ work \in [Requests -> Requests \cup {None}]
    BY <1>1 DEF ProducersTypeOK
  <1>4. CASE UNCHANGED <<listener, ch>>
    BY <1>2, <1>4
  <1>5. ASSUME NEW q \in Requests, ReceiveResult(q)
        PROVE  work'[r] = w /\ ch'[r] = <<>>
    <2>1. ch' = [ch EXCEPT ![q] = <<>>] /\ listener' = listener
      BY <1>5, ReceiveEffect
    <2>2. QED
      BY <1>2, <1>3, <2>1
  <1>6. ASSUME NEW q \in Requests, StartUnit(q)
        PROVE  work'[r] = w /\ ch'[r] = <<>>
    <2>1. PICK v \in Requests : /\ work' = [work EXCEPT ![q] = v]
                                /\ listener' = [listener EXCEPT ![v] = q]
      BY <1>6, StartUnitEffect
    <2>2. ch[q] = <<>> /\ ch' = ch /\ listener[w] # q
      BY <1>6, StartUnitEffect
    <2>3. CASE w = v
      BY <1>3, <2>1, <2>2, <2>3
    <2>4. CASE w # v
      BY <1>2, <1>3, <2>1, <2>2, <2>4
    <2>5. QED
      BY <2>3, <2>4
  <1>7. CASE Dispatch
    <2>1. PICK v \in Requests :
                /\ listener' = [listener EXCEPT ![v] = None]
                /\ \/ listener[v] = None /\ UNCHANGED ch
                   \/ /\ listener[v] \in Requests
                      /\ work[listener[v]] = v
                      /\ ch' = [ch EXCEPT ![listener[v]] = <<outcome[v]>>]
      BY <1>7, DispatchEffect
    <2>2. w # v /\ listener[w] = r
      BY <1>3, <2>1, Values
    <2>3. listener[v] # r
      BY <1>2, <2>1, <2>2, Values
    <2>4. ch'[r] = ch[r]
      BY <1>3, <2>1, <2>3
    <2>5. QED
      BY <1>2, <2>2, <2>4
  <1>8. QED
    BY <1>4, <1>5, <1>6, <1>7, BusSteps

(* What is in a channel is the result of the work of the one that reads it.*)
LEMMA ChannelsKept ==
    ASSUME ProducerInv, ProducersNext
    PROVE  ChannelsTrue'
  <1> SUFFICES ASSUME NEW r \in Requests, ch'[r] # <<>>
               PROVE  /\ work'[r] \in Requests /\ outcome'[work'[r]] \in Ended
                      /\ ch'[r] = <<outcome'[work'[r]]>>
    BY DEF ChannelsTrue
  <1>1. ProducersTypeOK /\ ChannelsTrue
    BY DEF ProducerInv
  <1>2. ASSUME ch'[r] = ch[r]
        PROVE  /\ work'[r] \in Requests /\ outcome'[work'[r]] \in Ended
               /\ ch'[r] = <<outcome'[work'[r]]>>
    <2>1. work[r] \in Requests /\ outcome[work[r]] \in Ended /\ ch[r] = <<outcome[work[r]]>>
      BY <1>1, <1>2 DEF ChannelsTrue
    <2>2. work'[r] = work[r] /\ outcome'[work[r]] = outcome[work[r]]
      BY <2>1, ResultsStand, Values
    <2>3. QED
      BY <1>2, <2>1, <2>2
  <1>3. ch \in [Requests -> Seq(Ended)]
    BY <1>1 DEF ProducersTypeOK
  <1>4. ASSUME NEW q \in Requests, ReceiveResult(q)
        PROVE  ch'[r] = ch[r]
    <2>1. ch' = [ch EXCEPT ![q] = <<>>]
      BY <1>4, ReceiveEffect
    <2>2. QED
      BY <1>3, <2>1
  <1>5. ASSUME NEW q \in Requests, StartUnit(q)
        PROVE  ch'[r] = ch[r]
    BY <1>5, StartUnitEffect
  <1>6. CASE Dispatch
    <2>1. PICK v \in Requests :
                /\ outcome[v] \in Ended
                /\ \/ listener[v] = None /\ UNCHANGED ch
                   \/ /\ listener[v] \in Requests
                      /\ work[listener[v]] = v
                      /\ ch' = [ch EXCEPT ![listener[v]] = <<outcome[v]>>]
      BY <1>6, DispatchEffect
    <2>2. CASE ch'[r] = ch[r]
      BY <1>2, <2>2
    <2>3. CASE ch'[r] # ch[r]
      <3>1. work[r] = v /\ ch'[r] = <<outcome[v]>>
        BY <1>3, <2>1, <2>3
      <3>2. UNCHANGED <<work, outcome>>
        BY <1>6 DEF Dispatch
      <3>3. QED
        BY <2>1, <3>1, <3>2
    <2>4. QED
      BY <2>2, <2>3
  <1>7. QED
    BY <1>2, <1>4, <1>5, <1>6, BusSteps

-----------------------------------------------------------------------------
(* The goroutines.                                                         *)
LEMMA Moves ==
    ASSUME ProducersTypeOK, NEW r \in Requests
    PROVE  /\ \A l : Goto(r, l) => pc'[r] = l /\ \A q \in Requests \ {r} : pc'[q] = pc[q]
           /\ \A v : Conclude(r, v) => /\ Goto(r, "store")
                                       /\ verdict'[r] = v
                                       /\ \A q \in Requests \ {r} : verdict'[q] = verdict[q]
  BY DEF ProducersTypeOK, Goto, Conclude

(* Enabling a unit and docker commands are the goroutine's own work, which *)
(* neither systemd nor another goroutine ends.                             *)
LEMMA OwnKept ==
    ASSUME ProducerInv, ProducersNext
    PROVE  OwnWork'
  <1> SUFFICES ASSUME NEW q \in Requests
               PROVE  /\ pc'[q] = "reload" => work'[q] = q /\ outcome'[q] = "done"
                      /\ pc'[q] = "run" => /\ work'[q] = q
                                           /\ outcome'[q] \in {"pending", "done", "failed"}
    BY DEF OwnWork
  <1> DEFINE Goal == /\ pc'[q] = "reload" => work'[q] = q /\ outcome'[q] = "done"
                     /\ pc'[q] = "run" => /\ work'[q] = q
                                          /\ outcome'[q] \in {"pending", "done", "failed"}
  <1>1. ProducersTypeOK /\ OwnWork /\ InstalledIsPending /\ UntouchedYet
    BY DEF ProducerInv
  <1>2. ASSUME pc'[q] \in {"reload", "run"} =>
                    pc'[q] = pc[q] /\ work'[q] = work[q] /\ outcome'[q] = outcome[q]
        PROVE  Goal
    BY <1>1, <1>2 DEF OwnWork
  <1>3. pc[q] \in {"reload", "run"} => work[q] # None
    BY <1>1, Values DEF OwnWork
  <1>4. pc[q] \in {"reload", "run"} => work'[q] = work[q] /\ q # installed
    BY <1>1, <1>3, ResultsStand, Values DEF InstalledIsPending
  <1>5. ASSUME NEW r \in Requests, NEW l, Goto(r, l), l \notin {"reload", "run"},
               q # r => outcome'[q] = outcome[q] \/ pc[q] \notin {"reload", "run"}
        PROVE  Goal
    <2>1. pc'[q] \in {"reload", "run"} => q # r /\ pc'[q] = pc[q]
      BY <1>1, <1>5, Moves
    <2>2. QED
      BY <1>2, <1>4, <1>5, <2>1
  <1>6. ASSUME NEW r \in Requests, Idles(r)
        PROVE  Goal
    <2>1. UNCHANGED outcome
      BY <1>6, IdlesKeep
    <2>2. ASSUME NEW o, NEW m, Refuse(r, o, m) \/ Query(r, o) \/ AcceptJob(r, o)
          PROVE  Goal
      <3>1. Goto(r, "done") \/ Goto(r, "call")
        BY <2>2 DEF Refuse, Query, AcceptJob
      <3>2. QED
        BY <1>5, <2>1, <3>1
    <2>3. CASE ReceiveResult(r) \/ WaitTimeout(r) \/ ReloadManager(r) \/ runDockerCLI(r)
      <3>1. Goto(r, "store")
        BY <1>1, <2>3, Moves DEF ReceiveResult, WaitTimeout, ReloadManager, runDockerCLI
      <3>2. QED
        BY <1>5, <2>1, <3>1
    <2>4. CASE StoreVerdict(r)
      <3>1. Goto(r, "done")
        BY <2>4 DEF StoreVerdict
      <3>2. QED
        BY <1>5, <2>1, <3>1
    <2>5. CASE RecordAges(r)
      BY <1>2, <1>4, <2>1, <2>5 DEF RecordAges
    <2>6. QED
      <3> HIDE DEF Goal
      <3>1. QED
        BY <1>6, <2>2, <2>3, <2>4, <2>5 DEF Idles
  <1>7. ASSUME NEW r \in Requests, NEW x, outcome' = [outcome EXCEPT ![r] = x], q # r
        PROVE  outcome'[q] = outcome[q]
    BY <1>1, <1>7 DEF ProducersTypeOK
  <1>8. ASSUME NEW r \in Requests, NEW o, RemoveImage(r, o)
        PROVE  Goal
    <2>1. Goto(r, "done") /\ \E x : outcome' = [outcome EXCEPT ![r] = x]
      BY <1>8 DEF RemoveImage
    <2>2. QED
      BY <1>5, <1>7, <2>1
  <1>9. ASSUME NEW r \in Requests, CallContainer(r)
        PROVE  Goal
    <2>1. Goto(r, "store") /\ \E x : outcome' = [outcome EXCEPT ![r] = x]
      BY <1>1, <1>9, Moves DEF CallContainer
    <2>2. QED
      BY <1>5, <1>7, <2>1
  <1>10. ASSUME NEW r \in Requests, EnableUnit(r)
         PROVE  Goal
    <2>1. PICK how \in {"done", "failed"}, lost \in BOOLEAN :
              /\ outcome' = [outcome EXCEPT ![r] = how]
              /\ IF how = "done" /\ ~lost
                 THEN Goto(r, "reload") /\ UNCHANGED verdict
                 ELSE Conclude(r, "failed")
      BY <1>10 DEF EnableUnit
    <2>2. CASE how = "done" /\ ~lost
      <3>1. Goto(r, "reload")
        BY <2>1, <2>2
      <3>2. CASE q = r
        <4>1. pc'[q] = "reload"
          BY <1>1, <3>1, <3>2, Moves
        <4>2. work'[q] = q /\ outcome'[q] = "done"
          BY <1>1, <1>10, <2>1, <2>2, <3>2 DEF EnableUnit, ProducersTypeOK
        <4>3. QED
          BY <4>1, <4>2
      <3>3. CASE q # r
        <4>1. pc'[q] = pc[q] /\ outcome'[q] = outcome[q]
          BY <1>1, <1>7, <2>1, <3>1, <3>3, Moves
        <4>2. QED
          BY <1>2, <1>4, <4>1
      <3>4. QED
        BY <3>2, <3>3
    <2>3. CASE ~(how = "done" /\ ~lost)
      <3>1. Goto(r, "store")
        BY <1>1, <2>1, <2>3, Moves
      <3>2. QED
        BY <1>5, <1>7, <2>1, <3>1
    <2>4. QED
      BY <2>2, <2>3
  <1>11. ASSUME NEW r \in Requests, StartCommand(r)
         PROVE  Goal
    <2>1. Goto(r, "run") /\ outcome' = [outcome EXCEPT ![r] = "pending"]
      BY <1>11 DEF StartCommand
    <2>2. CASE q = r
      <3>1. pc'[q] = "run"
        BY <1>1, <2>1, <2>2, Moves
      <3>2. work'[q] = q /\ outcome'[q] = "pending"
        BY <1>1, <1>11, <2>1, <2>2 DEF StartCommand, ProducersTypeOK
      <3>3. QED
        BY <3>1, <3>2
    <2>3. CASE q # r
      <3>1. pc'[q] = pc[q] /\ outcome'[q] = outcome[q]
        BY <1>1, <1>7, <2>1, <2>3, Moves
      <3>2. QED
        BY <1>2, <1>4, <3>1
    <2>4. QED
      BY <2>2, <2>3
  <1>12. ASSUME NEW r \in Requests, CommandEnds(r) \/ KillCommand(r)
         PROVE  Goal
    <2>1. PICK how \in {"pending", "done", "failed"} : outcome' = [outcome EXCEPT ![r] = how]
      BY <1>12 DEF CommandEnds, KillCommand
    <2>2. pc[r] = "run" /\ UNCHANGED <<pc, work>>
      BY <1>12 DEF CommandEnds, KillCommand
    <2>3. CASE q = r
      <3>1. outcome'[q] = how /\ work'[q] = q
        BY <1>1, <2>1, <2>2, <2>3 DEF OwnWork, ProducersTypeOK
      <3>2. QED
        BY <2>2, <2>3, <3>1
    <2>4. CASE q # r
      BY <1>2, <1>7, <2>1, <2>2, <2>4
    <2>5. QED
      BY <2>3, <2>4
  <1>13. ASSUME NEW r \in Requests, StartUnit(r) \/ StartUnitFails(r)
         PROVE  Goal
    <2>1. (Goto(r, "wait") \/ Goto(r, "store")) /\ pc[r] = "call"
      BY <1>1, <1>13, Moves DEF StartUnit, StartUnitFails
    <2>2. q # r /\ q # installed => outcome'[q] = outcome[q]
      <3>1. UNCHANGED outcome \/ Install(r)
        BY <1>13 DEF StartUnit, StartUnitFails
      <3>2. QED
        BY <1>1, <2>1, <3>1, InstallStands
    <2>3. QED
      BY <1>4, <1>5, <2>1, <2>2
  <1>14. ASSUME UnitJobEnds
         PROVE  Goal
    <2>1. installed \in Requests /\ UNCHANGED <<pc, work>>
      BY <1>1, <1>14 DEF UnitJobEnds, ProducersTypeOK
    <2>2. q # installed => outcome'[q] = outcome[q]
      BY <1>7, <1>14, <2>1 DEF UnitJobEnds
    <2>3. QED
      BY <1>2, <1>4, <2>1, <2>2
  <1>15. ASSUME Dispatch \/ evict \/ UNCHANGED producersVars
         PROVE  Goal
    <2>1. UNCHANGED <<pc, work, outcome>>
      BY <1>15 DEF Dispatch, evict, producersVars
    <2>2. QED
      BY <1>2, <2>1
  <1>16. Goal
    <2> HIDE DEF Goal
    <2>1. QED
      BY <1>6, <1>8, <1>9, <1>10, <1>11, <1>12, <1>13, <1>14, <1>15, Steps
  <1>17. QED
    BY <1>16

-----------------------------------------------------------------------------
(* The steps, sorted by what they do to requests and records.              *)
Live == {"call", "wait", "reload", "run"}

Earned(r) == work[r] \in Requests /\ outcome[work[r]] \in Success

Arrival(r) ==
    /\ pc[r] = "idle"
    /\ UNCHANGED <<verdict, aged>>
    /\ \/ Goto(r, "call") /\ Answer(r, 202) /\ record' = [record EXCEPT ![r] = "accepted"]
       \/ Goto(r, "done") /\ UNCHANGED record /\ \E c \in Codes \ {202} : Answer(r, c)

Advance(r) ==
    /\ pc[r] \in Live
    /\ \E l \in Live : Goto(r, l)
    /\ UNCHANGED <<verdict, code, record, aged>>

Conclusion(r) ==
    /\ pc[r] \in Live
    /\ \E v \in {"completed", "failed"} : Conclude(r, v) /\ (v = "completed" => Earned(r)')
    /\ UNCHANGED <<code, record, aged>>

(* A request is accepted with 202 and a record, or answered otherwise.     *)
LEMMA ArrivalSteps ==
    ASSUME NEW r \in Requests, Request(r)
    PROVE  Arrival(r)
  <1>1. PICK o \in Ops[r] : \/ \E m \in BOOLEAN : Refuse(r, o, m)
                            \/ Query(r, o) \/ RemoveImage(r, o) \/ AcceptJob(r, o)
    BY DEF Request
  <1>2. ASSUME NEW m \in BOOLEAN, Refuse(r, o, m)
        PROVE  Arrival(r)
    <2>1. FirstFailure(Route(o, m)) \in Codes \ {202}
      BY <1>2, RefusalType DEF Refuse, Refusals, Codes
    <2>2. Answer(r, FirstFailure(Route(o, m))) /\ Goto(r, "done")
      BY <1>2 DEF Refuse
    <2>3. pc[r] = "idle" /\ UNCHANGED <<verdict, aged, record>>
      BY <1>2 DEF Refuse, Arrives, storeVars
    <2>4. QED
      BY <2>1, <2>2, <2>3 DEF Arrival
  <1>3. CASE Query(r, o)
    <2>1. \E c \in Codes \ {202} : Answer(r, c)
      BY <1>3 DEF Query, Codes
    <2>2. QED
      BY <1>3, <2>1 DEF Query, Arrival, Arrives, storeVars
  <1>4. CASE RemoveImage(r, o)
    <2>1. \E c \in Codes \ {202} : Answer(r, c)
      BY <1>4 DEF RemoveImage, Codes
    <2>2. QED
      BY <1>4, <2>1 DEF RemoveImage, Arrival, Arrives, storeVars
  <1>5. CASE AcceptJob(r, o)
    BY <1>5 DEF AcceptJob, Arrival, Arrives
  <1>6. QED
    BY <1>1, <1>2, <1>3, <1>4, <1>5

(* A goroutine concludes "completed" on a result of its own work only.     *)
LEMMA ProducerSteps ==
    ASSUME ProducerInv, NEW r \in Requests, Producer(r)
    PROVE  Advance(r) \/ Conclusion(r) \/ StoreVerdict(r)
  <1>1. ProducersTypeOK /\ OwnWork
    BY DEF ProducerInv
  <1>2. ASSUME pc[r] \in Live, Conclude(r, "failed"), UNCHANGED <<code, storeVars>>
        PROVE  Conclusion(r)
    BY <1>2 DEF Conclusion, storeVars
  <1>3. CASE StartUnit(r)
    BY <1>3 DEF StartUnit, Advance, Live, storeVars
  <1>4. CASE StartUnitFails(r) \/ WaitTimeout(r)
    BY <1>2, <1>4 DEF StartUnitFails, WaitTimeout, Live
  <1>5. CASE ReceiveResult(r)
    <2>1. PICK v \in {"completed", "failed"} :
              /\ Conclude(r, v) /\ (v = "completed" => outcome[work[r]] \in Success)
              /\ work[r] \in Requests /\ UNCHANGED <<work, outcome>>
      BY <1>5, ReceiveEffect DEF UnitVerdict
    <2>2. v = "completed" => Earned(r)'
      BY <2>1 DEF Earned
    <2>3. QED
      BY <1>5, <2>1, <2>2 DEF ReceiveResult, Conclusion, Live, storeVars
  <1>6. CASE EnableUnit(r)
    BY <1>2, <1>6 DEF EnableUnit, Advance, Live, storeVars
  <1>7. CASE ReloadManager(r)
    <2>1. Earned(r)'
      BY <1>1, <1>7, Values DEF ReloadManager, OwnWork, Earned
    <2>2. QED
      BY <1>7, <2>1 DEF ReloadManager, Conclusion, Live, storeVars
  <1>8. CASE CallContainer(r)
    <2>1. PICK how \in {"done", "failed"}, lost \in BOOLEAN :
              /\ outcome' = [outcome EXCEPT ![r] = how]
              /\ Conclude(r, IF how = "done" /\ ~lost THEN "completed" ELSE "failed")
      BY <1>8 DEF CallContainer
    <2>2. work'[r] = r /\ outcome'[r] = how
      BY <1>1, <1>8, <2>1 DEF CallContainer, ProducersTypeOK
    <2>3. how = "done" => Earned(r)'
      BY <2>2, Values DEF Earned
    <2>4. QED
      BY <1>8, <2>1, <2>3 DEF CallContainer, Conclusion, Live, storeVars
  <1>9. CASE StartCommand(r)
    BY <1>9 DEF StartCommand, Advance, Live, storeVars
  <1>10. CASE runDockerCLI(r)
    <2>1. outcome[r] = "done" => Earned(r)'
      BY <1>1, <1>10, Values DEF runDockerCLI, OwnWork, Earned
    <2>2. QED
      BY <1>10, <2>1 DEF runDockerCLI, Conclusion, Live, storeVars
  <1>11. QED
    BY <1>3, <1>4, <1>5, <1>6, <1>7, <1>8, <1>9, <1>10 DEF Producer

(* Every step is one of those, an eviction, or leaves records alone.       *)
LEMMA ControlSteps ==
    ASSUME ProducerInv, ProducersNext
    PROVE  \/ \E r \in Requests : Arrival(r) \/ Advance(r) \/ Conclusion(r) \/ StoreVerdict(r)
                                  \/ RecordAges(r)
           \/ evict
           \/ UNCHANGED <<pc, code, verdict, record, aged>>
  <1>1. \A r \in Requests : CommandEnds(r) \/ KillCommand(r)
                                => UNCHANGED <<pc, code, verdict, record, aged>>
    BY DEF CommandEnds, KillCommand, storeVars
  <1>2. UnitJobEnds \/ Dispatch \/ AllServed => UNCHANGED <<pc, code, verdict, record, aged>>
    BY DEF UnitJobEnds, Dispatch, AllServed, producersVars, storeVars
  <1>3. QED
    BY <1>1, <1>2, ArrivalSteps, ProducerSteps DEF ProducersNext

(* A verdict on its way, or stored, is earned.                             *)
LEMMA EarnedKept ==
    ASSUME ProducerInv, ProducersNext
    PROVE  VerdictsEarned'
  <1> SUFFICES ASSUME NEW q \in Requests, record'[q] = "completed" \/ verdict'[q] = "completed"
               PROVE  Earned(q)'
    BY DEF VerdictsEarned, Earned
  <1>1. ProducersTypeOK /\ VerdictsEarned
    BY DEF ProducerInv
  <1>2. ASSUME record[q] = "completed" \/ verdict[q] = "completed"
        PROVE  Earned(q)'
    <2>1. work[q] \in Requests /\ outcome[work[q]] \in Success
      BY <1>1, <1>2 DEF VerdictsEarned
    <2>2. work'[q] = work[q] /\ outcome'[work[q]] = outcome[work[q]]
      BY <2>1, ResultsStand, Values
    <2>3. QED
      BY <2>1, <2>2 DEF Earned
  <1>3. ASSUME NEW r \in Requests, Arrival(r)
        PROVE  Earned(q)'
    BY <1>1, <1>2, <1>3 DEF Arrival, ProducersTypeOK
  <1>4. ASSUME NEW r \in Requests, Advance(r) \/ RecordAges(r)
        PROVE  Earned(q)'
    BY <1>2, <1>4 DEF Advance, RecordAges
  <1>5. ASSUME NEW r \in Requests, Conclusion(r)
        PROVE  Earned(q)'
    <2>1. PICK v \in {"completed", "failed"} : Conclude(r, v) /\ (v = "completed" => Earned(r)')
      BY <1>5 DEF Conclusion
    <2>2. record'[q] = record[q]
      BY <1>5 DEF Conclusion
    <2>3. CASE q = r
      <3>1. verdict'[q] = v
        BY <1>1, <2>1, <2>3, Moves
      <3>2. QED
        BY <1>2, <2>1, <2>2, <2>3, <3>1
    <2>4. CASE q # r
      <3>1. verdict'[q] = verdict[q]
        BY <1>1, <2>1, <2>4, Moves
      <3>2. QED
        BY <1>2, <2>2, <3>1
    <2>5. QED
      BY <2>3, <2>4
  <1>6. ASSUME NEW r \in Requests, StoreVerdict(r)
        PROVE  Earned(q)'
    BY <1>1, <1>2, <1>6, Values DEF StoreVerdict, ProducersTypeOK
  <1>7. CASE evict
    BY <1>2, <1>7, Values DEF evict
  <1>8. CASE UNCHANGED <<record, verdict>>
    BY <1>2, <1>8
  <1>9. QED
    BY <1>3, <1>4, <1>5, <1>6, <1>7, <1>8, ControlSteps

(* A goroutine that stores has a verdict; one that runs was answered 202.  *)
LEMMA ReadyKept ==
    ASSUME ProducerInv, ProducersNext
    PROVE  VerdictsReady' /\ AcceptedRun'
  <1> SUFFICES ASSUME NEW q \in Requests
               PROVE  /\ pc'[q] = "store" => verdict'[q] \in {"completed", "failed"}
                      /\ pc'[q] = "idle" => code'[q] = 0
                      /\ pc'[q] \in {"call", "wait", "reload", "run", "store"} => code'[q] = 202
    BY DEF VerdictsReady, AcceptedRun
  <1> DEFINE Goal == /\ pc'[q] = "store" => verdict'[q] \in {"completed", "failed"}
                     /\ pc'[q] = "idle" => code'[q] = 0
                     /\ pc'[q] \in {"call", "wait", "reload", "run", "store"} => code'[q] = 202
  <1>1. ProducersTypeOK /\ VerdictsReady /\ AcceptedRun
    BY DEF ProducerInv
  <1>2. ASSUME pc'[q] = pc[q], verdict'[q] = verdict[q], code'[q] = code[q]
        PROVE  Goal
    BY <1>1, <1>2 DEF VerdictsReady, AcceptedRun
  <1>3. ASSUME NEW r \in Requests, NEW l, Goto(r, l), q # r,
               verdict'[q] = verdict[q], code'[q] = code[q]
        PROVE  Goal
    BY <1>1, <1>2, <1>3, Moves
  <1>4. ASSUME NEW r \in Requests, Arrival(r)
        PROVE  Goal
    <2>1. PICK l \in {"call", "done"}, c \in Codes :
              Goto(r, l) /\ Answer(r, c) /\ (l = "call" => c = 202)
      BY <1>4 DEF Arrival, Codes
    <2>2. CASE q = r
      <3>1. pc'[q] = l /\ code'[q] = c
        BY <1>1, <2>1, <2>2, Moves DEF Answer, ProducersTypeOK
      <3>2. QED
        BY <2>1, <3>1
    <2>3. CASE q # r
      <3>1. verdict'[q] = verdict[q] /\ code'[q] = code[q]
        BY <1>1, <1>4, <2>1, <2>3 DEF Arrival, Answer, ProducersTypeOK
      <3>2. QED
        BY <1>3, <2>1, <2>3, <3>1
    <2>4. QED
      BY <2>2, <2>3
  <1>5. ASSUME NEW r \in Requests, Advance(r)
        PROVE  Goal
    <2>1. PICK l \in Live : Goto(r, l)
      BY <1>5 DEF Advance
    <2>2. verdict' = verdict /\ code' = code
      BY <1>5 DEF Advance
    <2>3. CASE q = r
      <3>1. pc'[q] = l /\ code[q] = 202
        BY <1>1, <1>5, <2>1, <2>3, Moves DEF Advance, AcceptedRun, Live
      <3>2. QED
        BY <2>2, <3>1 DEF Live
    <2>4. QED
      BY <1>3, <2>1, <2>2, <2>3
  <1>6. ASSUME NEW r \in Requests, Conclusion(r)
        PROVE  Goal
    <2>1. PICK v \in {"completed", "failed"} : Conclude(r, v)
      BY <1>6 DEF Conclusion
    <2>2. code' = code
      BY <1>6 DEF Conclusion
    <2>3. Goto(r, "store") /\ verdict'[r] = v /\ (q # r => verdict'[q] = verdict[q])
      BY <1>1, <2>1, Moves
    <2>4. CASE q = r
      <3>1. pc'[q] = "store" /\ code[q] = 202
        BY <1>1, <1>6, <2>3, <2>4, Moves DEF Conclusion, AcceptedRun, Live
      <3>2. QED
        BY <2>2, <2>3, <2>4, <3>1
    <2>5. QED
      BY <1>3, <2>2, <2>3, <2>4
  <1>7. ASSUME NEW r \in Requests, StoreVerdict(r)
        PROVE  Goal
    <2>1. Goto(r, "done") /\ code' = code /\ (q # r => verdict'[q] = verdict[q])
      BY <1>1, <1>7 DEF StoreVerdict, ProducersTypeOK
    <2>2. CASE q = r
      <3>1. pc'[q] = "done"
        BY <1>1, <2>1, <2>2, Moves
      <3>2. QED
        BY <3>1
    <2>3. QED
      BY <1>3, <2>1, <2>2
  <1>8. ASSUME NEW r \in Requests, RecordAges(r)
        PROVE  Goal
    BY <1>2, <1>8 DEF RecordAges
  <1>9. ASSUME evict
        PROVE  Goal
    BY <1>2, <1>9 DEF evict
  <1>10. ASSUME UNCHANGED <<pc, code, verdict>>
         PROVE  Goal
    BY <1>2, <1>10
  <1>11. Goal
    <2> HIDE DEF Goal
    <2>1. QED
      BY <1>4, <1>5, <1>6, <1>7, <1>8, <1>9, <1>10, ControlSteps
  <1>12. QED
    BY <1>11

-----------------------------------------------------------------------------
(* Before the first request nothing is there.                              *)
LEMMA ProducersInitInv == ProducersInit => ProducerInv
  <1> SUFFICES ASSUME ProducersInit
               PROVE  ProducerInv
    OBVIOUS
  <1>1. ProducersTypeOK
    <2>1. ch \in [Requests -> Seq(Ended)] /\ signals \in Seq(Requests)
      BY DEF ProducersInit
    <2>2. agings \in 0..MaxAgings
      BY ProducersAssumption DEF ProducersInit
    <2>3. aged \in [Requests -> BOOLEAN] /\ killed \in [Requests -> BOOLEAN]
      BY DEF ProducersInit
    <2>4. QED
      BY <2>1, <2>2, <2>3 DEF ProducersInit, ProducersTypeOK, Codes
  <1>2. UntouchedYet /\ InstalledIsPending /\ SignalsTellEnds
    BY DEF ProducersInit, UntouchedYet, InstalledIsPending, SignalsTellEnds
  <1>3. ListenersEmpty /\ ChannelsTrue
    BY Values DEF ProducersInit, ListenersEmpty, ChannelsTrue
  <1>4. OwnWork /\ VerdictsEarned /\ VerdictsReady /\ AcceptedRun
    BY Values DEF ProducersInit, OwnWork, VerdictsEarned, VerdictsReady, AcceptedRun
  <1>5. QED
    BY <1>1, <1>2, <1>3, <1>4 DEF ProducerInv

(* A step that changes nothing keeps the invariant.                        *)
LEMMA StutterInv == ProducerInv /\ UNCHANGED producersVars => ProducerInv'
  BY DEF ProducerInv, producersVars, ProducersTypeOK, UntouchedYet, InstalledIsPending, SignalsTellEnds,
     ListenersEmpty, ChannelsTrue, OwnWork, VerdictsEarned, VerdictsReady, AcceptedRun

(* The inductive invariant of the producers, whatever systemd, the Docker  *)
(* daemon and the timeouts do, and in whatever order.                      *)
THEOREM ProducerInvariant == ProducersSpec => []ProducerInv
  <1>1. ProducerInv /\ [ProducersNext]_producersVars => ProducerInv'
    <2> SUFFICES ASSUME ProducerInv, [ProducersNext]_producersVars
                 PROVE  ProducerInv'
      OBVIOUS
    <2>1. CASE ProducersNext
      BY <2>1, NextTypes, UntouchedWorkKept, InstalledKept, SignalsKept, ListenersKept, ChannelsKept,
         OwnKept, EarnedKept, ReadyKept DEF ProducerInv
    <2>2. CASE UNCHANGED producersVars
      BY <2>2, StutterInv
    <2>3. QED
      BY <2>1, <2>2
  <1>2. QED
    BY ProducersInitInv, <1>1, PTL DEF ProducersSpec

(* Type correctness of the requests, their goroutines, systemd's jobs and  *)
(* the records.                                                            *)
THEOREM ProducerTypeCorrect == ProducersSpec => []ProducersTypeOK
  <1>1. ProducerInv => ProducersTypeOK
    BY DEF ProducerInv
  <1>2. QED
    BY <1>1, ProducerInvariant, PTL

(* A record says "completed" only if the work that serves its request has  *)
(* ended well, for any number of requests that join, cancel and time out.  *)
THEOREM CompletedIsEarnedHolds == ProducersSpec => []CompletedIsEarned
  <1>1. ProducerInv => CompletedIsEarned
    BY Values DEF ProducerInv, VerdictsEarned, CompletedIsEarned
  <1>2. QED
    BY <1>1, ProducerInvariant, PTL

(* go-systemd's dispatcher never waits for a goroutine: the channel that   *)
(* is registered for a job is empty, so its buffer of one is enough.       *)
THEOREM WriteNeverBlocksHolds == ProducersSpec => []WriteNeverBlocks
  <1>1. ASSUME ProducerInv, DispatcherBlocked
        PROVE  FALSE
    <2>1. signals \in Seq(Requests) /\ signals # <<>>
      BY <1>1 DEF ProducerInv, ProducersTypeOK, DispatcherBlocked
    <2> DEFINE w == Head(signals)
    <2>2. w \in Requests
      BY <2>1, HeadTailProperties
    <2>3. listener[w] \in Requests /\ ~CanSend(listener[w])
      BY <1>1, <2>2 DEF ProducerInv, ProducersTypeOK, DispatcherBlocked
    <2>4. ch[listener[w]] = <<>>
      BY <1>1, <2>2, <2>3 DEF ProducerInv, ListenersEmpty
    <2>5. QED
      BY <2>3, <2>4 DEF CanSend, Buffer
  <1>2. ProducerInv => WriteNeverBlocks
    BY <1>1 DEF WriteNeverBlocks
  <1>3. QED
    BY <1>2, ProducerInvariant, PTL

-----------------------------------------------------------------------------
(* Every record lives the life that JobStream assumes of it.               *)
LEMMA PhaseKept ==
    ASSUME NEW r \in Requests,
           \/ code'[r] = code[r] /\ pc'[r] = pc[r]
           \/ code'[r] = code[r] /\ code[r] = 202 /\ pc[r] # "done" /\ pc'[r] # "done"
           \/ code[r] # 202 /\ code'[r] # 202
    PROVE  Phase(r)' = Phase(r)
  BY DEF Phase

(* The phases of all jobs, as one function.                                *)
LEMMA PhasesKept ==
    ASSUME \A r \in Requests : Phase(r)' = Phase(r)
    PROVE  [r \in Requests |-> Phase(r)]' = [r \in Requests |-> Phase(r)]
  OBVIOUS

(* No job is there at the start.                                           *)
LEMMA LifecycleInit == ProducersInit => Lifecycle!Init
  BY DEF ProducersInit, Lifecycle!Init, Phase

(* Every step is one of the lifecycle's, or invisible to it.               *)
LEMMA LifecycleStep ==
    ASSUME ProducerInv, ProducersNext
    PROVE  Lifecycle!Next \/ UNCHANGED Lifecycle!vars
  <1> DEFINE phases == [r \in Requests |-> Phase(r)]
             Goal == Lifecycle!Next \/ UNCHANGED Lifecycle!vars
  <1>1. ProducersTypeOK /\ AcceptedRun /\ VerdictsReady
    BY DEF ProducerInv
  <1>2. ASSUME \A q \in Requests : Phase(q)' = Phase(q), UNCHANGED <<record, aged>>
        PROVE  Goal
    <2>1. phases' = phases
      BY <1>2, PhasesKept
    <2>2. QED
      BY <1>2, <2>1 DEF Lifecycle!vars
  <1>3. ASSUME NEW r \in Requests, Arrival(r)
        PROVE  Goal
    <2>1. code[r] = 0
      BY <1>1, <1>3 DEF AcceptedRun, Arrival
    <2>2. CASE Goto(r, "call") /\ Answer(r, 202) /\ record' = [record EXCEPT ![r] = "accepted"]
      <3>1. \A q \in Requests \ {r} : code'[q] = code[q] /\ pc'[q] = pc[q]
        BY <1>1, <2>2, Moves DEF Answer, ProducersTypeOK
      <3>2. code'[r] = 202 /\ pc'[r] = "call"
        BY <1>1, <2>2, Moves DEF Answer, ProducersTypeOK
      <3>3. Phase(r) = "none" /\ Phase(r)' = "running"
        BY <2>1, <3>2 DEF Phase
      <3>4. \A q \in Requests \ {r} : Phase(q)' = Phase(q)
        BY <3>1, PhaseKept
      <3>5. phases' = [phases EXCEPT ![r] = "running"] /\ phases[r] = "none"
        BY <3>3, <3>4
      <3>6. UNCHANGED aged
        BY <1>3 DEF Arrival
      <3>7. Lifecycle!NewJob(r)
        BY <2>2, <3>5, <3>6 DEF Lifecycle!NewJob
      <3>8. QED
        BY <3>7 DEF Lifecycle!Next
    <2>3. CASE Goto(r, "done") /\ UNCHANGED record /\ \E c \in Codes \ {202} : Answer(r, c)
      <3>1. \A q \in Requests \ {r} : code'[q] = code[q] /\ pc'[q] = pc[q]
        BY <1>1, <2>3, Moves DEF Answer, ProducersTypeOK
      <3>2. code'[r] # 202
        BY <1>1, <2>3 DEF Answer, ProducersTypeOK
      <3>3. \A q \in Requests : Phase(q)' = Phase(q)
        BY <2>1, <3>1, <3>2, PhaseKept
      <3>4. QED
        BY <1>2, <1>3, <2>3, <3>3 DEF Arrival
    <2>4. QED
      BY <1>3, <2>2, <2>3 DEF Arrival
  <1>4. ASSUME NEW r \in Requests, NEW l, pc[r] \in Live, l # "done", Goto(r, l),
               UNCHANGED <<code, record, aged>>
        PROVE  Goal
    <2>1. code[r] = 202 /\ pc[r] # "done"
      BY <1>1, <1>4 DEF AcceptedRun, Live
    <2>2. pc'[r] # "done" /\ \A q \in Requests \ {r} : pc'[q] = pc[q]
      BY <1>1, <1>4, Moves
    <2>3. \A q \in Requests : Phase(q)' = Phase(q)
      BY <1>4, <2>1, <2>2, PhaseKept
    <2>4. QED
      BY <1>2, <1>4, <2>3
  <1>5. ASSUME NEW r \in Requests, Advance(r)
        PROVE  Goal
    BY <1>4, <1>5 DEF Advance, Live
  <1>6. ASSUME NEW r \in Requests, Conclusion(r)
        PROVE  Goal
    BY <1>1, <1>4, <1>6, Moves DEF Conclusion
  <1>7. ASSUME NEW r \in Requests, StoreVerdict(r)
        PROVE  Goal
    <2>1. pc[r] = "store" /\ code[r] = 202 /\ verdict[r] \in {"completed", "failed"}
      BY <1>1, <1>7 DEF StoreVerdict, AcceptedRun, VerdictsReady
    <2>2. code' = code /\ pc'[r] = "done" /\ \A q \in Requests \ {r} : pc'[q] = pc[q]
      BY <1>1, <1>7, Moves DEF StoreVerdict
    <2>3. Phase(r) = "running" /\ Phase(r)' = "finished"
      BY <2>1, <2>2 DEF Phase
    <2>4. \A q \in Requests \ {r} : Phase(q)' = Phase(q)
      BY <2>2, PhaseKept
    <2>5. phases' = [phases EXCEPT ![r] = "finished"] /\ phases[r] = "running"
      BY <2>3, <2>4
    <2>6. record' = [record EXCEPT ![r] = verdict[r]] /\ aged' = [aged EXCEPT ![r] = FALSE]
      BY <1>7 DEF StoreVerdict
    <2>7. Lifecycle!StoreResult(r)
      BY <2>1, <2>5, <2>6 DEF Lifecycle!StoreResult
    <2>8. QED
      BY <2>7 DEF Lifecycle!Next
  <1>8. ASSUME NEW r \in Requests, RecordAges(r)
        PROVE  Goal
    <2>1. \A q \in Requests : Phase(q)' = Phase(q)
      BY <1>8, PhaseKept DEF RecordAges
    <2>2. phases' = phases
      BY <2>1, PhasesKept
    <2>3. Lifecycle!TTLPasses(r)
      BY <1>8, <2>2 DEF RecordAges, Lifecycle!TTLPasses
    <2>4. QED
      BY <2>3 DEF Lifecycle!Next
  <1>9. ASSUME evict
        PROVE  Goal
    <2>1. \A q \in Requests : Phase(q)' = Phase(q)
      BY <1>9, PhaseKept DEF evict
    <2>2. phases' = phases
      BY <2>1, PhasesKept
    <2>3. Lifecycle!Evict
      BY <1>9, <2>2 DEF evict, Lifecycle!Evict
    <2>4. QED
      BY <2>3 DEF Lifecycle!Next
  <1>10. ASSUME UNCHANGED <<pc, code, record, aged>>
         PROVE  Goal
    <2>1. \A q \in Requests : Phase(q)' = Phase(q)
      BY <1>10, PhaseKept
    <2>2. QED
      BY <1>2, <1>10, <2>1
  <1>11. QED
    <2> HIDE DEF Goal
    <2>1. Goal
      BY <1>3, <1>5, <1>6, <1>7, <1>8, <1>9, <1>10, ControlSteps
    <2>2. QED
      BY <2>1 DEF Goal

(* The safety part of ImplementsLifecycle: a record appears on acceptance, *)
(* is replaced by one verdict, once, and goes only by eviction.            *)
THEOREM LifecycleRefinement ==
    ProducersSpec => Lifecycle!Init /\ [][Lifecycle!Next]_(Lifecycle!vars)
  <1>1. ProducerInv /\ [ProducersNext]_producersVars => [Lifecycle!Next]_(Lifecycle!vars)
    <2>1. ASSUME UNCHANGED producersVars
          PROVE  UNCHANGED Lifecycle!vars
      <3>1. \A q \in Requests : Phase(q)' = Phase(q)
        BY <2>1, PhaseKept DEF producersVars
      <3>2. [r \in Requests |-> Phase(r)]' = [r \in Requests |-> Phase(r)]
        BY <3>1, PhasesKept
      <3>3. QED
        BY <2>1, <3>2 DEF producersVars, Lifecycle!vars
    <2>2. QED
      BY <2>1, LifecycleStep
  <1>2. QED
    BY LifecycleInit, ProducerInvariant, <1>1, PTL DEF ProducersSpec

-----------------------------------------------------------------------------
(* The streams.                                                            *)
USE StreamAssumption

Records == {Accepted} \cup Results

(* The events of a job, the error event apart. *)
JobEvent == Events \ {ErrorEvent}

-----------------------------------------------------------------------------
(* The event list. *)

LEMMA RecordFields ==
    /\ Absent.status = "absent" /\ Absent.stdout = 0 /\ Absent.stderr = 0
    /\ Accepted.status = "accepted" /\ Accepted.stdout = 0 /\ Accepted.stderr = 0
    /\ \A r \in Results : /\ r.status \in Terminal
                          /\ r.stdout \in 0..MaxLines
                          /\ r.stderr \in 0..MaxLines
    /\ Absent \notin Records
    /\ Accepted \notin Results
<1>1. /\ Absent.status = "absent" /\ Absent.stdout = 0 /\ Absent.stderr = 0
      /\ Accepted.status = "accepted" /\ Accepted.stdout = 0 /\ Accepted.stderr = 0
  BY DEF Absent, Accepted, Result
<1>2. ASSUME NEW r \in Results
      PROVE  r.status \in Terminal /\ r.stdout \in 0..MaxLines /\ r.stderr \in 0..MaxLines
  <2>1. PICK st \in Terminal, out \in 0..MaxLines, err \in 0..MaxLines : r = Result(st, out, err)
    BY DEF Results
  <2> QED
    BY <2>1 DEF Result
<1>3. "absent" # "accepted" /\ "absent" \notin Terminal /\ "accepted" \notin Terminal
  BY DEF Terminal
<1> QED
  BY <1>1, <1>2, <1>3 DEF Records

(* Appending to a list that has begun keeps how it begins. *)
LEMMA ConcatBegins ==
    ASSUME NEW S, NEW s \in Seq(S), NEW t \in Seq(S), Len(s) >= 1
    PROVE  s \o t \in Seq(S) /\ Len(s \o t) >= 1 /\ (s \o t)[1] = s[1]
<1>1. Len(s) \in Nat /\ Len(t) \in Nat
  BY LenProperties
<1>2. 1 \in 1..(Len(s) + Len(t))
  BY <1>1
<1> QED
  BY <1>1, <1>2, ConcatProperties

LEMMA FunctionIsSeq ==
    ASSUME NEW S, NEW n \in Nat, NEW f \in [1..n -> S]
    PROVE  f \in Seq(S)
  BY SeqDef

(* The list of any record is a sequence whose first event is the acceptance. *)
LEMMA BuildShape ==
    ASSUME NEW r, r.stdout \in Nat, r.stderr \in Nat
    PROVE  /\ BuildJobEvents(r) \in Seq(Range(BuildJobEvents(r)))
           /\ Len(BuildJobEvents(r)) \in Nat
           /\ Len(BuildJobEvents(r)) >= 1
           /\ BuildJobEvents(r)[1] = StatusEvent("accepted")
           /\ \A i \in 1..Len(BuildJobEvents(r)) : BuildJobEvents(r)[i] # ErrorEvent
<1> DEFINE E == Range(BuildJobEvents(r))
           L(s, k) == [name |-> s, of |-> "", line |-> k]
           S == {StatusEvent("accepted"), StatusEvent(r.status), EndEvent(r.status)}
                \cup {L("job.stdout", k) : k \in Nat} \cup {L("job.stderr", k) : k \in Nat}
           a == <<StatusEvent("accepted")>>
           b == IF r.status = "accepted" THEN <<>> ELSE <<StatusEvent(r.status)>>
           u == LineEvents("job.stdout", r.stdout)
           v == LineEvents("job.stderr", r.stderr)
           e == IF r.status \in Terminal THEN <<EndEvent(r.status)>> ELSE <<>>
           B == a \o b \o u \o v \o e
<1>1. BuildJobEvents(r) = B
  BY DEF BuildJobEvents
<1>2. a \in Seq(S) /\ b \in Seq(S) /\ e \in Seq(S)
  <2>1. StatusEvent("accepted") \in S /\ StatusEvent(r.status) \in S /\ EndEvent(r.status) \in S
    OBVIOUS
  <2> HIDE DEF S
  <2>2. <<StatusEvent("accepted")>> \in Seq(S)
    BY <2>1
  <2>3. <<StatusEvent(r.status)>> \in Seq(S)
    BY <2>1
  <2>4. <<EndEvent(r.status)>> \in Seq(S)
    BY <2>1
  <2>5. <<>> \in Seq(S)
    OBVIOUS
  <2> QED
    BY <2>2, <2>3, <2>4, <2>5
<1>3. u \in Seq(S) /\ v \in Seq(S)
  <2>1. \A k \in Nat : L("job.stdout", k) \in S /\ L("job.stderr", k) \in S
    OBVIOUS
  <2> HIDE DEF S
  <2>2. u = [k \in 1..r.stdout |-> L("job.stdout", k)] /\ v = [k \in 1..r.stderr |-> L("job.stderr", k)]
    BY DEF LineEvents
  <2>3. (\A k \in 1..r.stdout : k \in Nat) /\ (\A k \in 1..r.stderr : k \in Nat)
    OBVIOUS
  <2> HIDE DEF u, v, L
  <2>4. u \in [1..r.stdout -> S] /\ v \in [1..r.stderr -> S]
    BY <2>1, <2>2, <2>3
  <2> QED
    BY <2>4, FunctionIsSeq
<1>4. ErrorEvent \notin S
  <2>1. /\ ErrorEvent # StatusEvent("accepted")
        /\ ErrorEvent # StatusEvent(r.status)
        /\ ErrorEvent # EndEvent(r.status)
    BY DEF StatusEvent, EndEvent, ErrorEvent
  <2>2. \A k \in Nat : ErrorEvent # L("job.stdout", k) /\ ErrorEvent # L("job.stderr", k)
    BY DEF ErrorEvent
  <2> QED
    BY <2>1, <2>2
<1>5. Len(a) = 1 /\ a[1] = StatusEvent("accepted")
  OBVIOUS
<1> HIDE DEF S, a, b, u, v, e, L
<1>6. /\ B \in Seq(S)
      /\ Len(B) >= 1
      /\ B[1] = a[1]
  <2>0. Len(a) >= 1
    BY <1>5
  <2>1. a \o b \in Seq(S) /\ Len(a \o b) >= 1 /\ (a \o b)[1] = a[1]
    <3>1. a \in Seq(S) /\ b \in Seq(S)
      BY <1>2
    <3> QED
      BY <3>1, <2>0, ConcatBegins
  <2> DEFINE ab == a \o b
  <2>2. ab \o u \in Seq(S) /\ Len(ab \o u) >= 1 /\ (ab \o u)[1] = a[1]
    <3> HIDE DEF ab
    <3> QED  BY <2>1, <1>3, ConcatBegins DEF ab
  <2> DEFINE abu == ab \o u
  <2>3. abu \o v \in Seq(S) /\ Len(abu \o v) >= 1 /\ (abu \o v)[1] = a[1]
    BY <2>2, <1>3, ConcatBegins
  <2> QED
    BY <2>3, <1>2, ConcatBegins
<1> HIDE DEF B
<1>7. \A i \in 1..Len(B) : B[i] \in S
  BY <1>6, ElementOfSeq
<1>8. B \in Seq(Range(B))
  BY <1>6 DEF Range
<1> QED
  BY <1>1, <1>4, <1>5, <1>6, <1>7, <1>8

(* An accepted job has that event only. *)
LEMMA BuildAccepted == Len(BuildJobEvents(Accepted)) = 1
<1> DEFINE u == LineEvents("job.stdout", 0)
           v == LineEvents("job.stderr", 0)
           a == <<StatusEvent("accepted")>>
<1>1. BuildJobEvents(Accepted) = a \o <<>> \o u \o v \o <<>>
  BY RecordFields DEF BuildJobEvents, Terminal
<1>2. u = <<>> /\ v = <<>>
  BY DEF LineEvents
<1>3. a \o <<>> \o <<>> \o <<>> \o <<>> = a
  OBVIOUS
<1> QED
  BY <1>1, <1>2, <1>3

LEMMA BuildTypes ==
    ASSUME NEW r \in Records
    PROVE  /\ BuildJobEvents(r) \in Seq(Events)
           /\ BuildJobEvents(r) \in Seq(JobEvent)
<1>1. r.stdout \in Nat /\ r.stderr \in Nat
  BY RecordFields DEF Records
<1>2. Range(BuildJobEvents(r)) \subseteq Events
  <2>1. CASE r \in Results
    BY <2>1 DEF Events
  <2>2. CASE r = Accepted
    <3> DEFINE q == Result("failed", 0, 0)
    <3>1. q \in Results
      BY DEF Results, Terminal
    <3>2. q.stdout \in Nat /\ q.stderr \in Nat
      BY RecordFields, <3>1
    <3> HIDE DEF q
    <3>3. StatusEvent("accepted") \in Range(BuildJobEvents(q))
      <4>1. 1 \in DOMAIN BuildJobEvents(q) /\ BuildJobEvents(q)[1] = StatusEvent("accepted")
        BY <3>2, BuildShape, LenProperties
      <4> QED
        BY <4>1 DEF Range
    <3>4. Range(BuildJobEvents(r)) \subseteq {StatusEvent("accepted")}
      <4>1. DOMAIN BuildJobEvents(r) = 1..1
        BY <1>1, <2>2, BuildShape, BuildAccepted, LenProperties
      <4>2. BuildJobEvents(r)[1] = StatusEvent("accepted")
        BY <1>1, BuildShape
      <4> QED
        BY <4>1, <4>2 DEF Range
    <3> QED
      BY <3>1, <3>3, <3>4 DEF Events
  <2> QED
    BY <2>1, <2>2 DEF Records
<1>3. BuildJobEvents(r) \in Seq(Range(BuildJobEvents(r)))
  BY <1>1, BuildShape
<1>4. BuildJobEvents(r) \in Seq(Events)
  BY <1>2, <1>3
<1>5. \A i \in 1..Len(BuildJobEvents(r)) : BuildJobEvents(r)[i] # ErrorEvent
  BY <1>1, BuildShape
<1> QED
  BY <1>4, <1>5 DEF JobEvent

(* The list of the accepted job is a beginning of every other one. *)
LEMMA BuildExtends ==
    ASSUME NEW r \in Records, NEW i \in 1..Len(BuildJobEvents(Accepted))
    PROVE  i \in 1..Len(BuildJobEvents(r)) /\ BuildJobEvents(r)[i] = BuildJobEvents(Accepted)[i]
<1>1. r.stdout \in Nat /\ r.stderr \in Nat /\ Accepted.stdout \in Nat /\ Accepted.stderr \in Nat
  BY RecordFields DEF Records
<1>2. i = 1
  BY BuildAccepted
<1> QED
  BY <1>1, <1>2, BuildShape

-----------------------------------------------------------------------------
(* Types. *)

LEMMA InitTyped == Init => TypeOK
<1> SUFFICES ASSUME Init PROVE TypeOK
  OBVIOUS
<1>1. \A S : <<>> \in Seq(S)
  OBVIOUS
<1>2. /\ snap \in [Clients -> Seq(Events)]
      /\ net \in [Clients -> Seq(Frames)]
      /\ got \in [Clients -> Seq(Frames)]
  BY <1>1 DEF Init
<1>3. conn \in [Clients -> BOOLEAN] /\ last \in [Clients -> BOOLEAN] /\ old \in BOOLEAN
  BY DEF Init
<1>4. /\ lastSent \in [Clients -> Nat] /\ seq \in [Clients -> Nat]
      /\ connects \in [Clients -> 0..MaxConnects]
      /\ drops \in 0..MaxDrops /\ restarts \in 0..MaxRestarts
  BY DEF Init
<1>5. thread \in [Clients -> Threads] /\ phase \in {"none", "running", "finished", "killed"}
  BY DEF Init, Threads
<1> QED
  BY <1>2, <1>3, <1>4, <1>5 DEF Init, TypeOK

LEMMA ErrorIsEvent == ErrorEvent \in Events
  BY DEF Events

(* A frame is appended to the wire of a client. *)
LEMMA WriteTyped ==
    ASSUME TypeOK, NEW c \in Clients, NEW event \in Events, Write(c, event)
    PROVE  /\ seq' \in [Clients -> Nat]
           /\ net' \in [Clients -> Seq(Frames)]
<1>1. [id |-> seq[c] + 1, ev |-> event] \in Frames
  BY DEF TypeOK, Frames
<1>2. Append(net[c], [id |-> seq[c] + 1, ev |-> event]) \in Seq(Frames)
  BY <1>1, AppendProperties DEF TypeOK
<1> QED
  BY <1>2 DEF Write, TypeOK

LEMMA ResumeTyped ==
    ASSUME TypeOK, NEW c \in Clients
    PROVE  ResumeFrom(c) \in Nat
<1>1. CASE got[c] = <<>>
  BY <1>1 DEF ResumeFrom
<1>2. CASE got[c] # <<>>
  <2>1. got[c] \in Seq(Frames)
    BY DEF TypeOK
  <2>2. Len(got[c]) \in 1..Len(got[c])
    BY <1>2, <2>1, EmptySeq
  <2>3. got[c][Len(got[c])] \in Frames
    BY <2>1, <2>2, ElementOfSeq
  <2> QED
    BY <1>2, <2>3 DEF ResumeFrom, Last, Frames
<1> QED
  BY <1>1, <1>2

LEMMA TypeStep ==
    ASSUME TypeOK, [Next]_vars
    PROVE  TypeOK'
<1> USE DEF TypeOK, Threads
<1>1. ASSUME NewJob PROVE TypeOK'
  BY <1>1 DEF NewJob, streamVars, boundVars
<1>2. ASSUME StoreResult PROVE TypeOK'
  BY <1>2 DEF StoreResult, streamVars, boundVars
<1>3. ASSUME TTLPasses PROVE TypeOK'
  BY <1>3 DEF TTLPasses, streamVars, boundVars
<1>4. ASSUME Evict PROVE TypeOK'
  BY <1>4 DEF Evict, streamVars, boundVars
<1>5. ASSUME NEW c \in Clients, Poll(c) PROVE TypeOK'
  <2>1. CASE entry = Absent
    BY <1>5, <2>1 DEF Poll, jobVars, boundVars
  <2>2. CASE entry # Absent
    <3>1. BuildJobEvents(entry) \in Seq(Events)
      BY <2>2, BuildTypes DEF Records
    <3>2. snap' = [snap EXCEPT ![c] = BuildJobEvents(entry)]
      BY <1>5, <2>2 DEF Poll
    <3>3. snap' \in [Clients -> Seq(Events)]
      BY <3>1, <3>2
    <3>4. last' \in [Clients -> BOOLEAN]
      <4> DEFINE t == entry.status \in Terminal
      <4>1. t \in BOOLEAN
        OBVIOUS
      <4>2. last' = [last EXCEPT ![c] = t]
        BY <1>5, <2>2 DEF Poll
      <4> HIDE DEF t
      <4> QED
        BY <4>1, <4>2
    <3> QED
      BY <1>5, <2>2, <3>3, <3>4 DEF Poll, jobVars, boundVars
  <2> QED
    BY <2>1, <2>2
<1>6. ASSUME NEW c \in Clients, Send(c) PROVE TypeOK'
  <2>1. snap[c][lastSent[c] + 1] \in Events
    BY <1>6, ElementOfSeq, LenProperties DEF Send
  <2>2. /\ seq' \in [Clients -> Nat]
        /\ net' \in [Clients -> Seq(Frames)]
    BY <1>6, <2>1, WriteTyped DEF Send
  <2>3. lastSent' \in [Clients -> Nat]
    BY <1>6 DEF Send
  <2>4. UNCHANGED <<jobVars, conn, thread, snap, last, got, boundVars>>
    BY <1>6 DEF Send
  <2> QED
    BY <2>2, <2>3, <2>4 DEF jobVars, boundVars
<1>7. ASSUME NEW c \in Clients, LoopEnd(c) PROVE TypeOK'
  BY <1>7 DEF LoopEnd, jobVars, boundVars
<1>8. ASSUME NEW c \in Clients, Tick(c) PROVE TypeOK'
  BY <1>8 DEF Tick, jobVars, boundVars
<1>9. ASSUME NEW c \in Clients, SendError(c) PROVE TypeOK'
  <2>1. ErrorEvent \in Events
    BY ErrorIsEvent
  <2>2. /\ seq' \in [Clients -> Nat]
        /\ net' \in [Clients -> Seq(Frames)]
    BY <1>9, <2>1, WriteTyped DEF SendError
  <2> QED
    BY <1>9, <2>2 DEF SendError, jobVars, boundVars
<1>10. ASSUME NEW c \in Clients, Connect(c) PROVE TypeOK'
  <2>1. ResumeFrom(c) \in Nat
    BY ResumeTyped
  <2>2. lastSent' \in [Clients -> Nat] /\ seq' \in [Clients -> Nat]
    BY <1>10, <2>1 DEF Connect
  <2>3. connects' \in [Clients -> 0..MaxConnects]
    <3>1. connects[c] + 1 \in 0..MaxConnects
      BY <1>10 DEF Connect
    <3> QED
      BY <1>10, <3>1 DEF Connect
  <2>4. conn' \in [Clients -> BOOLEAN]
    BY <1>10 DEF Connect
  <2>5. thread' \in [Clients -> Threads]
    BY <1>10 DEF Connect
  <2>6. UNCHANGED <<phase, entry, truth, old, snap, last, net, got, drops, restarts>>
    BY <1>10 DEF Connect, jobVars
  <2> QED
    BY <2>2, <2>3, <2>4, <2>5, <2>6
<1>11. ASSUME NEW c \in Clients, Receive(c) PROVE TypeOK'
  <2>1. Head(net[c]) \in Frames /\ Tail(net[c]) \in Seq(Frames)
    BY <1>11, HeadTailProperties DEF Receive
  <2>2. Append(got[c], Head(net[c])) \in Seq(Frames)
    BY <2>1, AppendProperties
  <2>3. got' \in [Clients -> Seq(Frames)] /\ net' \in [Clients -> Seq(Frames)]
    BY <1>11, <2>1, <2>2 DEF Receive
  <2> QED
    BY <1>11, <2>3 DEF Receive, jobVars, streamVars, boundVars
<1>12. ASSUME NEW c \in Clients, EndOfStream(c) PROVE TypeOK'
  BY <1>12 DEF EndOfStream, jobVars, boundVars
<1>13. ASSUME NEW c \in Clients, Drop(c) PROVE TypeOK'
  <2>1. net' \in [Clients -> Seq(Frames)]
    BY <1>13, EmptySeq DEF Drop
  <2> QED
    BY <1>13, <2>1 DEF Drop, jobVars
<1>14. ASSUME RestartDaemon PROVE TypeOK'
  <2>1. net' \in [Clients -> Seq(Frames)]
    BY <1>14, EmptySeq DEF RestartDaemon
  <2>2. conn' \in [Clients -> BOOLEAN] /\ thread' \in [Clients -> Threads]
    BY <1>14 DEF RestartDaemon
  <2>3. phase' \in {"none", "running", "finished", "killed"}
    BY <1>14 DEF RestartDaemon
  <2>4. restarts' \in 0..MaxRestarts
    BY <1>14 DEF RestartDaemon
  <2> QED
    BY <1>14, <2>1, <2>2, <2>3, <2>4 DEF RestartDaemon
<1>15. ASSUME UNCHANGED vars PROVE TypeOK'
  BY <1>15 DEF vars
<1> QED
  BY <1>1, <1>2, <1>3, <1>4, <1>5, <1>6, <1>7, <1>8, <1>9, <1>10, <1>11, <1>12, <1>13,
     <1>14, <1>15 DEF Next, Server, Client, Rest

(***************************************************************************)
(* Every field has its type in every reachable state; in particular what a *)
(* stream polls has one of the statuses the event list is built for, so    *)
(* that a poll never meets an unfinished record other than the acceptance. *)
(***************************************************************************)
THEOREM StreamTypeCorrect == Spec => []TypeOK
<1> QED
  BY InitTyped, TypeStep, PTL DEF Spec

-----------------------------------------------------------------------------
(* The stream invariant. *)

List == BuildJobEvents(truth)

(* s is a beginning of t. *)
Begins(s, t) ==
    /\ Len(s) \in Nat /\ Len(t) \in Nat
    /\ Len(s) <= Len(t)
    /\ \A i \in 1..Len(s) : t[i] = s[i]

(* Nothing of client c changes that its invariant is about. *)
Untouched(c) ==
    /\ conn'[c] = conn[c] /\ thread'[c] = thread[c] /\ snap'[c] = snap[c]
    /\ lastSent'[c] = lastSent[c] /\ seq'[c] = seq[c]
    /\ net'[c] = net[c] /\ got'[c] = got[c]

LEMMA ListTyped ==
    ASSUME TypeOK
    PROVE  Len(List) \in Nat /\ Begins(List, List)
<1>1. truth.stdout \in Nat /\ truth.stderr \in Nat
  BY RecordFields DEF TypeOK
<1> QED
  BY <1>1, BuildShape DEF List, Begins

LEMMA AcceptedBegins ==
    ASSUME NEW r \in Records
    PROVE  Begins(BuildJobEvents(Accepted), BuildJobEvents(r))
<1>1. /\ r.stdout \in Nat /\ r.stderr \in Nat
      /\ Accepted.stdout \in Nat /\ Accepted.stderr \in Nat
  BY RecordFields DEF Records
<1>2. Len(BuildJobEvents(r)) \in Nat /\ Len(BuildJobEvents(r)) >= 1
  BY <1>1, BuildShape
<1> QED
  BY <1>2, BuildAccepted, BuildExtends DEF Begins

(* A client that is not concerned keeps its invariant while the list grows. *)
LEMMA UntouchedKept ==
    ASSUME TypeOK, NEW c \in Clients, ClientInv(c), Untouched(c), Begins(List, List')
    PROVE  ClientInv(c)'
<1>0. /\ Len(snap[c]) \in Nat /\ DOMAIN snap[c] = 1..Len(snap[c])
      /\ \A i \in DOMAIN got[c] : got[c][i].id \in Nat
      /\ \A i \in DOMAIN net[c] : net[c][i].id \in Nat
  <2>1. snap[c] \in Seq(Events) /\ got[c] \in Seq(Frames) /\ net[c] \in Seq(Frames)
    BY DEF TypeOK
  <2>2. /\ DOMAIN snap[c] = 1..Len(snap[c]) /\ Len(snap[c]) \in Nat
        /\ DOMAIN got[c] = 1..Len(got[c]) /\ DOMAIN net[c] = 1..Len(net[c])
    BY <2>1, LenProperties
  <2>3. \A i \in DOMAIN got[c] : got[c][i] \in Frames
    BY <2>1, <2>2, ElementOfSeq
  <2>4. \A i \in DOMAIN net[c] : net[c][i] \in Frames
    BY <2>1, <2>2, ElementOfSeq
  <2> QED
    BY <2>2, <2>3, <2>4 DEF Frames
<1>1. Served(c)'
  BY DEF ClientInv, Served, Untouched
<1>2. SnapBegins(c)'
  BY <1>0 DEF ClientInv, SnapBegins, Untouched, Begins, List
<1>3. ASSUME NEW f, Named(f), f.id \in Nat PROVE Named(f)'
  BY <1>3 DEF Named, Begins, List
<1>4. FramesNamed(c)'
  BY <1>0, <1>3 DEF ClientInv, FramesNamed, Untouched
<1>5. IdsInOrder(c)'
  BY DEF ClientInv, IdsInOrder, SawError, Untouched
<1> QED
  BY <1>1, <1>2, <1>4, <1>5 DEF ClientInv

(* A step of client c on an unchanged record leaves the invariant with c. *)
LEMMA OthersKept ==
    ASSUME TypeOK, StreamInv, NEW c \in Clients, UNCHANGED jobVars,
           \A d \in Clients \ {c} : Untouched(d),
           phase # "none" \/ (~conn'[c] /\ got'[c] = <<>>),
           ClientInv(c)'
    PROVE  StreamInv'
<1>1. List' = List
  BY DEF List, jobVars
<1>2. Begins(List, List')
  BY <1>1, ListTyped
<1>3. ASSUME NEW d \in Clients \ {c} PROVE ClientInv(d)'
  BY <1>2, <1>3, UntouchedKept DEF StreamInv
<1>4. \A d \in Clients : ClientInv(d)'
  BY <1>3
<1>5. RecordInv'
  BY DEF StreamInv, RecordInv, jobVars, Untouched
<1> QED
  BY <1>4, <1>5 DEF StreamInv

LEMMA InitInv == Init => StreamInv
<1> SUFFICES ASSUME Init PROVE StreamInv
  OBVIOUS
<1>1. RecordInv
  BY DEF Init, RecordInv
<1>2. ASSUME NEW c \in Clients PROVE ClientInv(c)
  <2>1. /\ thread[c] = "none" /\ ~conn[c]
        /\ got[c] = <<>> /\ net[c] = <<>>
    BY DEF Init
  <2>2. DOMAIN got[c] = {} /\ DOMAIN net[c] = {}
    BY <2>1
  <2> QED
    BY <2>1, <2>2 DEF ClientInv, Served, SnapBegins, FramesNamed, IdsInOrder
<1> QED
  BY <1>1, <1>2 DEF StreamInv

LEMMA NewJobInv ==
    ASSUME TypeOK, StreamInv, NewJob
    PROVE  StreamInv'
<1>1. ASSUME NEW c \in Clients PROVE ClientInv(c)'
  <2>1. ~conn'[c] /\ got'[c] = <<>> /\ net'[c] = <<>> /\ thread'[c] = "none"
    BY DEF StreamInv, RecordInv, ClientInv, Served, NewJob, streamVars
  <2>2. DOMAIN got'[c] = {} /\ DOMAIN net'[c] = {}
    BY <2>1
  <2> QED
    BY <2>1, <2>2 DEF ClientInv, Served, SnapBegins, FramesNamed, IdsInOrder
<1>2. RecordInv'
  BY DEF RecordInv, NewJob
<1> QED
  BY <1>1, <1>2 DEF StreamInv

LEMMA StoreResultInv ==
    ASSUME TypeOK, StreamInv, StoreResult
    PROVE  StreamInv'
<1>1. truth = Accepted /\ truth' \in Records
  BY DEF StreamInv, RecordInv, StoreResult, Records
<1>2. Begins(List, List')
  BY <1>1, AcceptedBegins DEF List
<1>3. ASSUME NEW c \in Clients PROVE ClientInv(c)'
  <2>1. Untouched(c)
    BY DEF StoreResult, streamVars, Untouched
  <2> QED
    BY <1>2, <2>1, UntouchedKept DEF StreamInv
<1>4. RecordInv'
  BY DEF RecordInv, StoreResult
<1> QED
  BY <1>3, <1>4 DEF StreamInv

(* A poll takes the whole list of the record that is stored. *)
LEMMA PollInv ==
    ASSUME TypeOK, StreamInv, NEW c \in Clients, Poll(c)
    PROVE  StreamInv'
<1>1. \A d \in Clients \ {c} : Untouched(d)
  BY DEF Poll, TypeOK, Untouched
<1>2. UNCHANGED jobVars /\ phase # "none"
  BY DEF Poll, StreamInv, RecordInv, ClientInv, Served
<1>3. Served(c)'
  BY DEF Poll, TypeOK, StreamInv, ClientInv, Served
<1>4. SnapBegins(c)'
  <2>1. CASE entry = Absent
    BY <2>1 DEF Poll, TypeOK, SnapBegins
  <2>2. CASE entry # Absent
    <3>1. snap'[c] = List /\ List' = List
      BY <1>2, <2>2 DEF Poll, TypeOK, StreamInv, RecordInv, List, jobVars
    <3>2. Len(List) \in Nat
      BY ListTyped
    <3> QED
      BY <3>1, <3>2 DEF SnapBegins, List
  <2> QED
    BY <2>1, <2>2
<1>5. FramesNamed(c)' /\ IdsInOrder(c)'
  BY DEF Poll, jobVars, StreamInv, ClientInv, FramesNamed, IdsInOrder, Named, SawError
<1> QED
  BY <1>1, <1>2, <1>3, <1>4, <1>5, OthersKept DEF ClientInv

(* The numbering of frames.                                                *)
LEMMA NextNumber == \A a, k \in Nat : (a + k) + 1 = a + (k + 1)
  OBVIOUS

LEMMA UpToNext == \A k \in Nat : \A i \in 1..(k + 1) : i \in 1..k \/ i = k + 1
  OBVIOUS

(* A frame written goes on where the last one stopped.                     *)
LEMMA IdsGoOn ==
    ASSUME TypeOK, NEW c \in Clients, IdsInOrder(c), conn[c], NEW event \in Events,
           Write(c, event), UNCHANGED <<conn, got>>
    PROVE  IdsInOrder(c)'
<1> SUFFICES ASSUME ~SawError(c)' PROVE IdsInOrder(c)'
  BY DEF IdsInOrder
<1> DEFINE f == [id |-> seq[c] + 1, ev |-> event]
           a == Len(got[c])
           k == Len(net[c])
<1>1. net[c] \in Seq(Frames) /\ DOMAIN net[c] = 1..k /\ seq[c] \in Nat /\ a \in Nat /\ k \in Nat
  BY LenProperties DEF TypeOK
<1>2. f \in Frames /\ f.id = seq[c] + 1
  BY <1>1 DEF Frames
<1>3. net'[c] = Append(net[c], f) /\ seq'[c] = f.id
  BY DEF Write, TypeOK
<1> HIDE DEF f
<1>4. /\ Len(net'[c]) = k + 1 /\ DOMAIN net'[c] = 1..(k + 1)
      /\ \A i \in 1..k : net'[c][i] = net[c][i]
      /\ net'[c][k + 1] = f
  BY <1>1, <1>2, <1>3, AppendProperties
<1>5. ~SawError(c)
  BY DEF SawError
<1>6. /\ \A i \in DOMAIN got[c] : got[c][i].id = i
      /\ \A i \in 1..k : net[c][i].id = a + i
      /\ seq[c] = a + k
  BY <1>1, <1>5 DEF IdsInOrder
<1>7. seq[c] + 1 = a + (k + 1)
  <2> HIDE DEF a, k
  <2>1. (a + k) + 1 = a + (k + 1)
    BY <1>1, NextNumber
  <2>2. seq[c] = a + k
    BY <1>6
  <2> QED
    BY <2>1, <2>2
<1>8. \A i \in 1..(k + 1) : net'[c][i].id = a + i
  <2> HIDE DEF a, k
  <2> SUFFICES ASSUME NEW i \in 1..(k + 1) PROVE net'[c][i].id = a + i
    OBVIOUS
  <2>1. CASE i \in 1..k
    BY <1>4, <1>6, <2>1
  <2>2. CASE i = k + 1
    BY <1>2, <1>4, <1>7, <2>2
  <2> QED
    BY <1>1, <2>1, <2>2, UpToNext
<1>9. /\ \A i \in DOMAIN net'[c] : net'[c][i].id = Len(got'[c]) + i
      /\ seq'[c] = Len(got'[c]) + Len(net'[c])
  BY <1>2, <1>3, <1>4, <1>7, <1>8
<1> QED
  BY <1>6, <1>9 DEF IdsInOrder

(* A frame written with the next number, carrying the event of that number *)
(* or the error event, keeps the numbering.                                *)
LEMMA WriteKeeps ==
    ASSUME TypeOK, NEW c \in Clients, ClientInv(c), conn[c], NEW event \in Events,
           Write(c, event), UNCHANGED <<truth, conn, got>>,
           event # ErrorEvent => seq[c] + 1 <= Len(List) /\ List[seq[c] + 1] = event
    PROVE  FramesNamed(c)' /\ IdsInOrder(c)'
<1> DEFINE f == [id |-> seq[c] + 1, ev |-> event]
           n == Len(net[c])
<1>1. /\ net[c] \in Seq(Frames) /\ n \in Nat /\ DOMAIN net[c] = 1..n
      /\ seq[c] \in Nat
      /\ got[c] \in Seq(Frames) /\ Len(got[c]) \in Nat
  BY LenProperties DEF TypeOK
<1>2. f \in Frames /\ f.id = seq[c] + 1 /\ f.ev = event
  BY <1>1 DEF Frames
<1>3. net'[c] = Append(net[c], f) /\ seq'[c] = seq[c] + 1
  BY DEF Write, TypeOK
<1> HIDE DEF f
<1>4. /\ DOMAIN net'[c] = 1..(n + 1) /\ Len(net'[c]) = n + 1
      /\ \A i \in 1..n : net'[c][i] = net[c][i]
      /\ net'[c][n + 1] = f
  BY <1>1, <1>2, <1>3, AppendProperties
<1> HIDE DEF n
<1>5. \A g : Named(g)' <=> Named(g)
  BY DEF Named
<1>6. Named(f)
  BY <1>1, <1>2 DEF Named, List
<1>7. FramesNamed(c)'
  <2>1. \A i \in DOMAIN got[c] : Named(got[c][i])
    BY DEF ClientInv, FramesNamed
  <2>2. \A i \in 1..(n + 1) : i \in 1..n \/ i = n + 1
    BY <1>1
  <2>3. \A i \in 1..(n + 1) : Named(net'[c][i])
    BY <1>1, <1>4, <1>6, <2>2 DEF ClientInv, FramesNamed
  <2> QED
    BY <1>4, <1>5, <2>1, <2>3 DEF FramesNamed
<1>8. IdsInOrder(c)'
  BY IdsGoOn DEF ClientInv
<1> QED
  BY <1>7, <1>8

LEMMA SendInv ==
    ASSUME TypeOK, StreamInv, NEW c \in Clients, Send(c)
    PROVE  StreamInv'
<1> DEFINE event == snap[c][lastSent[c] + 1]
<1>1. \A d \in Clients \ {c} : Untouched(d)
  BY DEF Send, Write, TypeOK, Untouched
<1>2. UNCHANGED jobVars /\ phase # "none" /\ conn[c] /\ lastSent[c] = seq[c]
  BY DEF Send, StreamInv, RecordInv, ClientInv, Served
<1>3. /\ snap[c] \in Seq(Events) /\ Len(snap[c]) \in Nat
      /\ DOMAIN snap[c] = 1..Len(snap[c]) /\ seq[c] \in Nat
  BY LenProperties DEF TypeOK
<1>4. seq[c] + 1 \in DOMAIN snap[c]
  BY <1>2, <1>3 DEF Send
<1>5. event \in Events
  BY <1>2, <1>3, <1>4, ElementOfSeq
<1>6. seq[c] + 1 <= Len(List) /\ List[seq[c] + 1] = event
  <2>1. Len(snap[c]) <= Len(List) /\ \A i \in DOMAIN snap[c] : snap[c][i] = List[i]
    BY DEF Send, StreamInv, ClientInv, SnapBegins, List
  <2>2. Len(List) \in Nat
    BY ListTyped
  <2> QED
    BY <1>2, <1>3, <1>4, <2>1, <2>2
<1>7. Write(c, event) /\ UNCHANGED <<truth, conn, got>>
  BY DEF Send, jobVars
<1> HIDE DEF event
<1>8. FramesNamed(c)' /\ IdsInOrder(c)'
  BY <1>2, <1>5, <1>6, <1>7, WriteKeeps DEF StreamInv
<1>9. Served(c)'
  BY <1>2 DEF Send, Write, TypeOK, StreamInv, ClientInv, Served
<1>10. SnapBegins(c)'
  BY <1>2 DEF Send, jobVars, StreamInv, ClientInv, SnapBegins
<1> QED
  BY <1>1, <1>2, <1>8, <1>9, <1>10, OthersKept DEF ClientInv

LEMMA SendErrorInv ==
    ASSUME TypeOK, StreamInv, NEW c \in Clients, SendError(c)
    PROVE  StreamInv'
<1>1. \A d \in Clients \ {c} : Untouched(d)
  BY DEF SendError, Write, TypeOK, Untouched
<1>2. UNCHANGED jobVars /\ phase # "none" /\ conn[c]
  BY DEF SendError, StreamInv, RecordInv, ClientInv, Served
<1>3. Write(c, ErrorEvent) /\ UNCHANGED <<truth, conn, got>>
  BY DEF SendError, jobVars
<1>4. FramesNamed(c)' /\ IdsInOrder(c)'
  BY <1>2, <1>3, ErrorIsEvent, WriteKeeps DEF StreamInv
<1>5. Served(c)' /\ SnapBegins(c)'
  BY <1>2 DEF SendError, TypeOK, StreamInv, ClientInv, Served, SnapBegins
<1> QED
  BY <1>1, <1>2, <1>4, <1>5, OthersKept DEF ClientInv

(* The loop's end and the ticker move the goroutine only. *)
LEMMA LoopInv ==
    ASSUME TypeOK, StreamInv, NEW c \in Clients, LoopEnd(c) \/ Tick(c)
    PROVE  StreamInv'
<1>1. PICK l \in {"returned", "wait", "poll"} :
        /\ thread[c] \in {"send", "wait"}
        /\ thread' = [thread EXCEPT ![c] = l]
        /\ UNCHANGED <<jobVars, conn, snap, last, lastSent, seq, net, got, boundVars>>
  BY DEF LoopEnd, Tick
<1>2. \A d \in Clients \ {c} : Untouched(d)
  BY <1>1 DEF TypeOK, Untouched
<1>3. UNCHANGED jobVars /\ phase # "none"
  BY <1>1 DEF StreamInv, RecordInv, ClientInv, Served
<1>4. ClientInv(c)'
  BY <1>1 DEF jobVars, TypeOK, StreamInv, ClientInv, Served, SnapBegins, FramesNamed, IdsInOrder,
              Named, SawError
<1> QED
  BY <1>2, <1>3, <1>4, OthersKept

(* A client resumes from the last id it has. *)
LEMMA ConnectInv ==
    ASSUME TypeOK, StreamInv, NEW c \in Clients, Connect(c)
    PROVE  StreamInv'
<1>1. \A d \in Clients \ {c} : Untouched(d)
  BY DEF Connect, TypeOK, Untouched
<1>2. UNCHANGED jobVars /\ phase # "none"
  BY DEF Connect
<1>3. /\ conn'[c] /\ thread'[c] = "poll" /\ net[c] = <<>>
      /\ lastSent'[c] = ResumeFrom(c) /\ seq'[c] = ResumeFrom(c)
      /\ net'[c] = net[c] /\ got'[c] = got[c]
  BY DEF Connect, TypeOK, StreamInv, ClientInv, Served
<1>4. Served(c)' /\ SnapBegins(c)'
  BY <1>3 DEF Served, SnapBegins
<1>5. FramesNamed(c)'
  BY <1>2, <1>3 DEF jobVars, StreamInv, ClientInv, FramesNamed, Named
<1>6. IdsInOrder(c)'
  <2> SUFFICES ASSUME ~SawError(c)' PROVE IdsInOrder(c)'
    BY DEF IdsInOrder
  <2>1. ~SawError(c)
    BY <1>3 DEF SawError
  <2>2. got[c] \in Seq(Frames)
    BY DEF TypeOK
  <2>3. Len(got[c]) \in Nat /\ DOMAIN got[c] = 1..Len(got[c])
    BY <2>2, LenProperties
  <2>4. ResumeFrom(c) = Len(got[c])
    <3>1. CASE got[c] = <<>>
      BY <3>1 DEF ResumeFrom
    <3>2. CASE got[c] # <<>>
      <4>1. Len(got[c]) \in DOMAIN got[c]
        BY <3>2, <2>2, <2>3, EmptySeq
      <4>2. got[c][Len(got[c])].id = Len(got[c])
        BY <4>1, <2>1 DEF StreamInv, ClientInv, IdsInOrder
      <4> QED
        BY <3>2, <4>2 DEF ResumeFrom, Last
    <3> QED
      BY <3>1, <3>2
  <2>5. DOMAIN net[c] = {} /\ Len(net[c]) = 0
    BY <1>3
  <2>6. /\ \A i \in DOMAIN got'[c] : got'[c][i].id = i
        /\ \A i \in DOMAIN net'[c] : net'[c][i].id = Len(got'[c]) + i
    BY <1>3, <2>1, <2>5 DEF StreamInv, ClientInv, IdsInOrder
  <2>7. seq'[c] = Len(got'[c]) + Len(net'[c])
    BY <1>3, <2>3, <2>4, <2>5
  <2> QED
    BY <2>6, <2>7 DEF IdsInOrder
<1> QED
  BY <1>1, <1>2, <1>4, <1>5, <1>6, OthersKept DEF ClientInv

(* The first frame of the wire moves to the end of what c has. *)
LEMMA ReceiveInv ==
    ASSUME TypeOK, StreamInv, NEW c \in Clients, Receive(c)
    PROVE  StreamInv'
<1> DEFINE f == net[c][1]
           n == Len(net[c])
           g == Len(got[c])
<1>1. \A d \in Clients \ {c} : Untouched(d)
  BY DEF Receive, streamVars, TypeOK, Untouched
<1>2. conn[c] /\ UNCHANGED jobVars /\ phase # "none"
  BY DEF Receive, StreamInv, RecordInv, ClientInv, Served
<1>3. /\ net[c] \in Seq(Frames) /\ net[c] # <<>> /\ got[c] \in Seq(Frames)
      /\ net'[c] = Tail(net[c]) /\ got'[c] = Append(got[c], Head(net[c]))
      /\ conn'[c] = conn[c] /\ seq'[c] = seq[c] /\ seq[c] \in Nat
      /\ thread'[c] = thread[c] /\ snap'[c] = snap[c] /\ lastSent'[c] = lastSent[c]
  BY DEF Receive, streamVars, TypeOK
<1>4. /\ n \in Nat \ {0} /\ DOMAIN net[c] = 1..n
      /\ g \in Nat /\ DOMAIN got[c] = 1..g
  BY <1>3, EmptySeq, LenProperties
<1>5. Head(net[c]) = f /\ f \in Frames
  BY <1>3, <1>4, ElementOfSeq
<1>6. /\ Len(net'[c]) = n - 1 /\ DOMAIN net'[c] = 1..(n - 1)
      /\ \A i \in 1..(n - 1) : net'[c][i] = net[c][i + 1]
  BY <1>3, HeadTailProperties, LenProperties
<1>7. /\ Len(got'[c]) = g + 1 /\ DOMAIN got'[c] = 1..(g + 1)
      /\ \A i \in 1..g : got'[c][i] = got[c][i]
      /\ got'[c][g + 1] = f
  BY <1>3, <1>5, AppendProperties, LenProperties
<1> HIDE DEF f, n, g
<1>8. Served(c)' /\ SnapBegins(c)'
  BY <1>2, <1>3 DEF jobVars, StreamInv, ClientInv, Served, SnapBegins
<1>9. FramesNamed(c)'
  <2>1. \A h : Named(h)' <=> Named(h)
    BY <1>2 DEF Named, jobVars
  <2>2. /\ \A i \in 1..g : Named(got[c][i])
        /\ \A i \in 1..n : Named(net[c][i])
    BY <1>4 DEF StreamInv, ClientInv, FramesNamed
  <2>3. Named(f)
    BY <1>4, <2>2 DEF f
  <2>4. ASSUME NEW i \in 1..(g + 1) PROVE Named(got'[c][i])
    <3>1. i \in 1..g \/ i = g + 1
      BY <1>4
    <3> QED
      BY <1>7, <2>2, <2>3, <3>1
  <2>5. ASSUME NEW i \in 1..(n - 1) PROVE Named(net'[c][i])
    <3>1. i + 1 \in 1..n
      BY <1>4
    <3> QED
      BY <1>6, <2>2, <3>1
  <2> QED
    BY <1>6, <1>7, <2>1, <2>4, <2>5 DEF FramesNamed
<1>10. IdsInOrder(c)'
  <2> SUFFICES ASSUME ~SawError(c)' PROVE IdsInOrder(c)'
    BY DEF IdsInOrder
  <2>1. ~SawError(c)
    <3> SUFFICES ASSUME NEW i \in 1..g, got[c][i].ev = ErrorEvent PROVE SawError(c)'
      BY <1>4 DEF SawError
    <3>1. i \in 1..(g + 1)
      BY <1>4
    <3> QED
      BY <1>7, <3>1 DEF SawError
  <2>2. /\ \A i \in 1..g : got[c][i].id = i
        /\ \A i \in 1..n : net[c][i].id = g + i
        /\ seq[c] = g + n
    BY <1>2, <1>4, <2>1 DEF StreamInv, ClientInv, IdsInOrder, g, n
  <2>3. ASSUME NEW i \in 1..(g + 1) PROVE got'[c][i].id = i
    <3>1. i \in 1..g \/ i = g + 1
      BY <1>4
    <3>2. f.id = g + 1
      BY <1>4, <2>2 DEF f
    <3> QED
      BY <1>7, <2>2, <3>1, <3>2
  <2>4. ASSUME NEW i \in 1..(n - 1) PROVE net'[c][i].id = (g + 1) + i
    <3>1. i + 1 \in 1..n /\ g + (i + 1) = (g + 1) + i
      BY <1>4
    <3>2. net[c][i + 1].id = g + (i + 1)
      BY <2>2, <3>1
    <3> QED
      BY <1>6, <3>1, <3>2
  <2>5. seq'[c] = (g + 1) + (n - 1)
    BY <1>3, <1>4, <2>2
  <2> QED
    BY <1>6, <1>7, <2>3, <2>4, <2>5 DEF IdsInOrder
<1> QED
  BY <1>1, <1>2, <1>8, <1>9, <1>10, OthersKept DEF ClientInv

(* A closed connection: the goroutine is gone and the wire is empty. *)
LEMMA ClosedKept ==
    ASSUME TypeOK, NEW c \in Clients, ClientInv(c), UNCHANGED <<truth, got>>,
           ~conn'[c], thread'[c] = "none", net'[c] = <<>>
    PROVE  ClientInv(c)'
<1>1. DOMAIN net'[c] = {}
  OBVIOUS
<1>2. Served(c)' /\ SnapBegins(c)'
  BY DEF Served, SnapBegins
<1>3. FramesNamed(c)'
  BY <1>1 DEF ClientInv, FramesNamed, Named
<1>4. IdsInOrder(c)'
  BY <1>1 DEF ClientInv, IdsInOrder, SawError
<1> QED
  BY <1>2, <1>3, <1>4 DEF ClientInv

LEMMA CloseInv ==
    ASSUME TypeOK, StreamInv, NEW c \in Clients, EndOfStream(c) \/ Drop(c)
    PROVE  StreamInv'
<1>1. \A d \in Clients \ {c} : Untouched(d)
  BY DEF EndOfStream, Drop, TypeOK, Untouched
<1>2. UNCHANGED jobVars /\ phase # "none"
  BY DEF EndOfStream, Drop, StreamInv, RecordInv
<1>3. ~conn'[c] /\ thread'[c] = "none" /\ net'[c] = <<>> /\ UNCHANGED <<truth, got>>
  BY DEF EndOfStream, Drop, TypeOK, jobVars
<1>4. ClientInv(c)'
  BY <1>3, ClosedKept DEF StreamInv
<1> QED
  BY <1>1, <1>2, <1>4, OthersKept

LEMMA RestartInv ==
    ASSUME TypeOK, StreamInv, RestartDaemon
    PROVE  StreamInv'
<1>1. ASSUME NEW c \in Clients PROVE ClientInv(c)'
  <2>1. ~conn'[c] /\ thread'[c] = "none" /\ net'[c] = <<>> /\ UNCHANGED <<truth, got>>
    BY DEF RestartDaemon
  <2> QED
    BY <2>1, ClosedKept DEF StreamInv
<1>2. RecordInv'
  BY DEF RestartDaemon, StreamInv, RecordInv
<1> QED
  BY <1>1, <1>2 DEF StreamInv

(* The clock, the eviction and a step that changes nothing. *)
LEMMA ClockInv ==
    ASSUME TypeOK, StreamInv, TTLPasses \/ Evict \/ UNCHANGED vars
    PROVE  StreamInv'
<1>1. /\ phase' = phase /\ truth' = truth /\ entry' \in {entry, Absent}
      /\ UNCHANGED <<conn, streamVars, net, got>>
  BY DEF TTLPasses, Evict, vars, streamVars
<1>2. Begins(List, List')
  BY <1>1, ListTyped DEF List
<1>3. ASSUME NEW c \in Clients PROVE ClientInv(c)'
  <2>1. Untouched(c)
    BY <1>1 DEF streamVars, Untouched
  <2> QED
    BY <1>2, <2>1, UntouchedKept DEF StreamInv
<1>4. RecordInv'
  BY <1>1 DEF StreamInv, RecordInv
<1> QED
  BY <1>3, <1>4 DEF StreamInv

LEMMA StreamInvStep ==
    ASSUME TypeOK, StreamInv, [Next]_vars
    PROVE  StreamInv'
<1>1. ASSUME NEW c \in Clients, Server(c) \/ Client(c) \/ Drop(c) PROVE StreamInv'
  BY <1>1, PollInv, SendInv, LoopInv, SendErrorInv, ConnectInv, ReceiveInv, CloseInv
     DEF Server, Client
<1> QED
  BY <1>1, NewJobInv, StoreResultInv, ClockInv, RestartInv DEF Next, Rest

(***************************************************************************)
(* The stream invariant: whatever snapshots the connections of a client    *)
(* polled, each is a beginning of the job's list, every frame carries the  *)
(* event its id names, and up to the first error event the ids of a client *)
(* are consecutive.                                                        *)
(***************************************************************************)
THEOREM StreamInvariant == Spec => []StreamInv
<1>1. Init => TypeOK /\ StreamInv
  BY InitTyped, InitInv
<1>2. TypeOK /\ StreamInv /\ [Next]_vars => (TypeOK /\ StreamInv)'
  BY TypeStep, StreamInvStep
<1> QED
  BY <1>1, <1>2, PTL DEF Spec

-----------------------------------------------------------------------------
(* What the invariant says of the clients. *)

(***************************************************************************)
(* An id names an event (Writer.SetSequence and the numbering of           *)
(* buildJobEvents): on every connection of every client the frame with id  *)
(* i carries the i-th event of the job's list.                             *)
(***************************************************************************)
THEOREM IdNamesEventHolds == Spec => []IdNamesEvent
<1>1. TypeOK /\ StreamInv => IdNamesEvent
  <2> SUFFICES ASSUME TypeOK, StreamInv, NEW c \in Clients,
                      NEW f \in Range(got[c]) \cup Range(net[c])
               PROVE  Named(f)
    BY DEF IdNamesEvent, Named
  <2>1. FramesNamed(c)
    BY DEF StreamInv, ClientInv
  <2> QED
    BY <2>1 DEF FramesNamed, Range
<1> QED
  BY <1>1, StreamTypeCorrect, StreamInvariant, PTL

(***************************************************************************)
(* Replay is exact (streamJob over reconnects with Last-Event-ID): a       *)
(* client that saw no error event has a beginning of the job's list, none  *)
(* lost, none twice, none out of order.                                    *)
(***************************************************************************)
THEOREM ReplayExactHolds == Spec => []ReplayExact
<1>1. TypeOK /\ StreamInv => ReplayExact
  <2> SUFFICES ASSUME TypeOK, StreamInv, NEW c \in Clients, ~SawError(c)
               PROVE  IsPrefix(Received(c), List)
    BY DEF ReplayExact, List
  <2> DEFINE g == Len(got[c])
             r == Received(c)
  <2>1. got[c] \in Seq(Frames) /\ g \in Nat /\ DOMAIN got[c] = 1..g
    BY LenProperties DEF TypeOK
  <2>2. ASSUME NEW i \in 1..g
        PROVE  i <= Len(List) /\ List[i] = got[c][i].ev
    <3>1. got[c][i].id = i /\ Named(got[c][i]) /\ got[c][i].ev # ErrorEvent
      BY <2>1 DEF StreamInv, ClientInv, IdsInOrder, FramesNamed, SawError
    <3> QED
      BY <3>1 DEF Named, List
  <2>3. Len(List) \in Nat
    BY ListTyped
  <2>4. r \in [1..g -> Events] /\ \A i \in 1..g : r[i] = got[c][i].ev
    <3>1. \A i \in 1..g : got[c][i] \in Frames
      BY <2>1, ElementOfSeq
    <3> QED
      BY <2>1, <3>1 DEF Received, Frames
  <2> HIDE DEF r, g
  <2>5. r \in Seq(Events)
    BY <2>1, <2>4, FunctionIsSeq
  <2>6. Len(r) = g
    BY <2>1, <2>4, <2>5, LenProperties
  <2>7. g <= Len(List)
    <3>1. CASE g = 0
      BY <2>3, <3>1
    <3>2. CASE g # 0
      BY <2>1, <2>2, <3>2
    <3> QED
      BY <3>1, <3>2
  <2>8. /\ SubSeq(r, 1, g) \in Seq(Events) /\ SubSeq(List, 1, g) \in Seq(Events)
        /\ Len(SubSeq(r, 1, g)) = g /\ Len(SubSeq(List, 1, g)) = g
        /\ \A i \in 1..g : SubSeq(r, 1, g)[i] = r[i] /\ SubSeq(List, 1, g)[i] = List[i]
    <3>1. \A i \in 1..g : r[i] \in Events /\ List[i] \in Events
      BY <2>2, <2>4
    <3> QED
      BY <2>1, <3>1, SubSeqProperties
  <2>9. SubSeq(r, 1, g) = SubSeq(List, 1, g)
    BY <2>1, <2>2, <2>4, <2>8, SeqEqual
  <2> QED
    BY <2>6, <2>7, <2>9 DEF IsPrefix, r
<1> QED
  BY <1>1, StreamTypeCorrect, StreamInvariant, PTL
=============================================================================
