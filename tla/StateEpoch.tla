----------------------------- MODULE StateEpoch -----------------------------
(***************************************************************************)
(* The node's mutation epoch (internal/state/epoch.go) and the two request *)
(* paths that use it: the requireAdminKey middleware in front of every     *)
(* /admin route (internal/api/admin.go) and POST /services/provision       *)
(* (internal/api/provision.go).                                            *)
(*                                                                         *)
(* Requests run concurrently.  Epoch's RWMutex makes Validate, Current and *)
(* Increment one step each; nothing is held from Validate to Increment.    *)
(* An /admin route writes its answer inside the handler, before Increment; *)
(* provision answers after Increment.  Increment raises the value in       *)
(* memory first and then writes the file; the write can fail.              *)
(***************************************************************************)
EXTENDS Naturals

CONSTANTS
    Reqs,          \* the requests
    NoEpoch,       \* X-State-Epoch missing or not a number
    MaxEpoch,      \* bound on the epochs callers name
    MaxCrashes,    \* bound on crashes
    MaxWriteFails  \* bound on failing writes of the epoch file

ASSUME EpochAssumption ==
    /\ MaxEpoch \in Nat
    /\ MaxCrashes \in Nat
    /\ MaxWriteFails \in Nat
    /\ NoEpoch \notin Nat

VARIABLES
    value,      \* Epoch.value
    file,       \* the number in state.epoch (0 while the file is missing)
    up,         \* the daemon runs
    pc,         \* pc[r]: where the goroutine of r is
    route,      \* route[r]: "admin" (a mutation), "query" (GET) or "provision"
    caller,     \* caller[r]: the epoch r names
    reply,      \* reply[r]: the status sent, 0 before that
    header,     \* header[r]: X-State-Epoch of the answer, or NoEpoch
    applied,    \* the requests whose change of the node's state took effect
    finished,   \* history: mutations of this incarnation that incremented
    prior,      \* history: prior[r] is finished at the moment r was validated
    crashes, writeFails

epochVars == <<value, file, writeFails>>
reqVars == <<pc, route, caller, reply, header, applied, prior>>
vars == <<value, file, up, pc, route, caller, reply, header, applied, finished,
          prior, crashes, writeFails>>

Running == {"key", "validate", "conflict", "authorize", "apply", "increment"}

Routes == {"admin", "query", "provision"}

TypeOK ==
    /\ value \in Nat
    /\ file \in Nat
    /\ up \in BOOLEAN
    /\ pc \in [Reqs -> {"idle", "done", "lost"} \cup Running]
    /\ route \in [Reqs -> Routes]
    /\ caller \in [Reqs -> 0..MaxEpoch \cup {NoEpoch}]
    /\ reply \in [Reqs -> {0, 200, 400, 401, 403, 405, 409, 500}]
    /\ header \in [Reqs -> Nat \cup {NoEpoch}]
    /\ applied \subseteq Reqs
    /\ finished \subseteq Reqs
    /\ prior \in [Reqs -> SUBSET Reqs]
    /\ crashes \in 0..MaxCrashes
    /\ writeFails \in 0..MaxWriteFails

(* NewEpoch on a node that has no epoch file yet.                          *)
Init ==
    /\ value = 0
    /\ file = 0
    /\ up = TRUE
    /\ pc = [r \in Reqs |-> "idle"]
    /\ route \in [Reqs -> Routes]
    /\ caller = [r \in Reqs |-> NoEpoch]
    /\ reply = [r \in Reqs |-> 0]
    /\ header = [r \in Reqs |-> NoEpoch]
    /\ applied = {}
    /\ finished = {}
    /\ prior = [r \in Reqs |-> {}]
    /\ crashes = 0
    /\ writeFails = 0

-----------------------------------------------------------------------------
Goto(r, l) ==
    /\ pc' = [pc EXCEPT ![r] = l]
    /\ UNCHANGED <<reply, header>>

Answer(r, code) ==
    /\ pc' = [pc EXCEPT ![r] = "done"]
    /\ reply' = [reply EXCEPT ![r] = code]
    /\ UNCHANGED header

AnswerWith(r, code, epoch) ==
    /\ pc' = [pc EXCEPT ![r] = "done"]
    /\ reply' = [reply EXCEPT ![r] = code]
    /\ header' = [header EXCEPT ![r] = epoch]

(* The request arrives with the epoch its client last saw or made up.      *)
Receive(r) ==
    /\ up
    /\ pc[r] = "idle"
    /\ \E e \in 0..MaxEpoch \cup {NoEpoch} : caller' = [caller EXCEPT ![r] = e]
    /\ Goto(r, IF route[r] = "provision" THEN "validate" ELSE "key")
    /\ UNCHANGED <<route, applied, prior, epochVars, up, finished, crashes>>

IsMutationMethod(r) == route[r] = "admin"

(* requireAdminKey: no key file, a wrong key, or on.                       *)
CheckKey(r) ==
    /\ up
    /\ pc[r] = "key"
    /\ \/ Answer(r, 403)
       \/ Answer(r, 401)
       \/ Goto(r, IF IsMutationMethod(r) THEN "validate" ELSE "authorize")
    /\ UNCHANGED <<route, caller, applied, prior, epochVars, up, finished, crashes>>

(* parseCallerEpoch found a number.                                        *)
ParseCallerEpoch(r) == caller[r] # NoEpoch

(* Epoch.Validate: neither stale nor from the future.                      *)
ValidEpoch(r) == caller[r] = value

(* Provision's method test, parseCallerEpoch, then Epoch.Validate: one     *)
(* read of the value.                                                      *)
Validate(r) ==
    /\ up
    /\ pc[r] = "validate"
    /\ \/ route[r] = "provision" /\ Answer(r, 405) /\ UNCHANGED prior
       \/ ~ParseCallerEpoch(r) /\ Answer(r, 400) /\ UNCHANGED prior
       \/ ParseCallerEpoch(r) /\ ~ValidEpoch(r) /\ Goto(r, "conflict") /\ UNCHANGED prior
       \/ /\ ParseCallerEpoch(r)
          /\ ValidEpoch(r)
          /\ Goto(r, "authorize")
          /\ prior' = [prior EXCEPT ![r] = finished]
    /\ UNCHANGED <<route, caller, applied, epochVars, up, finished, crashes>>

(* A conflict answered with another status.                                *)
MutantConflictStatus(r) ==
    /\ up
    /\ pc[r] = "conflict"
    /\ AnswerWith(r, 412, value)
    /\ UNCHANGED <<route, caller, applied, prior, epochVars, up, finished, crashes>>

(* The 409 reads the value a second time, for the header.                  *)
Conflict(r) ==
    /\ up
    /\ pc[r] = "conflict"
    /\ AnswerWith(r, 409, value)
    /\ UNCHANGED <<route, caller, applied, prior, epochVars, up, finished, crashes>>

(* The caller's identity and the grants: refused or on.                    *)
Authorize(r) ==
    /\ up
    /\ pc[r] = "authorize"
    /\ Answer(r, 403) \/ Goto(r, "apply")
    /\ UNCHANGED <<route, caller, applied, prior, epochVars, up, finished, crashes>>

(***************************************************************************)
(* The handler proper.  It refuses without a change (400 stands for all    *)
(* these answers, from 400 to 500), or changes the node's state and then   *)
(* fails (a file or a reload; 500 stands for these), or succeeds.  An      *)
(* /admin route has then sent its 200; provision has not.                  *)
(***************************************************************************)
ApplyRefused(r) ==
    /\ Answer(r, 400)
    /\ UNCHANGED applied

ApplyHalf(r) ==
    /\ route[r] # "query"
    /\ applied' = applied \cup {r}
    /\ Answer(r, 500)

ApplyDone(r) ==
    \/ route[r] = "query" /\ Answer(r, 200) /\ UNCHANGED applied
    \/ /\ route[r] = "admin"
       /\ applied' = applied \cup {r}
       /\ pc' = [pc EXCEPT ![r] = "increment"]
       /\ reply' = [reply EXCEPT ![r] = 200]
       /\ UNCHANGED header
    \/ route[r] = "provision" /\ applied' = applied \cup {r} /\ Goto(r, "increment")

Apply(r) ==
    /\ up
    /\ pc[r] = "apply"
    /\ ApplyRefused(r) \/ ApplyHalf(r) \/ ApplyDone(r)
    /\ UNCHANGED <<route, caller, prior, epochVars, up, finished, crashes>>

(***************************************************************************)
(* Epoch.Increment under its lock.  The middleware's header comes after    *)
(* the answer and reaches nobody; provision's comes before it.             *)
(***************************************************************************)
AfterIncrement(r, epoch) ==
    IF route[r] = "provision" THEN AnswerWith(r, 200, epoch) ELSE Goto(r, "done")

IncrementSaved(r) ==
    /\ value' = value + 1
    /\ file' = value'
    /\ UNCHANGED writeFails
    /\ AfterIncrement(r, value')

(* An Increment that takes the value back when the write fails.            *)
MutantIncrementRollsBack(r) ==
    /\ writeFails < MaxWriteFails
    /\ writeFails' = writeFails + 1
    /\ UNCHANGED <<value, file>>
    /\ AfterIncrement(r, NoEpoch)

IncrementUnsaved(r) ==
    /\ writeFails < MaxWriteFails
    /\ writeFails' = writeFails + 1
    /\ value' = value + 1
    /\ UNCHANGED file
    /\ AfterIncrement(r, NoEpoch)

Increment(r) ==
    /\ up
    /\ pc[r] = "increment"
    /\ IncrementSaved(r) \/ IncrementUnsaved(r)
    /\ finished' = finished \cup {r}
    /\ UNCHANGED <<route, caller, applied, prior, up, crashes>>

-----------------------------------------------------------------------------
Crash ==
    /\ up
    /\ crashes < MaxCrashes
    /\ crashes' = crashes + 1
    /\ up' = FALSE
    /\ finished' = {}
    /\ pc' = [r \in Reqs |-> IF pc[r] \in Running THEN "lost" ELSE pc[r]]
    /\ UNCHANGED <<route, caller, reply, header, applied, prior, epochVars>>

(* A load that takes every error for a missing file.                       *)
MutantRestartZero ==
    /\ ~up
    /\ up' = TRUE
    /\ value' = 0
    /\ UNCHANGED <<reqVars, file, writeFails, finished, crashes>>

(* NewEpoch: load reads the file.                                          *)
Restart ==
    /\ ~up
    /\ up' = TRUE
    /\ value' = file
    /\ UNCHANGED <<reqVars, file, writeFails, finished, crashes>>

(* The daemon listens and no request is in flight.                         *)
Idle ==
    /\ up
    /\ \A r \in Reqs : pc[r] \notin Running
    /\ UNCHANGED vars

Step(r) == CheckKey(r) \/ Validate(r) \/ Conflict(r) \/ Authorize(r) \/ Apply(r) \/ Increment(r)

Next ==
    \/ \E r \in Reqs : Receive(r) \/ Step(r)
    \/ Crash
    \/ Restart
    \/ Idle

Spec == Init /\ [][Next]_vars

-----------------------------------------------------------------------------
(***************************************************************************)
(* Stale writes are detected in real time: a mutation that was validated   *)
(* after another one of the same incarnation had ended names a later epoch *)
(* than that one did, even when the epoch file could not be written.       *)
(***************************************************************************)
RealTimeOrder ==
    \A r \in Reqs : \A q \in prior[r] :
        pc[r] \in {"authorize", "apply", "increment"} \/ r \in applied
            => caller[q] < caller[r]

(***************************************************************************)
(* An epoch that provision returned with its 200 is in the epoch file from *)
(* then on, so that a restart never starts below it.                       *)
(***************************************************************************)
ReturnedEpochSaved ==
    \A r \in Reqs : reply[r] = 200 /\ header[r] # NoEpoch => header[r] <= file

(***************************************************************************)
(* The value a request is validated against is never below the epoch file, *)
(* whatever writes failed and however often the daemon restarted.          *)
(***************************************************************************)
NeverBehindFile == value >= file

(***************************************************************************)
(* Once a 200 has returned epoch e, no request that names an epoch below e *)
(* passes Validate again, before or after a crash.                         *)
(***************************************************************************)
StaleStaysStale ==
    [][\A r, q \in Reqs :
        /\ pc[r] = "validate" /\ pc'[r] = "authorize"
        /\ reply[q] = 200 /\ header[q] # NoEpoch
        => header[q] <= caller[r]]_vars

-----------------------------------------------------------------------------
(***************************************************************************)
(* The inductive invariant behind the properties above.  A mutation that   *)
(* incremented named an epoch below the value; one that passed Validate    *)
(* names one that is not above it; histories speak of started requests     *)
(* only; and a request has no header before its answer.                    *)
(***************************************************************************)
InFlight == {"authorize", "apply", "increment"}

FinishedBelow ==
    \A q \in finished : pc[q] # "idle" /\ caller[q] \in Nat /\ caller[q] < value

ValidatedBelow ==
    \A r \in Reqs : pc[r] \in InFlight /\ route[r] # "query" => caller[r] \in Nat /\ caller[r] <= value

RightRoute ==
    \A r \in Reqs :
        /\ pc[r] \in {"validate", "increment"} => route[r] # "query"
        /\ pc[r] = "key" => route[r] # "provision"

PriorStarted ==
    \A r \in Reqs :
        /\ \A q \in prior[r] : pc[q] # "idle" /\ caller[q] \in Nat
        /\ pc[r] \in {"idle", "key", "validate", "conflict"} \/ route[r] = "query" => prior[r] = {}

HeaderLast ==
    \A r \in Reqs : pc[r] \in {"idle"} \cup Running => header[r] = NoEpoch

DownIsQuiet ==
    ~up => finished = {} /\ \A r \in Reqs : pc[r] \notin Running

EpochInv ==
    /\ TypeOK
    /\ DownIsQuiet
    /\ NeverBehindFile
    /\ FinishedBelow
    /\ ValidatedBelow
    /\ RightRoute
    /\ PriorStarted
    /\ RealTimeOrder
    /\ HeaderLast
    /\ ReturnedEpochSaved
=============================================================================
