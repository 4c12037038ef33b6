------------------------------ MODULE VarsStore ------------------------------
(***************************************************************************)
(* The vars store (internal/vars): one JSON file per scope, read on every  *)
(* request, and rewritten as a whole by every change of a key, under a     *)
(* reader-writer lock per scope.  The new file is prepared beside the old  *)
(* one and renamed over it.                                                *)
(*                                                                         *)
(* A value is known by the request that wrote it, which is its caller too. *)
(* Temporary files are seen by no operation of the store: scopes are the   *)
(* ones that vars.toml lists.                                              *)
(***************************************************************************)
EXTENDS Naturals, FiniteSets

CONSTANTS
    MaxRequests,  \* bound on the requests, numbered as they arrive
    Scopes, Keys,
    Reserved,     \* keys that start with an underscore
    Malformed,    \* keys that do not match the pattern
    Ops,          \* [scope, kind, key]: what a request may ask for
    Allow,        \* Allow[s]: the allow list of scope s, {} if it is not configured
    Enabled,      \* vars.toml is there
    MaxFaults,    \* bound on failing file operations and on edits by hand
    MaxCrashes,   \* bound on crashes
    Missing,      \* no value, no request
    Absent,       \* no file
    Garbage,      \* a file that does not parse
    Null          \* a file that holds the JSON value null: it parses to a nil map

Requests == 1..MaxRequests

Reads == {"list", "get"}

Kinds == Reads \cup {"set", "delete", "deleteScope"}

ASSUME VarsAssumption ==
    /\ MaxRequests \in Nat
    /\ Ops \subseteq [scope : Scopes, kind : Kinds, key : Keys]
    /\ Allow \in [Scopes -> SUBSET {"read", "write"}]
    /\ Enabled \in BOOLEAN
    /\ Reserved \subseteq Keys /\ Malformed \subseteq Keys
    /\ Missing \notin Requests /\ Missing \notin Ops
    /\ MaxFaults \in Nat /\ MaxCrashes \in Nat

VARIABLES
    file,      \* file[s]: the content of s's file
    writer,    \* writer[s]: who holds s's lock for writing
    readers,   \* readers[s]: who holds it for reading
    op,        \* op[r]: what r asks for
    pc,        \* pc[r]: where r's goroutine is
    data,      \* data[r]: the scopeData that r is about to write
    result,    \* result[r]: what r is told
    faults, crashes

lockVars == <<writer, readers>>
boundVars == <<faults, crashes>>
vars == <<file, writer, readers, op, pc, data, result, faults, crashes>>

Nothing == [k \in Keys |-> Missing]

Contents == [values : [Keys -> Requests \cup {Missing}], by : Requests \cup {Missing}]

Empty == [values |-> Nothing, by |-> Missing]

Told(status, values) == [status |-> status, values |-> values]

TypeOK ==
    /\ file \in [Scopes -> Contents \cup {Absent, Garbage, Null}]
    /\ writer \in [Scopes -> Requests \cup {Missing}]
    /\ readers \in [Scopes -> SUBSET Requests]
    /\ op \in [Requests -> Ops \cup {Missing}]
    /\ pc \in [Requests -> {"idle", "lock", "read", "write", "unlock", "done", "lost"}]
    /\ data \in [Requests -> Contents]
    /\ result \in [Requests -> [status : {"none", "refused", "ok", "missing", "error"},
                                values : [Keys -> Requests \cup {Missing}]]]
    /\ faults \in 0..MaxFaults
    /\ crashes \in 0..MaxCrashes

Init ==
    /\ file = [s \in Scopes |-> Absent]
    /\ writer = [s \in Scopes |-> Missing]
    /\ readers = [s \in Scopes |-> {}]
    /\ op = [r \in Requests |-> Missing]
    /\ pc = [r \in Requests |-> "idle"]
    /\ data = [r \in Requests |-> Empty]
    /\ result = [r \in Requests |-> Told("none", Nothing)]
    /\ faults = 0
    /\ crashes = 0

-----------------------------------------------------------------------------
Goto(r, label) == pc' = [pc EXCEPT ![r] = label]

(* What handleList, handleEnv, handleGet, handleSet and handleDelete make  *)
(* of the store's value or error: 200 or 204, 404, 400, or 500.            *)
Tell(r, status, values) == result' = [result EXCEPT ![r] = Told(status, values)]

(* r's outcome is settled; the deferred unlock and the answer follow.      *)
Settle(r, status, values) ==
    /\ Goto(r, "unlock")
    /\ Tell(r, status, values)

Fault ==
    /\ faults < MaxFaults
    /\ faults' = faults + 1
    /\ UNCHANGED crashes

Scope(r) == op[r].scope

IsRead(r) == op[r].kind \in Reads

findScope(s) == Allow[s] # {}

(* The allow list for operations on a whole scope, and for those on a key. *)
routeScope(o) ==
    \/ o.kind = "list" /\ "read" \in Allow[o.scope]
    \/ o.kind = "deleteScope" /\ "write" \in Allow[o.scope]

routeKey(o) ==
    \/ o.kind = "get" /\ "read" \in Allow[o.scope]
    \/ o.kind \in {"set", "delete"} /\ "write" \in Allow[o.scope]

(* 503, 404 or 403 where it does not hold.                                 *)
route(o) == Enabled /\ findScope(o.scope) /\ (routeScope(o) \/ routeKey(o))

(* Only Set looks at the pattern; the operations on a scope have no key.   *)
KeyAccepted(o) ==
    /\ o.kind \in {"get", "set", "delete"} => o.key \notin Reserved
    /\ o.kind = "set" => o.key \notin Malformed

Arrives(r) ==
    /\ pc[r] = "idle"
    /\ \A q \in 1..(r - 1) : pc[q] # "idle"

Arrive(r, o) ==
    /\ Arrives(r)
    /\ route(o) /\ KeyAccepted(o)
    /\ op' = [op EXCEPT ![r] = o]
    /\ Goto(r, "lock")
    /\ UNCHANGED <<file, lockVars, data, result, boundVars>>

(* Also for a method that the endpoint does not take (405), a body that is *)
(* too large or cannot be read (400), and a request cancelled before the   *)
(* store looks at it.                                                      *)
Refuse(r, o, fits) ==
    /\ Arrives(r)
    /\ ~(fits /\ route(o) /\ KeyAccepted(o))
    /\ Goto(r, "done")
    /\ Tell(r, "refused", Nothing)
    /\ UNCHANGED <<file, lockVars, op, data, boundVars>>

-----------------------------------------------------------------------------
(* Writers of different keys that do not exclude each other.               *)
MutantLockShared(r) ==
    /\ pc[r] = "lock" /\ ~IsRead(r)
    /\ readers' = [readers EXCEPT ![Scope(r)] = @ \cup {r}]
    /\ Goto(r, IF op[r].kind = "deleteScope" THEN "write" ELSE "read")
    /\ UNCHANGED <<file, writer, op, data, result, boundVars>>

(* mu.Lock().  DeleteScope reads nothing.                                  *)
Lock(r) ==
    /\ pc[r] = "lock" /\ ~IsRead(r)
    /\ writer[Scope(r)] = Missing /\ readers[Scope(r)] = {}
    /\ writer' = [writer EXCEPT ![Scope(r)] = r]
    /\ Goto(r, IF op[r].kind = "deleteScope" THEN "write" ELSE "read")
    /\ UNCHANGED <<file, readers, op, data, result, boundVars>>

(* mu.RLock().                                                             *)
RLock(r) ==
    /\ pc[r] = "lock" /\ IsRead(r)
    /\ writer[Scope(r)] = Missing
    /\ readers' = [readers EXCEPT ![Scope(r)] = @ \cup {r}]
    /\ Goto(r, "read")
    /\ UNCHANGED <<file, writer, op, data, result, boundVars>>

(* A return that leaves the writer's lock behind.                          *)
MutantUnlockOnSuccess(r) ==
    /\ pc[r] = "unlock"
    /\ Goto(r, "done")
    /\ readers' = [readers EXCEPT ![Scope(r)] = @ \ {r}]
    /\ writer' = [writer EXCEPT ![Scope(r)] =
                    IF @ = r /\ result[r].status = "ok" THEN Missing ELSE @]
    /\ UNCHANGED <<file, op, data, result, boundVars>>

(* The deferred unlock, and the answer.                                    *)
Unlock(r) ==
    /\ pc[r] = "unlock"
    /\ Goto(r, "done")
    /\ readers' = [readers EXCEPT ![Scope(r)] = @ \ {r}]
    /\ writer' = [writer EXCEPT ![Scope(r)] = IF @ = r THEN Missing ELSE @]
    /\ UNCHANGED <<file, op, data, result, boundVars>>

-----------------------------------------------------------------------------
(* readScope: what the file parses to, a missing file told apart.          *)
readScope(s) == IF file[s] \in {Absent, Null} THEN Empty ELSE file[s]

(* List, and RenderEnv over it: a missing scope is an empty one.           *)
List(r) ==
    /\ pc[r] = "read" /\ op[r].kind = "list"
    /\ file[Scope(r)] # Garbage
    /\ Settle(r, "ok", readScope(Scope(r)).values)
    /\ UNCHANGED <<file, lockVars, op, data, boundVars>>

Get(r) ==
    /\ pc[r] = "read" /\ op[r].kind = "get"
    /\ file[Scope(r)] # Garbage
    /\ LET v == readScope(Scope(r)).values[op[r].key] IN
        IF v = Missing
        THEN Settle(r, "missing", Nothing)
        ELSE Settle(r, "ok", [Nothing EXCEPT ![op[r].key] = v])
    /\ UNCHANGED <<file, lockVars, op, data, boundVars>>

(* _meta.updated_by gets the key.                                          *)
MutantSetCaller(r) ==
    /\ pc[r] = "read" /\ op[r].kind = "set"
    /\ file[Scope(r)] \notin {Garbage, Null}
    /\ data' = [data EXCEPT ![r] =
                    [values |-> [readScope(Scope(r)).values EXCEPT ![op[r].key] = r],
                     by |-> op[r].key]]
    /\ Goto(r, "write")
    /\ UNCHANGED <<file, lockVars, op, result, boundVars>>

(* readScopeOrEmpty, the change of the key and of _meta.                   *)
Set(r) ==
    /\ pc[r] = "read" /\ op[r].kind = "set"
    /\ file[Scope(r)] \notin {Garbage, Null}
    /\ data' = [data EXCEPT ![r] =
                    [values |-> [readScope(Scope(r)).values EXCEPT ![op[r].key] = r], by |-> r]]
    /\ Goto(r, "write")
    /\ UNCHANGED <<file, lockVars, op, result, boundVars>>

Delete(r) ==
    /\ pc[r] = "read" /\ op[r].kind = "delete"
    /\ file[Scope(r)] \notin {Garbage, Null}
    /\ data' = [data EXCEPT ![r] =
                    [values |-> [readScope(Scope(r)).values EXCEPT ![op[r].key] = Missing],
                     by |-> r]]
    /\ Goto(r, "write")
    /\ UNCHANGED <<file, lockVars, op, result, boundVars>>

(* The file does not parse, or a change is made to a nil map: the panic    *)
(* unwinds through the deferred unlock and net/http ends the request.      *)
ReadRejected(r) ==
    /\ pc[r] = "read"
    /\ \/ file[Scope(r)] = Garbage
       \/ file[Scope(r)] = Null /\ ~IsRead(r)
    /\ Settle(r, "error", Nothing)
    /\ UNCHANGED <<file, lockVars, op, data, boundVars>>

ReadFails(r) ==
    /\ pc[r] = "read"
    /\ Fault
    /\ Settle(r, "error", Nothing)
    /\ UNCHANGED <<file, lockVars, op, data>>

(* writeScope: the rename puts the prepared file in place.                 *)
writeScope(r) ==
    /\ pc[r] = "write" /\ op[r].kind # "deleteScope"
    /\ file' = [file EXCEPT ![Scope(r)] = data[r]]
    /\ Settle(r, "ok", Nothing)
    /\ data' = [data EXCEPT ![r] = Empty]
    /\ UNCHANGED <<lockVars, op, boundVars>>

(* A missing file is no error.                                             *)
DeleteScope(r) ==
    /\ pc[r] = "write" /\ op[r].kind = "deleteScope"
    /\ file' = [file EXCEPT ![Scope(r)] = Absent]
    /\ Settle(r, "ok", Nothing)
    /\ UNCHANGED <<lockVars, op, data, boundVars>>

(* One of the steps up to the rename fails, or the removal does.           *)
WriteFails(r) ==
    /\ pc[r] = "write"
    /\ Fault
    /\ Settle(r, "error", Nothing)
    /\ data' = [data EXCEPT ![r] = Empty]
    /\ UNCHANGED <<file, lockVars, op>>

-----------------------------------------------------------------------------
(* The operator damages a file by hand.  He cannot take the lock: an edit  *)
(* during a change would be overwritten by it, and is left out.            *)
Damage(s, content) ==
    /\ Fault
    /\ writer[s] = Missing
    /\ file' = [file EXCEPT ![s] = content]
    /\ UNCHANGED <<lockVars, op, pc, data, result>>

(* The daemon dies and starts again: the locks are memory.                 *)
Crash ==
    /\ crashes < MaxCrashes
    /\ crashes' = crashes + 1
    /\ pc' = [r \in Requests |-> IF pc[r] \in {"idle", "done"} THEN pc[r] ELSE "lost"]
    /\ writer' = [s \in Scopes |-> Missing]
    /\ readers' = [s \in Scopes |-> {}]
    /\ data' = [r \in Requests |-> Empty]
    /\ UNCHANGED <<file, op, result, faults>>

Step(r) ==
    \/ Lock(r) \/ RLock(r) \/ Unlock(r)
    \/ List(r) \/ Get(r) \/ Set(r) \/ Delete(r) \/ ReadRejected(r)
    \/ writeScope(r) \/ DeleteScope(r)

Next ==
    \/ \E r \in Requests :
        \/ \E o \in Ops : Arrive(r, o) \/ \E fits \in BOOLEAN : Refuse(r, o, fits)
        \/ Step(r) \/ ReadFails(r) \/ WriteFails(r)
    \/ \E s \in Scopes, c \in {Garbage, Null} : Damage(s, c)
    \/ Crash

Spec == Init /\ [][Next]_vars

(***************************************************************************)
(* Goroutines run.  Every request takes the lock once, so that a waiting   *)
(* one finds it free in the end and weak fairness is enough.               *)
(***************************************************************************)
FairSpec == Spec /\ \A r \in Requests : WF_vars(Step(r))

-----------------------------------------------------------------------------
(***************************************************************************)
(* The inductive invariant behind the refinement.  The store reads a file  *)
(* in one step and renames its successor over it in a later one, so that   *)
(* all depends on the prepared successor being the change of what the file *)
(* holds NOW: the holder of the writer's lock is the only one to touch the *)
(* file, and whoever is about to write is that holder.                     *)
(***************************************************************************)
RunningIsAsked ==
    \A r \in Requests : pc[r] \in {"lock", "read", "write", "unlock"} => op[r] \in Ops

OnlyChangesWrite ==
    \A r \in Requests : pc[r] = "write" => ~IsRead(r)

WriterHoldsLock ==
    \A r \in Requests :
        pc[r] \in {"read", "write", "unlock"} /\ ~IsRead(r) => writer[Scope(r)] = r

Changed(r) ==
    [values |-> [readScope(Scope(r)).values EXCEPT
                    ![op[r].key] = IF op[r].kind = "set" THEN r ELSE Missing],
     by |-> r]

PreparedIsCurrent ==
    \A r \in Requests :
        pc[r] = "write" /\ op[r].kind # "deleteScope" =>
            /\ file[Scope(r)] \notin {Garbage, Null}
            /\ data[r] = Changed(r)

StoreInv ==
    /\ TypeOK
    /\ RunningIsAsked
    /\ OnlyChangesWrite
    /\ WriterHoldsLock
    /\ PreparedIsCurrent

-----------------------------------------------------------------------------
Stage(r) ==
    CASE pc[r] = "idle"   -> "idle"
      [] pc[r] = "unlock" -> "decided"
      [] pc[r] = "done"   -> "answered"
      [] pc[r] = "lost"   -> "lost"
      [] OTHER            -> "pending"

Abstract == INSTANCE VarsMap WITH
    Unreadable <- {Garbage},
    Damaged <- {Garbage, Null},
    map <- file,
    stage <- [r \in Requests |-> Stage(r)]

(***************************************************************************)
(* The files implement the map: concurrent changes of one scope are all    *)
(* kept, a reader is told one state of the scope, a request that fails or  *)
(* is lost in a crash has changed nothing or all it was to change, and     *)
(* _meta.updated_by is the caller of the last change ("atomically writes   *)
(* sd to the scope's JSON file").                                          *)
(***************************************************************************)
ImplementsMap == Abstract!Spec

(***************************************************************************)
(* Every request is answered unless the daemon dies: no path through the   *)
(* store, the failing ones included, keeps a scope's lock.                 *)
(***************************************************************************)
EveryRequestAnswered ==
    \A r \in Requests : pc[r] = "lock" ~> pc[r] \in {"done", "lost"}
=============================================================================
