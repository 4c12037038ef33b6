----------------------------- MODULE FilesInbox -----------------------------
(***************************************************************************)
(* The files endpoints (internal/files): uploads into a tool's inbox and   *)
(* to a configured path, reads with and without the file's state, and      *)
(* the listing and the deletion of what lies in an inbox.                  *)
(*                                                                         *)
(* An upload prepares a temporary file beside its destination and renames  *)
(* it.  Temporary files are listed with the others, and can be read, and   *)
(* in an inbox deleted, like them.  Work on a configured path is done      *)
(* under the identity of its rule: a goroutine pinned to an operating      *)
(* system thread changes the thread's group and user, which the kernel     *)
(* keeps per thread, does its work and ends, and the thread ends with it.  *)
(* All other work runs on whatever thread Go's scheduler finds; so do the  *)
(* lstat calls for the entries of a listed directory, also of a path.      *)
(***************************************************************************)
EXTENDS Naturals, FiniteSets

CONSTANTS
    MaxRequests,   \* bound on the requests, numbered as they arrive
    Threads,       \* operating system threads
    Kinds,         \* the kinds of requests considered
    UseAs,         \* the rule of the path names an identity
    Enabled,       \* files.toml is there
    Permissions,   \* what the rule of the path allows
    MaxFaults,     \* bound on failing system calls and broken uploads
    MaxCrashes,    \* bound on crashes
    None

Requests == 1..MaxRequests

(* One file of an inbox and one file under a rule.                         *)
Places == {"inbox", "path"}

AllKinds == {"inboxWrite", "inboxRead", "inboxList", "inboxDelete", "write", "read", "stat", "list"}

OnPath == {"write", "read", "stat", "list"}

Writes == {"inboxWrite", "write"}

ASSUME FilesAssumption ==
    /\ MaxRequests \in Nat
    /\ Threads # {} /\ None \notin Threads
    /\ Kinds \subseteq AllKinds
    /\ UseAs \in BOOLEAN /\ Enabled \in BOOLEAN
    /\ Permissions \subseteq {"read", "write"}
    /\ MaxFaults \in Nat /\ MaxCrashes \in Nat

VARIABLES
    file,      \* file[p]: the upload that lies at p, and whether all of it
    temp,      \* temp[r]: the temporary file of upload r
    ident,     \* ident[t]: the identity of thread t
    thread,    \* thread[r]: the thread that r's goroutine is pinned to
    kind,      \* kind[r]: what r asks for
    pc,        \* pc[r]: where r is
    code,      \* code[r]: the answer to r, 0 before it is settled
    seen,      \* seen[r]: the file whose content r has read
    put,       \* history: the uploads that were renamed to their destination
    acted,     \* history: acted[r]: r's system calls, each with its identity
    faults, crashes

fileVars == <<file, temp, put>>
boundVars == <<faults, crashes>>
vars == <<file, temp, ident, thread, kind, pc, code, seen, put, acted, faults, crashes>>

File == [by : Requests, state : {"partial", "whole"}]

(* What a reader was given, and whether it had named a temporary file.     *)
Content == [by : Requests, state : {"partial", "whole"}, temporary : BOOLEAN]

Identities == {"daemon", "mixed", "user"}

(* System calls: lstat of a directory's entry, and all others.             *)
Calls == {"lstat", "work"}

Working == {"body", "pin", "drop", "create", "copy", "rename", "read", "stat", "list", "info",
            "delete", "exit"}

TypeOK ==
    /\ file \in [Places -> File \cup {None}]
    /\ temp \in [Requests -> {"partial", "whole", None}]
    /\ ident \in [Threads -> Identities]
    /\ thread \in [Requests -> Threads \cup {None}]
    /\ kind \in [Requests -> Kinds \cup {None}]
    /\ pc \in [Requests -> {"idle", "done", "lost"} \cup Working]
    /\ code \in [Requests -> {0, 200, 204, 400, 403, 404, 405, 500, 503}]
    /\ seen \in [Requests -> Content \cup {None}]
    /\ put \subseteq Requests
    /\ acted \in [Requests -> SUBSET [call : Calls, as : Identities]]
    /\ faults \in 0..MaxFaults
    /\ crashes \in 0..MaxCrashes

Init ==
    /\ file = [p \in Places |-> None]
    /\ temp = [r \in Requests |-> None]
    /\ ident = [t \in Threads |-> "daemon"]
    /\ thread = [r \in Requests |-> None]
    /\ kind = [r \in Requests |-> None]
    /\ pc = [r \in Requests |-> "idle"]
    /\ code = [r \in Requests |-> 0]
    /\ seen = [r \in Requests |-> None]
    /\ put = {}
    /\ acted = [r \in Requests |-> {}]
    /\ faults = 0
    /\ crashes = 0

-----------------------------------------------------------------------------
Goto(r, label) == pc' = [pc EXCEPT ![r] = label]

Fault ==
    /\ faults < MaxFaults
    /\ faults' = faults + 1
    /\ UNCHANGED crashes

Place(r) == IF kind[r] \in OnPath THEN "path" ELSE "inbox"

(* Writes to a path always change identity, reads only if the rule says    *)
(* as whom; the inbox is the daemon's own.                                 *)
Pinned(k) == k = "write" \/ (k \in OnPath /\ UseAs)

(* As whom the work of a request is meant to be done.  The entries of a    *)
(* directory are looked at by the handler itself, after the directory.     *)
Intended(k, call) == IF Pinned(k) /\ call # "lstat" THEN "user" ELSE "daemon"

Free(t) == \A r \in Requests : thread[r] # t

(* r makes a system call, on its own thread or on any that is free.        *)
Call(r, c) ==
    \E t \in Threads :
        /\ IF thread[r] = None THEN Free(t) ELSE t = thread[r]
        /\ acted' = [acted EXCEPT ![r] = @ \cup {[call |-> c, as |-> ident[t]]}]

Act(r) == Call(r, "work")

(* r's work is over: a pinned goroutine has yet to end.                    *)
Finish(r, status) ==
    /\ Goto(r, IF thread[r] = None THEN "done" ELSE "exit")
    /\ code' = [code EXCEPT ![r] = status]

-----------------------------------------------------------------------------
(* ServeHTTP, serveInbox and the checks of the handlers.                   *)
Allowed(k) ==
    k \in OnPath => (IF k = "write" THEN "write" ELSE "read") \in Permissions

(* Work that is named like the request.                                    *)
MutantFirstStep(k) == k

(* The first step of the work itself.                                      *)
FirstStep(k) ==
    CASE k = "inboxWrite"  -> "create"
      [] k = "inboxRead"   -> "read"
      [] k = "inboxList"   -> "list"
      [] k = "inboxDelete" -> "delete"
      [] k = "write"       -> "create"
      [] k = "list"        -> "list"
      [] OTHER             -> "read"

Arrives(r) ==
    /\ pc[r] = "idle"
    /\ \A q \in 1..(r - 1) : pc[q] # "idle"

(* A body for a path is read before the goroutine is pinned.               *)
Arrive(r, k) ==
    /\ Arrives(r)
    /\ Enabled /\ Allowed(k)
    /\ kind' = [kind EXCEPT ![r] = k]
    /\ Goto(r, CASE k = "write" -> "body"
                 [] Pinned(k)   -> "pin"
                 [] OTHER       -> FirstStep(k))
    /\ UNCHANGED <<fileVars, ident, thread, code, seen, acted, boundVars>>

(* 503, 405, a missing header or parameter or a path that leaves its       *)
(* directory (400), no rule or not permitted (403), no such endpoint (404). *)
Refuse(r, status) ==
    /\ Arrives(r)
    /\ Goto(r, "done")
    /\ code' = [code EXCEPT ![r] = status]
    /\ UNCHANGED <<fileVars, ident, thread, kind, seen, acted, boundVars>>

-----------------------------------------------------------------------------
(* The change of identity.                                                 *)
Pin(r, t) ==
    /\ pc[r] = "pin"
    /\ Free(t)
    /\ thread' = [thread EXCEPT ![r] = t]
    /\ Goto(r, "drop")
    /\ UNCHANGED <<fileVars, ident, kind, code, seen, acted, boundVars>>

(* rawSetgid, rawSetuid.                                                   *)
DropIdentity(r) ==
    /\ pc[r] = "drop"
    /\ ident' = [ident EXCEPT ![thread[r]] = "user"]
    /\ Goto(r, IF kind[r] = "stat" /\ seen[r] # None THEN "stat" ELSE FirstStep(kind[r]))
    /\ UNCHANGED <<fileVars, thread, kind, code, seen, acted, boundVars>>

(* One of the two calls fails, the second with the group changed.          *)
DropFails(r) ==
    /\ pc[r] = "drop"
    /\ Fault
    /\ \E i \in {"daemon", "mixed"} : ident' = [ident EXCEPT ![thread[r]] = i]
    /\ Finish(r, 500)
    /\ UNCHANGED <<fileVars, thread, kind, seen, acted>>

(* The handler goes on: it looks at the entries of a directory itself, and *)
(* has the state of a file read by another goroutine.  That it may do so   *)
(* before the pinned goroutine has ended makes no difference: the thread   *)
(* is nobody else's till then.                                             *)
AfterGoroutine(r) ==
    Goto(r, IF code[r] # 0 THEN "done" ELSE IF kind[r] = "list" THEN "info" ELSE "pin")

(* defer runtime.UnlockOSThread().                                         *)
MutantThreadReturns(r) ==
    /\ pc[r] = "exit"
    /\ thread' = [thread EXCEPT ![r] = None]
    /\ AfterGoroutine(r)
    /\ UNCHANGED <<fileVars, ident, kind, code, seen, acted, boundVars>>

(* The goroutine ends without unlocking, its thread with it; Go starts a   *)
(* new one from a thread that was never changed.                           *)
GoroutineEnds(r) ==
    /\ pc[r] = "exit"
    /\ thread' = [thread EXCEPT ![r] = None]
    /\ ident' = [ident EXCEPT ![thread[r]] = "daemon"]
    /\ AfterGoroutine(r)
    /\ UNCHANGED <<fileVars, kind, code, seen, acted, boundVars>>

-----------------------------------------------------------------------------
(* atomicWrite and atomicWriteAs.                                          *)
ReadBody(r) ==
    /\ pc[r] = "body"
    /\ Goto(r, "pin")
    /\ UNCHANGED <<fileVars, ident, thread, kind, code, seen, acted, boundVars>>

(* MkdirAll and CreateTemp.                                                *)
CreateTemp(r) ==
    /\ pc[r] = "create"
    /\ Act(r)
    /\ temp' = [temp EXCEPT ![r] = "partial"]
    /\ Goto(r, "copy")
    /\ UNCHANGED <<file, put, ident, thread, kind, code, seen, boundVars>>

(* A temporary file that was deleted stays open and is written all the same. *)
CopyBody(r) ==
    /\ pc[r] = "copy"
    /\ Act(r)
    /\ temp' = [temp EXCEPT ![r] = IF @ = None THEN None ELSE "whole"]
    /\ Goto(r, "rename")
    /\ UNCHANGED <<file, put, ident, thread, kind, code, seen, boundVars>>

(* An upload that goes on with what it has got.                            *)
MutantCopyErrorDropped(r) ==
    /\ pc[r] = "copy"
    /\ Fault
    /\ Act(r)
    /\ Goto(r, "rename")
    /\ UNCHANGED <<fileVars, ident, thread, kind, code, seen>>

(* A step fails, or the sender breaks off; the temporary file is removed.  *)
UploadFails(r) ==
    /\ pc[r] \in {"body", "create", "copy", "rename"}
    /\ Fault
    /\ IF pc[r] = "body" THEN UNCHANGED acted ELSE Act(r)
    /\ temp' = [temp EXCEPT ![r] = None]
    /\ Finish(r, 500)
    /\ UNCHANGED <<file, put, ident, thread, kind, seen>>

(* An upload that does not look at what the rename says.                   *)
MutantRenameUnchecked(r) ==
    /\ pc[r] = "rename"
    /\ Act(r)
    /\ Finish(r, 200)
    /\ temp' = [temp EXCEPT ![r] = None]
    /\ IF temp[r] = None
       THEN UNCHANGED <<file, put>>
       ELSE /\ file' = [file EXCEPT ![Place(r)] = [by |-> r, state |-> temp[r]]]
            /\ put' = put \cup {r}
    /\ UNCHANGED <<ident, thread, kind, seen, boundVars>>

(* It fails when the temporary file has gone.                              *)
Rename(r) ==
    /\ pc[r] = "rename"
    /\ Act(r)
    /\ temp' = [temp EXCEPT ![r] = None]
    /\ IF temp[r] = None
       THEN /\ Finish(r, 500)
            /\ UNCHANGED <<file, put>>
       ELSE /\ Finish(r, 200)
            /\ file' = [file EXCEPT ![Place(r)] = [by |-> r, state |-> temp[r]]]
            /\ put' = put \cup {r}
    /\ UNCHANGED <<ident, thread, kind, seen, boundVars>>

-----------------------------------------------------------------------------
(* What can be read beside p: the file at p, and temporary files.          *)
Readable(p) ==
    {[by |-> f.by, state |-> f.state, temporary |-> FALSE] : f \in {file[p]} \ {None}}
        \cup {[by |-> u, state |-> temp[u], temporary |-> TRUE] :
                  u \in {q \in Requests : temp[q] # None /\ Place(q) = p}}

(* r is given some content, or names a file that is not there.             *)
GivenOf(r, p) == \E c \in Readable(p) : seen' = [seen EXCEPT ![r] = c]

NotThere(r) == Finish(r, 404) /\ UNCHANGED seen

(* handleReadFile: with stat=true the state is read next.                  *)
ReadFile(r) ==
    /\ pc[r] = "read" /\ kind[r] \in OnPath
    /\ Act(r)
    /\ \/ NotThere(r)
       \/ /\ GivenOf(r, "path")
          /\ kind[r] # "stat"
          /\ Finish(r, 200)
       \/ /\ GivenOf(r, "path")
          /\ kind[r] = "stat"
          /\ Goto(r, IF thread[r] # None THEN "exit" ELSE "stat")
          /\ UNCHANGED code
    /\ UNCHANGED <<fileVars, ident, thread, kind, boundVars>>

InboxReadFile(r) ==
    /\ pc[r] = "read" /\ kind[r] = "inboxRead"
    /\ Act(r)
    /\ NotThere(r) \/ (GivenOf(r, "inbox") /\ Finish(r, 200))
    /\ UNCHANGED <<fileVars, ident, thread, kind, boundVars>>

(* readFileStat: size and times of what has the name now, beside the       *)
(* digest of the content read before.                                      *)
StatFile(r) ==
    /\ pc[r] = "stat"
    /\ Act(r)
    /\ LET gone == IF seen[r].temporary THEN temp[seen[r].by] = None ELSE file["path"] = None
       IN  Finish(r, IF gone THEN 500 ELSE 200)
    /\ UNCHANGED <<fileVars, ident, thread, kind, seen, boundVars>>

(* readDir, and the answer if the directory of the rule is missing.        *)
ListDir(r) ==
    /\ pc[r] = "list" /\ kind[r] = "list"
    /\ Act(r)
    /\ \/ Finish(r, 404)
       \/ Goto(r, IF thread[r] # None THEN "exit" ELSE "info") /\ UNCHANGED code
    /\ UNCHANGED <<fileVars, ident, thread, kind, seen, boundVars>>

(* A missing inbox is an empty one.                                        *)
InboxList(r) ==
    /\ pc[r] = "list" /\ kind[r] = "inboxList"
    /\ Act(r)
    /\ \/ Finish(r, 200)
       \/ Goto(r, "info") /\ UNCHANGED code
    /\ UNCHANGED <<fileVars, ident, thread, kind, seen, boundVars>>

(* e.Info() of every entry, if there are any; one that has gone is left    *)
(* out.                                                                    *)
EntryInfo(r) ==
    /\ pc[r] = "info"
    /\ Call(r, "lstat") \/ UNCHANGED acted
    /\ Finish(r, 200)
    /\ UNCHANGED <<fileVars, ident, thread, kind, seen, boundVars>>

ReadFails(r) ==
    /\ pc[r] \in {"read", "stat", "list", "delete"}
    /\ Fault
    /\ Act(r)
    /\ Finish(r, 500)
    /\ UNCHANGED <<fileVars, ident, thread, kind, seen>>

(* handleInboxDelete, of the file, of one that is not there, or of the     *)
(* temporary file of upload u.                                             *)
DeleteFile(r) ==
    /\ pc[r] = "delete"
    /\ Act(r)
    /\ \/ /\ file["inbox"] # None
          /\ file' = [file EXCEPT !["inbox"] = None]
          /\ Finish(r, 204)
       \/ Finish(r, 404) /\ UNCHANGED file
    /\ UNCHANGED <<temp, put, ident, thread, kind, seen, boundVars>>

DeleteTemp(r, u) ==
    /\ pc[r] = "delete"
    /\ kind[u] = "inboxWrite" /\ temp[u] # None
    /\ Act(r)
    /\ temp' = [temp EXCEPT ![u] = None]
    /\ Finish(r, 204)
    /\ UNCHANGED <<file, put, ident, thread, kind, seen, boundVars>>

-----------------------------------------------------------------------------
(* The daemon dies: its temporary files stay, its threads do not.          *)
Crash ==
    /\ crashes < MaxCrashes
    /\ crashes' = crashes + 1
    /\ pc' = [r \in Requests |-> IF pc[r] \in Working THEN "lost" ELSE pc[r]]
    /\ thread' = [r \in Requests |-> None]
    /\ ident' = [t \in Threads |-> "daemon"]
    /\ UNCHANGED <<fileVars, kind, code, seen, acted, faults>>

Step(r) ==
    \/ \E t \in Threads : Pin(r, t)
    \/ DropIdentity(r) \/ GoroutineEnds(r)
    \/ ReadBody(r) \/ CreateTemp(r) \/ CopyBody(r) \/ Rename(r)
    \/ ReadFile(r) \/ StatFile(r) \/ ListDir(r)
    \/ InboxReadFile(r) \/ InboxList(r) \/ EntryInfo(r)
    \/ DeleteFile(r) \/ \E u \in Requests : DeleteTemp(r, u)

Failure(r) == DropFails(r) \/ UploadFails(r) \/ ReadFails(r)

Next ==
    \/ \E r \in Requests :
        \/ \E k \in Kinds : Arrive(r, k)
        \/ \E status \in {400, 403, 404, 405, 503} : Refuse(r, status)
        \/ Step(r) \/ Failure(r)
    \/ Crash

Spec == Init /\ [][Next]_vars

-----------------------------------------------------------------------------
(***************************************************************************)
(* What lies at a destination is all of what one sender sent: never a      *)
(* part, never a mixture of two uploads to the same destination ("writes   *)
(* it atomically to the path"), and so is what a reader of a destination   *)
(* is given.  Only who names a temporary file may be given a part.         *)
(***************************************************************************)
UploadsWhole ==
    /\ \A p \in Places : file[p] # None => file[p].state = "whole"
    /\ \A r \in Requests : seen[r] # None /\ ~seen[r].temporary => seen[r].state = "whole"

(***************************************************************************)
(* An upload that is answered 200 was put in its place, also when someone  *)
(* deletes listed files of the inbox meanwhile; one that is answered with  *)
(* an error was not.                                                       *)
(***************************************************************************)
AnswerTellsOutcome ==
    \A r \in Requests : kind[r] \in Writes /\ code[r] # 0 => (code[r] = 200 <=> r \in put)

(***************************************************************************)
(* Every system call of a request is made under the identity that is meant *)
(* for it: the user of the path's rule, or the daemon, whatever threads    *)
(* other requests have used before ("intentionally let the thread die").   *)
(* The work on a path under a rule with an identity is the user's, except  *)
(* for the lstat calls of a listing (e.Info), which are the daemon's.      *)
(***************************************************************************)
WorksAsIntended ==
    \A r \in Requests : kind[r] # None =>
        \A a \in acted[r] : a.as = Intended(kind[r], a.call)

-----------------------------------------------------------------------------
(***************************************************************************)
(* The inductive invariants.  WorksAsIntended rests on the life of the     *)
(* threads: nobody shares a thread that a goroutine is pinned to, a thread *)
(* that nobody is pinned to has never changed identity, and a request      *)
(* touches files on a pinned thread exactly if its kind is to be pinned.   *)
(***************************************************************************)
Touching == {"create", "copy", "rename", "read", "stat", "list", "delete"}

OneThreadEach ==
    \A r, q \in Requests : thread[r] # None /\ thread[r] = thread[q] => r = q

FreeIsDaemon ==
    \A t \in Threads : Free(t) => ident[t] = "daemon"

PinnedByKind ==
    \A r \in Requests :
        /\ pc[r] \in {"idle", "body", "pin", "info", "done", "lost"} => thread[r] = None
        /\ pc[r] \in {"drop", "exit"} => thread[r] # None
        /\ pc[r] \in {"body", "pin", "drop", "exit"} => Pinned(kind[r])
        /\ pc[r] \in Touching =>
            IF Pinned(kind[r])
            THEN thread[r] # None /\ ident[thread[r]] = "user"
            ELSE thread[r] = None

UntouchedYet ==
    \A r \in Requests : pc[r] = "idle" => acted[r] = {}

ThreadInv ==
    /\ OneThreadEach
    /\ FreeIsDaemon
    /\ PinnedByKind
    /\ UntouchedYet
    /\ WorksAsIntended

(* Behind UploadsWhole: what is about to be renamed is whole, or gone.     *)
WholeBeforeRename ==
    \A r \in Requests : pc[r] = "rename" => temp[r] \in {None, "whole"}

UploadInv == UploadsWhole /\ WholeBeforeRename

(***************************************************************************)
(* Behind AnswerTellsOutcome: nothing is answered before the work is over, *)
(* nothing is put without an answer, and only uploads can be put.          *)
(***************************************************************************)
UnsettledYet ==
    \A r \in Requests : pc[r] \in {"idle"} \cup (Working \ {"exit"}) => code[r] = 0

PutIsSettled ==
    \A r \in Requests : code[r] = 0 => r \notin put

ReadersRead ==
    \A r \in Requests :
        pc[r] \in {"read", "stat", "list", "info", "delete"} => kind[r] \notin Writes

OutcomeInv ==
    /\ AnswerTellsOutcome
    /\ UnsettledYet
    /\ PutIsSettled
    /\ ReadersRead
=============================================================================
