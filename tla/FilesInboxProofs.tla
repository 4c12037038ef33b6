-------------------------- MODULE FilesInboxProofs --------------------------
(***************************************************************************)
(* Proofs about FilesInbox, for any number of requests and threads, any    *)
(* faults and crashes, and whatever the configuration allows.              *)
(***************************************************************************)
EXTENDS FilesInbox, TLAPS

Codes == {0, 200, 204, 400, 403, 404, 405, 500, 503}

Labels == {"idle", "done", "lost"} \cup Working

(* The steps at which a request touches files.                             *)
Touch(r) ==
    \/ CreateTemp(r) \/ CopyBody(r) \/ Rename(r)
    \/ ReadFile(r) \/ StatFile(r) \/ ListDir(r) \/ InboxReadFile(r) \/ InboxList(r)
    \/ DeleteFile(r) \/ \E u \in Requests : DeleteTemp(r, u)
    \/ UploadFails(r) /\ pc[r] # "body"
    \/ ReadFails(r)

(* The other steps of a request.                                           *)
Manage(r) ==
    \/ \E k \in Kinds : Arrive(r, k)
    \/ \E status \in {400, 403, 404, 405, 503} : Refuse(r, status)
    \/ \E t \in Threads : Pin(r, t)
    \/ DropIdentity(r) \/ DropFails(r) \/ GoroutineEnds(r)
    \/ ReadBody(r)
    \/ UploadFails(r) /\ pc[r] = "body"

LEMMA NextSplits == Next <=> Crash \/ \E r \in Requests : Touch(r) \/ EntryInfo(r) \/ Manage(r)
  BY DEF Next, Step, Failure, Touch, Manage

LEMMA FirstStepType ==
    ASSUME NEW k
    PROVE  /\ FirstStep(k) \in {"create", "read", "list", "delete"}
           /\ k \in Writes <=> FirstStep(k) = "create"
  BY DEF FirstStep, Writes

LEMMA LabelFacts ==
    /\ Touching \subseteq Working
    /\ Working \subseteq Labels
    /\ {"idle", "done", "lost", "body", "pin", "drop", "info", "exit"} \subseteq Labels
    /\ {"body", "pin", "drop", "info", "exit"} \subseteq Working
    /\ \A x \in {"idle", "done", "lost", "body", "pin", "drop", "info", "exit"} : x \notin Touching
    /\ \A x \in {"idle", "done", "lost"} : x \notin Working
  BY DEF Touching, Working, Labels

-----------------------------------------------------------------------------
(* Type correctness.                                                       *)
LEMMA FinishType ==
    ASSUME TypeOK, NEW r \in Requests, NEW status \in Codes, Finish(r, status)
    PROVE  pc' \in [Requests -> Labels] /\ code' \in [Requests -> Codes]
  BY DEF TypeOK, Finish, Goto, Labels, Working, Codes

LEMMA GotoType ==
    ASSUME TypeOK, NEW r \in Requests, NEW label \in Labels, Goto(r, label)
    PROVE  pc' \in [Requests -> Labels]
  BY DEF TypeOK, Goto, Labels

LEMMA CallType ==
    ASSUME TypeOK, NEW r \in Requests, NEW c \in Calls, Call(r, c)
    PROVE  acted' \in [Requests -> SUBSET [call : Calls, as : Identities]]
  <1>1. PICK t \in Threads : acted' = [acted EXCEPT ![r] = @ \cup {[call |-> c, as |-> ident[t]]}]
    BY DEF Call
  <1>2. [call |-> c, as |-> ident[t]] \in [call : Calls, as : Identities]
    BY DEF TypeOK
  <1>3. acted \in [Requests -> SUBSET [call : Calls, as : Identities]]
    BY DEF TypeOK
  <1>4. QED
    BY <1>1, <1>2, <1>3

LEMMA ReadableType ==
    ASSUME TypeOK, NEW p \in Places, NEW c \in Readable(p)
    PROVE  /\ c \in Content
           /\ ~c.temporary => file[p] # None /\ c.state = file[p].state
  <1>1. CASE \E f \in {file[p]} \ {None} :
                c = [by |-> f.by, state |-> f.state, temporary |-> FALSE]
    BY <1>1 DEF TypeOK, File, Content
  <1>2. CASE \E u \in {q \in Requests : temp[q] # None /\ Place(q) = p} :
                c = [by |-> u, state |-> temp[u], temporary |-> TRUE]
    BY <1>2 DEF TypeOK, Content
  <1>3. QED
    BY <1>1, <1>2 DEF Readable

(* What a reading step does to what was seen.                              *)
LEMMA SeenType ==
    ASSUME TypeOK, NEW r \in Requests, NEW p \in Places, GivenOf(r, p) \/ seen' = seen
    PROVE  seen' \in [Requests -> Content \cup {None}]
  <1>1. seen \in [Requests -> Content \cup {None}]
    BY DEF TypeOK
  <1>2. CASE GivenOf(r, p)
    <2>1. PICK c \in Readable(p) : seen' = [seen EXCEPT ![r] = c]
      BY <1>2 DEF GivenOf
    <2>2. c \in Content
      BY <2>1, ReadableType
    <2>3. QED
      BY <1>1, <2>1, <2>2
  <1>3. QED
    BY <1>1, <1>2

LEMMA FaultType ==
    ASSUME TypeOK, Fault
    PROVE  faults' \in 0..MaxFaults /\ crashes' \in 0..MaxCrashes
  BY FilesAssumption DEF TypeOK, Fault

LEMMA InitType == Init => TypeOK
  BY FilesAssumption DEF Init, TypeOK, Identities

LEMMA TouchType ==
    ASSUME TypeOK, NEW r \in Requests, Touch(r)
    PROVE  TypeOK'
  <1>1. /\ acted' \in [Requests -> SUBSET [call : Calls, as : Identities]]
        /\ UNCHANGED <<ident, thread, kind>>
        /\ faults' \in 0..MaxFaults /\ crashes' \in 0..MaxCrashes
    <2>1. /\ Act(r)
          /\ UNCHANGED <<ident, thread, kind>>
          /\ Fault \/ UNCHANGED <<faults, crashes>>
      BY DEF Touch, CreateTemp, CopyBody, Rename, ReadFile, StatFile, ListDir, InboxReadFile,
         InboxList, DeleteFile, DeleteTemp, UploadFails, ReadFails, boundVars
    <2>2. QED
      BY <2>1, CallType, FaultType DEF TypeOK, Act, Calls
  <1>2. pc' \in [Requests -> Labels] /\ code' \in [Requests -> Codes]
    <2>1. ASSUME NEW label \in Labels, Goto(r, label), UNCHANGED code
          PROVE  pc' \in [Requests -> Labels] /\ code' \in [Requests -> Codes]
      BY <2>1, GotoType DEF TypeOK, Codes
    <2>2. ASSUME NEW status \in {200, 204, 404, 500}, Finish(r, status)
          PROVE  pc' \in [Requests -> Labels] /\ code' \in [Requests -> Codes]
      BY <2>2, FinishType DEF Codes
    <2>3. \/ \E label \in {"copy", "rename", "exit", "stat", "info"} :
                Goto(r, label) /\ UNCHANGED code
          \/ \E status \in {200, 204, 404, 500} : Finish(r, status)
      <3>1. CASE CreateTemp(r) \/ CopyBody(r)
        BY <3>1 DEF CreateTemp, CopyBody
      <3>2. CASE Rename(r)
        BY <3>2 DEF Rename
      <3>3. CASE ReadFile(r)
        BY <3>3 DEF ReadFile, NotThere
      <3>4. CASE StatFile(r) \/ ListDir(r) \/ InboxReadFile(r) \/ InboxList(r)
        BY <3>4 DEF StatFile, ListDir, InboxReadFile, InboxList, NotThere
      <3>5. CASE DeleteFile(r) \/ (\E u \in Requests : DeleteTemp(r, u))
                 \/ UploadFails(r) \/ ReadFails(r)
        BY <3>5 DEF DeleteFile, DeleteTemp, UploadFails, ReadFails
      <3>6. QED
        BY <3>1, <3>2, <3>3, <3>4, <3>5 DEF Touch
    <2>4. {"copy", "rename", "exit", "stat", "info"} \subseteq Labels
      BY DEF Labels, Working
    <2>5. QED
      BY <2>1, <2>2, <2>3, <2>4
  <1>3. /\ file' \in [Places -> File \cup {None}]
        /\ temp' \in [Requests -> {"partial", "whole", None}]
        /\ put' \subseteq Requests
        /\ seen' \in [Requests -> Content \cup {None}]
    <2>1. CASE CreateTemp(r) \/ CopyBody(r) \/ UploadFails(r)
      BY <2>1 DEF CreateTemp, CopyBody, UploadFails, TypeOK
    <2>2. CASE Rename(r)
      <3>1. CASE temp[r] = None
        BY <2>2, <3>1 DEF Rename, TypeOK
      <3>2. CASE temp[r] # None
        <4>1. [by |-> r, state |-> temp[r]] \in File
          BY <3>2 DEF TypeOK, File
        <4>2. QED
          BY <2>2, <3>2, <4>1 DEF Rename, TypeOK
      <3>3. QED
        BY <3>1, <3>2
    <2>3. CASE StatFile(r) \/ ListDir(r) \/ InboxList(r) \/ ReadFails(r)
      BY <2>3 DEF StatFile, ListDir, InboxList, ReadFails, TypeOK, fileVars
    <2>4. CASE ReadFile(r) \/ InboxReadFile(r)
      <3>1. PICK p \in Places : GivenOf(r, p) \/ seen' = seen
        BY <2>4 DEF ReadFile, InboxReadFile, NotThere, Places
      <3>2. seen' \in [Requests -> Content \cup {None}]
        BY <3>1, SeenType
      <3>3. UNCHANGED <<file, temp, put>>
        BY <2>4 DEF ReadFile, InboxReadFile, fileVars
      <3>4. QED
        BY <3>2, <3>3 DEF TypeOK
    <2>5. CASE DeleteFile(r) \/ \E u \in Requests : DeleteTemp(r, u)
      BY <2>5 DEF DeleteFile, DeleteTemp, TypeOK
    <2>6. QED
      BY <2>1, <2>2, <2>3, <2>4, <2>5 DEF Touch
  <1>4. QED
    BY <1>1, <1>2, <1>3 DEF TypeOK, Labels, Codes

LEMMA EntryInfoType ==
    ASSUME TypeOK, NEW r \in Requests, EntryInfo(r)
    PROVE  TypeOK'
  <1>1. acted' \in [Requests -> SUBSET [call : Calls, as : Identities]]
    BY CallType DEF EntryInfo, TypeOK, Calls
  <1>2. pc' \in [Requests -> Labels] /\ code' \in [Requests -> Codes]
    BY FinishType DEF EntryInfo, Codes
  <1>3. UNCHANGED <<file, temp, put, ident, thread, kind, seen, faults, crashes>>
    BY DEF EntryInfo, fileVars, boundVars
  <1>4. QED
    BY <1>1, <1>2, <1>3 DEF TypeOK, Labels, Codes

LEMMA ManageType ==
    ASSUME TypeOK, NEW r \in Requests, Manage(r)
    PROVE  TypeOK'
  <1> USE DEF fileVars, boundVars
  <1>1. ASSUME NEW k \in Kinds, Arrive(r, k)
        PROVE  TypeOK'
    <2> DEFINE label == CASE k = "write" -> "body"
                          [] Pinned(k)   -> "pin"
                          [] OTHER       -> FirstStep(k)
    <2>1. label \in Labels /\ Goto(r, label)
      <3>1. label \in {"body", "pin", FirstStep(k)}
        OBVIOUS
      <3>2. FirstStep(k) \in Labels /\ "body" \in Labels /\ "pin" \in Labels
        BY FirstStepType DEF Labels, Working
      <3>3. Goto(r, label)
        BY <1>1 DEF Arrive
      <3> HIDE DEF label
      <3>4. QED
        BY <3>1, <3>2, <3>3
    <2> HIDE DEF label
    <2>2. QED
      BY <1>1, <2>1, GotoType DEF Arrive, TypeOK, Labels
  <1>2. ASSUME NEW status \in {400, 403, 404, 405, 503}, Refuse(r, status)
        PROVE  TypeOK'
    BY <1>2 DEF Refuse, Goto, TypeOK
  <1>3. ASSUME NEW t \in Threads, Pin(r, t)
        PROVE  TypeOK'
    BY <1>3 DEF Pin, Goto, TypeOK, Working
  <1>4. CASE DropIdentity(r)
    <2>1. PICK label \in {"stat", FirstStep(kind[r])} : Goto(r, label)
      BY <1>4 DEF DropIdentity
    <2>2. label \in Labels
      BY <2>1, FirstStepType DEF Labels, Working
    <2>3. QED
      BY <1>4, <2>1, <2>2, GotoType DEF DropIdentity, TypeOK, Labels, Identities
  <1>5. CASE DropFails(r)
    <2>1. pc' \in [Requests -> Labels] /\ code' \in [Requests -> Codes]
      BY <1>5, FinishType DEF DropFails, Codes
    <2>2. faults' \in 0..MaxFaults /\ crashes' \in 0..MaxCrashes
      BY <1>5, FaultType DEF DropFails
    <2>3. /\ file' = file /\ temp' = temp /\ ident' \in [Threads -> Identities]
          /\ UNCHANGED <<put, thread, kind, seen, acted>>
      <3>1. PICK i \in {"daemon", "mixed"} : ident' = [ident EXCEPT ![thread[r]] = i]
        BY <1>5 DEF DropFails
      <3>2. ident \in [Threads -> Identities] /\ i \in Identities
        BY <3>1 DEF TypeOK, Identities
      <3>3. QED
        BY <1>5, <3>1, <3>2 DEF DropFails
    <2>4. QED
      BY <2>1, <2>2, <2>3 DEF TypeOK, Labels, Codes
  <1>6. CASE GoroutineEnds(r)
    BY <1>6 DEF GoroutineEnds, AfterGoroutine, Goto, TypeOK, Working, Identities
  <1>7. CASE ReadBody(r)
    BY <1>7 DEF ReadBody, Goto, TypeOK, Working
  <1>8. CASE UploadFails(r) /\ pc[r] = "body"
    <2>1. pc' \in [Requests -> Labels] /\ code' \in [Requests -> Codes]
      BY <1>8, FinishType DEF UploadFails, Codes
    <2>2. faults' \in 0..MaxFaults /\ crashes' \in 0..MaxCrashes
      BY <1>8, FaultType DEF UploadFails
    <2>3. /\ file' = file /\ ident' = ident /\ temp' \in [Requests -> {"partial", "whole", None}]
          /\ UNCHANGED <<put, thread, kind, seen, acted>>
      BY <1>8 DEF UploadFails, TypeOK
    <2>4. QED
      BY <2>1, <2>2, <2>3 DEF TypeOK, Labels, Codes
  <1>9. QED
    BY <1>1, <1>2, <1>3, <1>4, <1>5, <1>6, <1>7, <1>8 DEF Manage

LEMMA CrashType ==
    ASSUME TypeOK, Crash
    PROVE  TypeOK'
  BY FilesAssumption DEF Crash, TypeOK, fileVars, Identities

(* Type correctness of the files endpoints.                                *)
THEOREM FilesTypeCorrect == Spec => []TypeOK
  <1>1. TypeOK /\ [Next]_vars => TypeOK'
    <2> SUFFICES ASSUME TypeOK, [Next]_vars
                 PROVE  TypeOK'
      OBVIOUS
    <2>1. CASE UNCHANGED vars
      BY <2>1 DEF TypeOK, vars
    <2>2. QED
      BY <2>1, NextSplits, TouchType, EntryInfoType, ManageType, CrashType
  <1>2. QED
    BY <1>1, InitType, PTL DEF Spec

-----------------------------------------------------------------------------
(* Identities.                                                             *)

(* A request that touches files never changes a thread or an identity      *)
(* meanwhile.                                                              *)
LEMMA TouchActs ==
    ASSUME NEW r \in Requests, Touch(r)
    PROVE  pc[r] \in Touching /\ Act(r) /\ UNCHANGED <<ident, thread, kind>>
  <1>1. CASE ReadFile(r) \/ InboxReadFile(r)
    BY <1>1 DEF ReadFile, InboxReadFile, Touching
  <1>2. CASE CreateTemp(r) \/ CopyBody(r) \/ Rename(r)
             \/ (UploadFails(r) /\ pc[r] # "body")
    BY <1>2 DEF CreateTemp, CopyBody, Rename, UploadFails, Touching
  <1>3. CASE StatFile(r) \/ ListDir(r) \/ InboxList(r)
             \/ DeleteFile(r) \/ (\E u \in Requests : DeleteTemp(r, u)) \/ ReadFails(r)
    BY <1>3 DEF StatFile, ListDir, InboxList, DeleteFile, DeleteTemp, ReadFails, Touching
  <1>4. QED
    BY <1>1, <1>2, <1>3 DEF Touch

(* It goes on touching files, or is done with them.                        *)
LEMMA TouchShape ==
    ASSUME TypeOK, ThreadInv, NEW r \in Requests, Touch(r)
    PROVE  \E label \in Touching \cup {"info", "done", "exit"} :
                /\ Goto(r, label)
                /\ label \in {"info", "done"} => thread[r] = None
                /\ label = "exit" => thread[r] # None
  <1> DEFINE Shape == \E label \in Touching \cup {"info", "done", "exit"} :
                        /\ Goto(r, label)
                        /\ label \in {"info", "done"} => thread[r] = None
                        /\ label = "exit" => thread[r] # None
  <1>1. ASSUME NEW status, Finish(r, status)
        PROVE  Shape
    <2>1. CASE thread[r] = None
      BY <1>1, <2>1 DEF Finish
    <2>2. CASE thread[r] # None
      BY <1>1, <2>2 DEF Finish
    <2>3. QED
      BY <2>1, <2>2
  <1>2. ASSUME NEW label \in {"copy", "rename", "stat"}, Goto(r, label)
        PROVE  Shape
    BY <1>2 DEF Touching
  <1>3. ASSUME Goto(r, IF thread[r] # None THEN "exit" ELSE "info")
        PROVE  Shape
    <2>1. CASE thread[r] # None
      BY <1>3, <2>1
    <2>2. CASE thread[r] = None
      BY <1>3, <2>2
    <2>3. QED
      BY <2>1, <2>2
  <1>4. ASSUME Goto(r, IF thread[r] # None THEN "exit" ELSE "stat")
        PROVE  Shape
    <2>1. CASE thread[r] # None
      BY <1>4, <2>1
    <2>2. CASE thread[r] = None
      BY <1>2, <1>4, <2>2
    <2>3. QED
      BY <2>1, <2>2
  <1>5. ASSUME InboxList(r), Goto(r, "info")
        PROVE  Shape
    <2>1. thread[r] = None
      BY <1>5 DEF InboxList, ThreadInv, PinnedByKind, Pinned, OnPath, Touching
    <2>2. QED
      BY <1>3, <1>5, <2>1
  <1>6. Shape
    <2> HIDE DEF Shape
    <2>1. CASE ReadFile(r)
      BY <1>1, <1>4, <2>1 DEF ReadFile, NotThere
    <2>2. CASE CreateTemp(r) \/ CopyBody(r)
      BY <1>2, <2>2 DEF CreateTemp, CopyBody
    <2>3. CASE ListDir(r) \/ InboxList(r) \/ InboxReadFile(r)
      BY <1>1, <1>3, <1>5, <2>3 DEF ListDir, InboxList, InboxReadFile, NotThere
    <2>4. CASE Rename(r) \/ StatFile(r)
               \/ DeleteFile(r) \/ (\E u \in Requests : DeleteTemp(r, u))
               \/ (UploadFails(r) /\ pc[r] # "body") \/ ReadFails(r)
      BY <1>1, <2>4 DEF Rename, StatFile, DeleteFile, DeleteTemp, UploadFails, ReadFails
    <2>5. QED
      BY <2>1, <2>2, <2>3, <2>4 DEF Touch
  <1>7. QED
    BY <1>6

(* It touches them under the identity that is meant for it.                *)
LEMMA ActAsIntended ==
    ASSUME TypeOK, ThreadInv, NEW r \in Requests, pc[r] \in Touching, Act(r)
    PROVE  acted' = [acted EXCEPT ![r] =
                        @ \cup {[call |-> "work", as |-> Intended(kind[r], "work")]}]
  <1>1. PICK t \in Threads :
            /\ IF thread[r] = None THEN Free(t) ELSE t = thread[r]
            /\ acted' = [acted EXCEPT ![r] = @ \cup {[call |-> "work", as |-> ident[t]]}]
    BY DEF Act, Call
  <1>2. IF Pinned(kind[r])
        THEN thread[r] # None /\ ident[thread[r]] = "user"
        ELSE thread[r] = None
    BY DEF ThreadInv, PinnedByKind
  <1>3. ident[t] = Intended(kind[r], "work")
    BY <1>1, <1>2 DEF Intended, ThreadInv, FreeIsDaemon
  <1>4. QED
    BY <1>1, <1>3

(* One more call of r, made as intended, leaves WorksAsIntended true.      *)
LEMMA CallIntended ==
    ASSUME TypeOK, WorksAsIntended, NEW r \in Requests, NEW c, kind' = kind,
           acted' = [acted EXCEPT ![r] = @ \cup {[call |-> c, as |-> Intended(kind[r], c)]}]
    PROVE  WorksAsIntended' /\ \A q \in Requests : q # r => acted'[q] = acted[q]
  <1> DEFINE a0 == [call |-> c, as |-> Intended(kind[r], c)]
  <1>1. a0.call = c /\ a0.as = Intended(kind[r], c)
    OBVIOUS
  <1> HIDE DEF a0
  <1>2. DOMAIN acted = Requests
    BY DEF TypeOK
  <1>3. /\ acted'[r] = acted[r] \cup {a0}
        /\ \A q \in Requests : q # r => acted'[q] = acted[q]
    BY <1>2 DEF a0
  <1>4. ASSUME NEW q \in Requests, kind[q] # None, NEW a \in acted'[q]
        PROVE  a.as = Intended(kind[q], a.call)
    <2>1. CASE a \in acted[q]
      BY <1>4, <2>1 DEF WorksAsIntended
    <2>2. CASE a \notin acted[q]
      <3>1. q = r /\ a = a0
        BY <1>3, <1>4, <2>2
      <3>2. QED
        BY <1>1, <3>1
    <2>3. QED
      BY <2>1, <2>2
  <1>5. QED
    BY <1>3, <1>4 DEF WorksAsIntended, Intended, Pinned

LEMMA TouchThreads ==
    ASSUME TypeOK, ThreadInv, NEW r \in Requests, Touch(r)
    PROVE  ThreadInv'
  <1>1. pc[r] \in Touching /\ Act(r) /\ ident' = ident /\ thread' = thread /\ kind' = kind
    BY TouchActs
  <1>2. PICK label \in Touching \cup {"info", "done", "exit"} :
            /\ Goto(r, label)
            /\ label \in {"info", "done"} => thread[r] = None
            /\ label = "exit" => thread[r] # None
    BY TouchShape
  <1>3. acted' = [acted EXCEPT ![r] =
                    @ \cup {[call |-> "work", as |-> Intended(kind[r], "work")]}]
    BY <1>1, ActAsIntended
  <1>4. pc'[r] = label /\ \A q \in Requests : q # r => pc'[q] = pc[q]
    BY <1>2 DEF Goto, TypeOK
  <1>5. OneThreadEach' /\ FreeIsDaemon'
    BY <1>1 DEF ThreadInv, OneThreadEach, FreeIsDaemon, Free
  <1>6. PinnedByKind'
    BY <1>1, <1>2, <1>4, LabelFacts DEF ThreadInv, PinnedByKind, Touching
  <1>7. UntouchedYet' /\ WorksAsIntended'
    <2>1. pc'[r] # "idle"
      BY <1>2, <1>4 DEF Touching
    <2>2. WorksAsIntended' /\ \A q \in Requests : q # r => acted'[q] = acted[q]
      BY <1>1, <1>3, CallIntended DEF ThreadInv
    <2>3. QED
      BY <1>4, <2>1, <2>2 DEF ThreadInv, UntouchedYet
  <1>8. QED
    BY <1>5, <1>6, <1>7 DEF ThreadInv

(* The handler looks at the entries of a directory on a thread that nobody *)
(* has changed, as the daemon.                                             *)
LEMMA EntryInfoThreads ==
    ASSUME TypeOK, ThreadInv, NEW r \in Requests, EntryInfo(r)
    PROVE  ThreadInv'
  <1>1. pc[r] = "info" /\ thread[r] = None /\ UNCHANGED <<ident, thread, kind>>
    BY DEF EntryInfo, ThreadInv, PinnedByKind
  <1>2. pc'[r] = "done" /\ \A q \in Requests : q # r => pc'[q] = pc[q]
    BY <1>1 DEF EntryInfo, Finish, Goto, TypeOK
  <1>3. OneThreadEach' /\ FreeIsDaemon'
    BY <1>1 DEF ThreadInv, OneThreadEach, FreeIsDaemon, Free
  <1>4. PinnedByKind'
    BY <1>1, <1>2, LabelFacts DEF ThreadInv, PinnedByKind
  <1>5. WorksAsIntended' /\ \A q \in Requests : q # r => acted'[q] = acted[q]
    <2>1. CASE Call(r, "lstat")
      <3>1. PICK t \in Threads :
                /\ Free(t)
                /\ acted' = [acted EXCEPT ![r] = @ \cup {[call |-> "lstat", as |-> ident[t]]}]
        BY <1>1, <2>1 DEF Call
      <3>2. ident[t] = Intended(kind[r], "lstat")
        BY <3>1 DEF Intended, ThreadInv, FreeIsDaemon
      <3>3. QED
        BY <1>1, <3>1, <3>2, CallIntended DEF ThreadInv
    <2>2. CASE acted' = acted
      BY <1>1, <2>2 DEF ThreadInv, WorksAsIntended
    <2>3. QED
      BY <2>1, <2>2 DEF EntryInfo
  <1>6. UntouchedYet'
    BY <1>2, <1>5 DEF ThreadInv, UntouchedYet
  <1>7. QED
    BY <1>3, <1>4, <1>5, <1>6 DEF ThreadInv

(* Steps that leave threads, identities and what was touched alone.        *)
LEMMA MoveThreads ==
    ASSUME TypeOK, ThreadInv, NEW r \in Requests, NEW label,
           Goto(r, label), UNCHANGED <<ident, thread, acted>>,
           \A q \in Requests : q # r => kind'[q] = kind[q],
           kind'[r] = kind[r] \/ pc[r] = "idle",
           label # "idle",
           label \in {"body", "pin", "info", "done", "lost"} => thread[r] = None,
           label \in {"drop", "exit"} => thread[r] # None,
           label \in {"body", "pin", "drop", "exit"} => Pinned(kind'[r]),
           label \in Touching => ~Pinned(kind'[r]) /\ thread[r] = None
    PROVE  ThreadInv'
  <1>1. pc'[r] = label /\ \A q \in Requests : q # r => pc'[q] = pc[q]
    BY DEF Goto, TypeOK
  <1>2. OneThreadEach' /\ FreeIsDaemon'
    BY DEF ThreadInv, OneThreadEach, FreeIsDaemon, Free
  <1>3. PinnedByKind'
    <2> SUFFICES ASSUME NEW q \in Requests
                 PROVE  /\ pc'[q] \in {"idle", "body", "pin", "info", "done", "lost"} => thread[q] = None
                        /\ pc'[q] \in {"drop", "exit"} => thread[q] # None
                        /\ pc'[q] \in {"body", "pin", "drop", "exit"} => Pinned(kind'[q])
                        /\ pc'[q] \in Touching =>
                            IF Pinned(kind'[q])
                            THEN thread[q] # None /\ ident[thread[q]] = "user"
                            ELSE thread[q] = None
      BY DEF PinnedByKind, Pinned
    <2>1. CASE q = r
      BY <1>1, <2>1
    <2>2. CASE q # r
      <3>1. pc'[q] = pc[q] /\ kind'[q] = kind[q]
        BY <1>1, <2>2
      <3>2. QED
        BY <3>1 DEF ThreadInv, PinnedByKind
    <2>3. QED
      BY <2>1, <2>2
  <1>4. UntouchedYet' /\ WorksAsIntended'
    BY <1>1 DEF ThreadInv, UntouchedYet, WorksAsIntended, Intended, Pinned
  <1>5. QED
    BY <1>2, <1>3, <1>4 DEF ThreadInv

LEMMA PinThreads ==
    ASSUME TypeOK, ThreadInv, NEW r \in Requests, NEW t \in Threads, Pin(r, t)
    PROVE  ThreadInv'
  <1>1. /\ pc[r] = "pin" /\ Free(t) /\ Pinned(kind[r]) /\ thread[r] = None
        /\ UNCHANGED <<ident, kind, acted>>
    BY DEF Pin, ThreadInv, PinnedByKind
  <1>2. /\ pc'[r] = "drop" /\ thread'[r] = t /\ t # None
        /\ \A q \in Requests : q # r => pc'[q] = pc[q] /\ thread'[q] = thread[q]
    BY FilesAssumption DEF Pin, Goto, TypeOK
  <1>3. OneThreadEach'
    BY <1>1, <1>2 DEF ThreadInv, OneThreadEach, Free
  <1>4. FreeIsDaemon'
    BY <1>1, <1>2, FilesAssumption DEF ThreadInv, FreeIsDaemon, Free
  <1>5. PinnedByKind'
    BY <1>1, <1>2, LabelFacts DEF ThreadInv, PinnedByKind
  <1>6. UntouchedYet' /\ WorksAsIntended'
    BY <1>1, <1>2 DEF ThreadInv, UntouchedYet, WorksAsIntended
  <1>7. QED
    BY <1>3, <1>4, <1>5, <1>6 DEF ThreadInv

(* rawSetgid and rawSetuid change the thread of their caller only.         *)
LEMMA DropThreads ==
    ASSUME TypeOK, ThreadInv, NEW r \in Requests, DropIdentity(r) \/ DropFails(r)
    PROVE  ThreadInv'
  <1>1. /\ pc[r] = "drop" /\ Pinned(kind[r]) /\ thread[r] # None /\ thread[r] \in Threads
        /\ UNCHANGED <<thread, kind, acted>>
    BY DEF DropIdentity, DropFails, ThreadInv, PinnedByKind, TypeOK
  <1>2. \A t \in Threads : t # thread[r] => ident'[t] = ident[t]
    BY <1>1 DEF DropIdentity, DropFails, TypeOK
  <1>3. PICK label \in Touching \cup {"exit"} :
            Goto(r, label) /\ (label \in Touching => ident'[thread[r]] = "user")
    <2>1. CASE DropIdentity(r)
      <3>1. ident'[thread[r]] = "user"
        BY <1>1, <2>1 DEF DropIdentity, TypeOK
      <3>2. PICK label \in {"stat", FirstStep(kind[r])} : Goto(r, label)
        BY <2>1 DEF DropIdentity
      <3>3. label \in Touching
        BY <3>2, FirstStepType DEF Touching
      <3>4. QED
        BY <3>1, <3>2, <3>3
    <2>2. CASE DropFails(r)
      <3>1. Goto(r, "exit") /\ "exit" \notin Touching
        BY <1>1, <2>2, LabelFacts DEF DropFails, Finish
      <3>2. QED
        BY <3>1
    <2>3. QED
      BY <2>1, <2>2
  <1>4. pc'[r] = label /\ \A q \in Requests : q # r => pc'[q] = pc[q]
    BY <1>3 DEF Goto, TypeOK
  <1>5. OneThreadEach'
    BY <1>1 DEF ThreadInv, OneThreadEach
  <1>6. FreeIsDaemon'
    BY <1>1, <1>2 DEF ThreadInv, FreeIsDaemon, Free
  <1>7. PinnedByKind'
    <2>1. \A q \in Requests : q # r /\ thread[q] # None => ident'[thread[q]] = ident[thread[q]]
      BY <1>1, <1>2 DEF ThreadInv, OneThreadEach, TypeOK
    <2>2. QED
      BY <1>1, <1>3, <1>4, <2>1, LabelFacts DEF ThreadInv, PinnedByKind
  <1>8. UntouchedYet' /\ WorksAsIntended'
    BY <1>1, <1>3, <1>4, LabelFacts DEF ThreadInv, UntouchedYet, WorksAsIntended
  <1>9. QED
    BY <1>5, <1>6, <1>7, <1>8 DEF ThreadInv

(* The goroutine ends, and the changed thread with it.                     *)
LEMMA EndThreads ==
    ASSUME TypeOK, ThreadInv, NEW r \in Requests, GoroutineEnds(r)
    PROVE  ThreadInv'
  <1>1. /\ pc[r] = "exit" /\ Pinned(kind[r]) /\ thread[r] # None /\ thread[r] \in Threads
        /\ UNCHANGED <<kind, acted>>
    BY DEF GoroutineEnds, ThreadInv, PinnedByKind, TypeOK
  <1>2. /\ pc'[r] \in {"pin", "info", "done"} /\ thread'[r] = None
        /\ \A q \in Requests : q # r => pc'[q] = pc[q] /\ thread'[q] = thread[q]
    BY DEF GoroutineEnds, AfterGoroutine, Goto, TypeOK
  <1>3. \A t \in Threads : ident'[t] = IF t = thread[r] THEN "daemon" ELSE ident[t]
    BY DEF GoroutineEnds, TypeOK
  <1>4. OneThreadEach'
    BY <1>2 DEF ThreadInv, OneThreadEach
  <1>5. FreeIsDaemon'
    BY <1>2, <1>3 DEF ThreadInv, FreeIsDaemon, Free
  <1>6. PinnedByKind'
    <2>1. \A q \in Requests : q # r /\ thread[q] # None => ident'[thread[q]] = ident[thread[q]]
      BY <1>1, <1>3 DEF ThreadInv, OneThreadEach, TypeOK
    <2>2. QED
      BY <1>1, <1>2, <2>1, LabelFacts DEF ThreadInv, PinnedByKind
  <1>7. UntouchedYet' /\ WorksAsIntended'
    BY <1>1, <1>2 DEF ThreadInv, UntouchedYet, WorksAsIntended
  <1>8. QED
    BY <1>4, <1>5, <1>6, <1>7 DEF ThreadInv

LEMMA ManageThreads ==
    ASSUME TypeOK, ThreadInv, NEW r \in Requests, Manage(r)
    PROVE  ThreadInv'
  <1>1. ASSUME NEW k \in Kinds, Arrive(r, k)
        PROVE  ThreadInv'
    <2> DEFINE label == CASE k = "write" -> "body"
                          [] Pinned(k)   -> "pin"
                          [] OTHER       -> FirstStep(k)
    <2>1. /\ pc[r] = "idle" /\ thread[r] = None /\ Goto(r, label)
          /\ UNCHANGED <<ident, thread, acted>>
          /\ kind' = [kind EXCEPT ![r] = k]
      BY <1>1 DEF Arrive, Arrives, ThreadInv, PinnedByKind
    <2>2. kind'[r] = k /\ \A q \in Requests : q # r => kind'[q] = kind[q]
      BY <2>1 DEF TypeOK
    <2>3. \/ label \in {"body", "pin"} /\ Pinned(k)
          \/ label \in Touching /\ ~Pinned(k)
      <3>1. FirstStep(k) \in Touching
        BY FirstStepType DEF Touching
      <3>2. QED
        BY <3>1 DEF Pinned
    <2> HIDE DEF label
    <2>4. QED
      BY <2>1, <2>2, <2>3, LabelFacts, MoveThreads
  <1>2. ASSUME NEW status \in {400, 403, 404, 405, 503}, Refuse(r, status)
        PROVE  ThreadInv'
    <2>1. /\ pc[r] = "idle" /\ thread[r] = None /\ Goto(r, "done")
          /\ UNCHANGED <<ident, thread, acted, kind>>
      BY <1>2 DEF Refuse, Arrives, ThreadInv, PinnedByKind
    <2>2. QED
      BY <2>1, LabelFacts, MoveThreads
  <1>3. CASE ReadBody(r) \/ (UploadFails(r) /\ pc[r] = "body")
    <2>1. /\ pc[r] = "body" /\ thread[r] = None /\ Pinned(kind[r])
          /\ Goto(r, "pin") \/ Goto(r, "done")
          /\ UNCHANGED <<ident, thread, acted, kind>>
      BY <1>3 DEF ReadBody, UploadFails, Finish, ThreadInv, PinnedByKind
    <2>2. QED
      BY <2>1, LabelFacts, MoveThreads
  <1>4. QED
    BY <1>1, <1>2, <1>3, PinThreads, DropThreads, EndThreads DEF Manage

LEMMA CrashThreads ==
    ASSUME TypeOK, ThreadInv, Crash
    PROVE  ThreadInv'
  <1>1. /\ \A q \in Requests : thread'[q] = None
        /\ \A q \in Requests : pc'[q] = IF pc[q] \in Working THEN "lost" ELSE pc[q]
        /\ \A t \in Threads : ident'[t] = "daemon"
        /\ UNCHANGED <<kind, acted>>
    BY DEF Crash
  <1>2. \A q \in Requests : pc'[q] \in {"idle", "done", "lost"} /\ (pc'[q] = "idle" => pc[q] = "idle")
    BY <1>1 DEF TypeOK
  <1>3. OneThreadEach' /\ FreeIsDaemon'
    BY <1>1 DEF OneThreadEach, FreeIsDaemon
  <1>4. PinnedByKind'
    BY <1>1, <1>2, LabelFacts DEF PinnedByKind
  <1>5. UntouchedYet' /\ WorksAsIntended'
    BY <1>1, <1>2 DEF ThreadInv, UntouchedYet, WorksAsIntended
  <1>6. QED
    BY <1>3, <1>4, <1>5 DEF ThreadInv

(* The life of the threads, and with it that every system call of a        *)
(* request is made under the identity meant for it, whatever threads other *)
(* requests have used, failed on or let die before: on a path whose rule   *)
(* names a user, that user's, but for the lstat calls of a listing, which  *)
(* are the daemon's; elsewhere the daemon's.                               *)
THEOREM WorksAsIntendedHolds == Spec => []WorksAsIntended
  <1>1. Init => ThreadInv
    BY LabelFacts DEF Init, ThreadInv, OneThreadEach, FreeIsDaemon, PinnedByKind, UntouchedYet,
       WorksAsIntended
  <1>2. TypeOK /\ ThreadInv /\ [Next]_vars => ThreadInv'
    <2> SUFFICES ASSUME TypeOK, ThreadInv, [Next]_vars
                 PROVE  ThreadInv'
      OBVIOUS
    <2>1. CASE UNCHANGED vars
      BY <2>1 DEF vars, ThreadInv, OneThreadEach, FreeIsDaemon, Free, PinnedByKind, UntouchedYet,
         WorksAsIntended
    <2>2. QED
      BY <2>1, NextSplits, TouchThreads, EntryInfoThreads, ManageThreads, CrashThreads
  <1>3. ThreadInv => WorksAsIntended
    BY DEF ThreadInv
  <1>4. QED
    BY <1>1, <1>2, <1>3, FilesTypeCorrect, PTL DEF Spec

-----------------------------------------------------------------------------
(* Uploads.                                                                *)

(* Steps that put nothing anywhere, and start no rename.                   *)
LEMMA QuietUploads ==
    ASSUME UploadInv, UNCHANGED <<file, temp>>,
           \A q \in Requests : pc'[q] = "rename" => pc[q] = "rename",
           \A q \in Requests :
              \/ seen'[q] = seen[q]
              \/ seen'[q].temporary
              \/ \E p \in Places : file[p] # None /\ seen'[q].state = file[p].state
    PROVE  UploadInv'
  BY DEF UploadInv, UploadsWhole, WholeBeforeRename

LEMMA TouchUploads ==
    ASSUME TypeOK, UploadInv, NEW r \in Requests, Touch(r)
    PROVE  UploadInv'
  <1> USE DEF Goto, fileVars
  <1>1. CASE CreateTemp(r)
    BY <1>1 DEF CreateTemp, TypeOK, UploadInv, UploadsWhole, WholeBeforeRename
  <1>2. CASE CopyBody(r)
    BY <1>2 DEF CopyBody, TypeOK, UploadInv, UploadsWhole, WholeBeforeRename
  <1>3. ASSUME NEW status, Finish(r, status)
        PROVE  \A q \in Requests : pc'[q] = "rename" => pc[q] = "rename" /\ q # r
    BY <1>3 DEF Finish, TypeOK
  <1>4. CASE Rename(r)
    <2>1. \A q \in Requests : pc'[q] = "rename" => pc[q] = "rename" /\ q # r
      BY <1>3, <1>4 DEF Rename
    <2>2. WholeBeforeRename'
      BY <1>4, <2>1 DEF Rename, TypeOK, UploadInv, WholeBeforeRename
    <2>3. temp[r] # None => temp[r] = "whole"
      BY <1>4 DEF Rename, UploadInv, WholeBeforeRename
    <2>4. \A p \in Places : file'[p] = file[p] \/ file'[p] = [by |-> r, state |-> "whole"]
      BY <1>4, <2>3 DEF Rename, TypeOK
    <2>5. UploadsWhole'
      BY <1>4, <2>4 DEF Rename, UploadInv, UploadsWhole
    <2>6. QED
      BY <2>2, <2>5 DEF UploadInv
  <1>5. CASE ReadFile(r) \/ InboxReadFile(r)
    <2>1. \A q \in Requests : pc'[q] = "rename" => pc[q] = "rename"
      <3>1. CASE ReadFile(r)
        <4>1. CASE \E label \in {"exit", "stat"} : Goto(r, label)
          BY <4>1 DEF TypeOK
        <4>2. QED
          BY <1>3, <3>1, <4>1 DEF ReadFile, NotThere
      <3>2. CASE InboxReadFile(r)
        BY <1>3, <3>2 DEF InboxReadFile, NotThere
      <3>3. QED
        BY <1>5, <3>1, <3>2
    <2>2. \A q \in Requests :
            \/ seen'[q] = seen[q]
            \/ seen'[q].temporary
            \/ \E p \in Places : file[p] # None /\ seen'[q].state = file[p].state
      <3>1. PICK p \in Places : GivenOf(r, p) \/ seen' = seen
        BY <1>5 DEF ReadFile, InboxReadFile, NotThere, Places
      <3>2. CASE seen' = seen
        BY <3>2
      <3>3. CASE GivenOf(r, p)
        <4>1. PICK c \in Readable(p) : seen' = [seen EXCEPT ![r] = c]
          BY <3>3 DEF GivenOf
        <4>2. c.temporary \/ (file[p] # None /\ c.state = file[p].state)
          BY <4>1, ReadableType
        <4>3. \A q \in Requests : seen'[q] = IF q = r THEN c ELSE seen[q]
          BY <4>1 DEF TypeOK
        <4>4. QED
          BY <4>2, <4>3
      <3>4. QED
        BY <3>1, <3>2, <3>3
    <2>3. UNCHANGED <<file, temp>>
      BY <1>5 DEF ReadFile, InboxReadFile
    <2>4. QED
      BY <2>1, <2>2, <2>3, QuietUploads
  <1>6. CASE StatFile(r) \/ ListDir(r) \/ InboxList(r) \/ ReadFails(r)
    <2>1. \A q \in Requests : pc'[q] = "rename" => pc[q] = "rename"
      <3>1. CASE \E label \in {"exit", "info"} : Goto(r, label)
        BY <3>1 DEF TypeOK
      <3>2. QED
        BY <1>3, <1>6, <3>1 DEF StatFile, ListDir, InboxList, ReadFails
    <2>2. UNCHANGED <<file, temp, seen>>
      BY <1>6 DEF StatFile, ListDir, InboxList, ReadFails
    <2>3. QED
      BY <2>1, <2>2, QuietUploads
  <1>7. CASE DeleteFile(r) \/ (\E u \in Requests : DeleteTemp(r, u)) \/ UploadFails(r)
    <2>1. \A q \in Requests : pc'[q] = "rename" => pc[q] = "rename"
      BY <1>3, <1>7 DEF DeleteFile, DeleteTemp, UploadFails
    <2>2. /\ \A q \in Requests : temp'[q] \in {temp[q], None}
          /\ \A p \in Places : file'[p] \in {file[p], None}
          /\ seen' = seen
      BY <1>7 DEF DeleteFile, DeleteTemp, UploadFails, TypeOK
    <2>3. QED
      BY <2>1, <2>2 DEF UploadInv, UploadsWhole, WholeBeforeRename
  <1>8. QED
    BY <1>1, <1>2, <1>4, <1>5, <1>6, <1>7 DEF Touch

LEMMA EntryInfoUploads ==
    ASSUME TypeOK, UploadInv, NEW r \in Requests, EntryInfo(r)
    PROVE  UploadInv'
  <1>1. PICK label \in {"done", "exit"} : Goto(r, label)
    BY DEF EntryInfo, Finish
  <1>2. \A q \in Requests : pc'[q] = "rename" => pc[q] = "rename"
    BY <1>1 DEF Goto, TypeOK
  <1>3. UNCHANGED <<file, temp, seen>>
    BY DEF EntryInfo, fileVars
  <1>4. QED
    BY <1>2, <1>3, QuietUploads

(* Where a request starts its work.                                        *)
LEMMA ArriveLabel ==
    ASSUME NEW r \in Requests, NEW k \in Kinds, Arrive(r, k)
    PROVE  \E label \in {"body", "pin", FirstStep(k)} : Goto(r, label)
  BY DEF Arrive

LEMMA ManageUploads ==
    ASSUME TypeOK, UploadInv, NEW r \in Requests, Manage(r)
    PROVE  UploadInv'
  <1> USE DEF Goto, fileVars
  <1>1. ASSUME NEW k \in Kinds, Arrive(r, k)
        PROVE  UploadInv'
    <2>1. PICK label \in {"body", "pin", FirstStep(k)} : Goto(r, label)
      BY <1>1, ArriveLabel
    <2>2. label # "rename"
      BY <2>1, FirstStepType
    <2>3. QED
      BY <1>1, <2>1, <2>2, QuietUploads DEF Arrive, TypeOK
  <1>2. CASE DropIdentity(r)
    <2>1. PICK label \in {"stat", FirstStep(kind[r])} : Goto(r, label)
      BY <1>2 DEF DropIdentity
    <2>2. label # "rename"
      BY <2>1, FirstStepType
    <2>3. QED
      BY <1>2, <2>1, <2>2, QuietUploads DEF DropIdentity, TypeOK
  <1>3. CASE \/ \E status \in {400, 403, 404, 405, 503} : Refuse(r, status)
             \/ \E t \in Threads : Pin(r, t)
             \/ DropFails(r) \/ GoroutineEnds(r) \/ ReadBody(r)
    <2>1. UNCHANGED <<file, temp, seen>>
      BY <1>3 DEF Refuse, Pin, DropFails, GoroutineEnds, ReadBody
    <2>2. PICK label \in {"done", "drop", "exit", "pin", "info"} : Goto(r, label)
      BY <1>3 DEF Refuse, Pin, DropFails, GoroutineEnds, AfterGoroutine, ReadBody, Finish
    <2>3. QED
      BY <2>1, <2>2, QuietUploads DEF TypeOK
  <1>4. CASE UploadFails(r) /\ pc[r] = "body"
    BY <1>4 DEF UploadFails, Finish, TypeOK, UploadInv, UploadsWhole, WholeBeforeRename
  <1>5. QED
    BY <1>1, <1>2, <1>3, <1>4 DEF Manage

(* What lies at a destination, and what a reader of a destination is       *)
(* given, is all of what one sender sent, whatever uploads, deletions and  *)
(* crashes overlap.  A reader that names a temporary file is left out.     *)
THEOREM UploadsWholeHolds == Spec => []UploadsWhole
  <1>1. Init => UploadInv
    BY DEF Init, UploadInv, UploadsWhole, WholeBeforeRename
  <1>2. TypeOK /\ UploadInv /\ [Next]_vars => UploadInv'
    <2> SUFFICES ASSUME TypeOK, UploadInv, [Next]_vars
                 PROVE  UploadInv'
      OBVIOUS
    <2>1. CASE UNCHANGED vars
      BY <2>1, QuietUploads DEF vars
    <2>2. CASE Crash
      BY <2>2, QuietUploads DEF Crash, fileVars
    <2>3. QED
      BY <2>1, <2>2, NextSplits, TouchUploads, EntryInfoUploads, ManageUploads
  <1>3. UploadInv => UploadsWhole
    BY DEF UploadInv
  <1>4. QED
    BY <1>1, <1>2, <1>3, FilesTypeCorrect, PTL DEF Spec

-----------------------------------------------------------------------------
(* Answers.                                                                *)

Unsettled == {"idle"} \cup (Working \ {"exit"})

(* A request moves on without an answer.                                   *)
LEMMA MoveOutcome ==
    ASSUME TypeOK, OutcomeInv, NEW r \in Requests, NEW label,
           Goto(r, label), UNCHANGED <<code, put>>,
           \A q \in Requests : q # r => kind'[q] = kind[q],
           kind'[r] = kind[r] \/ code[r] = 0,
           label \in Unsettled => code[r] = 0,
           label \in {"read", "stat", "list", "info", "delete"} => kind'[r] \notin Writes
    PROVE  OutcomeInv'
  <1>1. pc'[r] = label /\ \A q \in Requests : q # r => pc'[q] = pc[q]
    BY DEF Goto, TypeOK
  <1>2. AnswerTellsOutcome' /\ PutIsSettled'
    BY DEF OutcomeInv, AnswerTellsOutcome, PutIsSettled
  <1>3. UnsettledYet' /\ ReadersRead'
    BY <1>1 DEF OutcomeInv, UnsettledYet, ReadersRead, Unsettled
  <1>4. QED
    BY <1>2, <1>3 DEF OutcomeInv

(* A request is answered.                                                  *)
Settles(r, label, status) ==
    Goto(r, label) /\ code' = [code EXCEPT ![r] = status]

(* A request that was not put gets its answer, an upload one other than 200. *)
LEMMA SettleOutcome ==
    ASSUME TypeOK, OutcomeInv, NEW r \in Requests, NEW status,
           pc[r] \in Unsettled, status # 0, kind[r] \in Writes => status # 200,
           NEW label \in {"done", "exit"}, Settles(r, label, status), UNCHANGED <<kind, put>>
    PROVE  OutcomeInv'
  <1>1. pc'[r] = label /\ \A q \in Requests : q # r => pc'[q] = pc[q]
    BY DEF Settles, Goto, TypeOK
  <1>2. code'[r] = status /\ \A q \in Requests : q # r => code'[q] = code[q]
    BY DEF Settles, TypeOK
  <1>3. r \notin put
    BY DEF OutcomeInv, UnsettledYet, PutIsSettled, Unsettled
  <1>4. AnswerTellsOutcome' /\ PutIsSettled'
    BY <1>2, <1>3 DEF OutcomeInv, AnswerTellsOutcome, PutIsSettled
  <1>5. UnsettledYet' /\ ReadersRead'
    BY <1>1, <1>2 DEF OutcomeInv, UnsettledYet, ReadersRead, Unsettled, Working
  <1>6. QED
    BY <1>4, <1>5 DEF OutcomeInv

LEMMA FinishOutcome ==
    ASSUME TypeOK, OutcomeInv, NEW r \in Requests, NEW status,
           pc[r] \in Unsettled, status # 0, kind[r] \in Writes => status # 200,
           Finish(r, status), UNCHANGED <<kind, put>>
    PROVE  OutcomeInv'
  <1>1. PICK label \in {"done", "exit"} : Settles(r, label, status)
    BY DEF Finish, Settles
  <1>2. QED
    BY <1>1, SettleOutcome

LEMMA TouchOutcome ==
    ASSUME TypeOK, OutcomeInv, NEW r \in Requests, Touch(r)
    PROVE  OutcomeInv'
  <1>0. pc[r] \in Touching /\ pc[r] \in Unsettled /\ kind' = kind /\ code[r] = 0
    <2>1. pc[r] \in Touching /\ kind' = kind
      BY TouchActs
    <2>2. QED
      BY <2>1 DEF Touching, Unsettled, Working, OutcomeInv, UnsettledYet
  <1>1. CASE CreateTemp(r) \/ CopyBody(r)
    <2>1. PICK label \in {"copy", "rename"} : Goto(r, label)
      BY <1>1 DEF CreateTemp, CopyBody
    <2>2. UNCHANGED <<code, put>>
      BY <1>1 DEF CreateTemp, CopyBody
    <2>3. QED
      BY <1>0, <2>1, <2>2, MoveOutcome
  <1>2. CASE UploadFails(r) \/ ReadFails(r)
    <2>1. Finish(r, 500) /\ put' = put
      BY <1>2 DEF UploadFails, ReadFails, fileVars
    <2>2. QED
      BY <1>0, <2>1, FinishOutcome
  <1>3. CASE Rename(r)
    <2>1. CASE temp[r] = None
      <3>1. Finish(r, 500) /\ put' = put
        BY <1>3, <2>1 DEF Rename
      <3>2. QED
        BY <1>0, <3>1, FinishOutcome
    <2>2. CASE temp[r] # None
      <3>1. Finish(r, 200) /\ put' = put \cup {r}
        BY <1>3, <2>2 DEF Rename
      <3>2. /\ code'[r] = 200 /\ pc'[r] \in {"done", "exit"}
            /\ \A q \in Requests : q # r => code'[q] = code[q] /\ pc'[q] = pc[q]
        BY <3>1 DEF Finish, Goto, TypeOK
      <3>3. AnswerTellsOutcome' /\ PutIsSettled'
        BY <1>0, <3>1, <3>2 DEF OutcomeInv, AnswerTellsOutcome, PutIsSettled
      <3>4. UnsettledYet' /\ ReadersRead'
        BY <1>0, <3>2 DEF OutcomeInv, UnsettledYet, ReadersRead, Working
      <3>5. QED
        BY <3>3, <3>4 DEF OutcomeInv
    <2>3. QED
      BY <2>1, <2>2
  <1>4. CASE ReadFile(r)
    <2>1. kind[r] \notin Writes /\ put' = put
      BY <1>4 DEF ReadFile, OutcomeInv, ReadersRead, fileVars
    <2>2. CASE \E status \in {404, 200} : Finish(r, status)
      BY <1>0, <2>1, <2>2, FinishOutcome
    <2>3. CASE UNCHANGED code /\ \E label \in {"exit", "stat"} : Goto(r, label)
      BY <1>0, <2>1, <2>3, MoveOutcome
    <2>4. QED
      BY <1>4, <2>2, <2>3 DEF ReadFile, NotThere
  <1>5. CASE StatFile(r) \/ ListDir(r) \/ InboxReadFile(r) \/ InboxList(r)
             \/ DeleteFile(r) \/ \E u \in Requests : DeleteTemp(r, u)
    <2>1. kind[r] \notin Writes /\ put' = put
      BY <1>5 DEF StatFile, ListDir, InboxReadFile, InboxList, DeleteFile, DeleteTemp,
         OutcomeInv, ReadersRead, fileVars
    <2>2. CASE \E status \in {200, 204, 404, 500} : Finish(r, status)
      BY <1>0, <2>1, <2>2, FinishOutcome
    <2>3. CASE UNCHANGED code /\ \E label \in {"exit", "info"} : Goto(r, label)
      BY <1>0, <2>1, <2>3, MoveOutcome
    <2>4. QED
      BY <1>5, <2>2, <2>3
      DEF StatFile, ListDir, InboxReadFile, InboxList, NotThere, DeleteFile, DeleteTemp
  <1>6. QED
    BY <1>1, <1>2, <1>3, <1>4, <1>5 DEF Touch

LEMMA EntryInfoOutcome ==
    ASSUME TypeOK, OutcomeInv, NEW r \in Requests, EntryInfo(r)
    PROVE  OutcomeInv'
  <1>1. kind[r] \notin Writes /\ pc[r] \in Unsettled /\ UNCHANGED <<kind, put>>
    BY DEF EntryInfo, OutcomeInv, ReadersRead, Unsettled, Working, fileVars
  <1>2. Finish(r, 200)
    BY DEF EntryInfo
  <1>3. QED
    BY <1>1, <1>2, FinishOutcome

LEMMA ManageOutcome ==
    ASSUME TypeOK, OutcomeInv, NEW r \in Requests, Manage(r)
    PROVE  OutcomeInv'
  <1> USE DEF fileVars
  <1>1. ASSUME NEW k \in Kinds, Arrive(r, k)
        PROVE  OutcomeInv'
    <2>1. /\ code[r] = 0 /\ UNCHANGED <<code, put>>
          /\ kind' = [kind EXCEPT ![r] = k]
      BY <1>1 DEF Arrive, Arrives, OutcomeInv, UnsettledYet
    <2>2. kind'[r] = k /\ \A q \in Requests : q # r => kind'[q] = kind[q]
      BY <2>1 DEF TypeOK
    <2>3. PICK label \in {"body", "pin", FirstStep(k)} : Goto(r, label)
      BY <1>1, ArriveLabel
    <2>4. label \in {"read", "stat", "list", "info", "delete"} => k \notin Writes
      BY <2>3, FirstStepType
    <2>5. QED
      BY <2>1, <2>2, <2>3, <2>4, MoveOutcome
  <1>2. ASSUME NEW status \in {400, 403, 404, 405, 503}, Refuse(r, status)
        PROVE  OutcomeInv'
    <2>1. pc[r] \in Unsettled /\ kind' = kind /\ put' = put
      BY <1>2 DEF Refuse, Arrives, Unsettled
    <2>2. Settles(r, "done", status)
      BY <1>2 DEF Refuse, Settles
    <2>3. status # 0 /\ status # 200
      OBVIOUS
    <2>4. QED
      BY <2>1, <2>2, <2>3, SettleOutcome
  <1>3. CASE (\E t \in Threads : Pin(r, t)) \/ ReadBody(r)
    <2>1. /\ pc[r] \in Unsettled /\ UNCHANGED <<code, put, kind>>
          /\ Goto(r, "drop") \/ Goto(r, "pin")
      BY <1>3 DEF Pin, ReadBody, Unsettled, Working
    <2>2. code[r] = 0
      BY <2>1 DEF OutcomeInv, UnsettledYet, Unsettled
    <2>3. QED
      BY <2>1, <2>2, MoveOutcome
  <1>4. CASE DropIdentity(r)
    <2>1. pc[r] \in Unsettled /\ UNCHANGED <<code, put, kind>>
      BY <1>4 DEF DropIdentity, Unsettled, Working
    <2>2. code[r] = 0
      BY <2>1 DEF OutcomeInv, UnsettledYet, Unsettled
    <2>3. CASE kind[r] = "stat" /\ Goto(r, "stat")
      BY <2>1, <2>2, <2>3, MoveOutcome DEF Writes
    <2>4. CASE Goto(r, FirstStep(kind[r]))
      BY <2>1, <2>2, <2>4, FirstStepType, MoveOutcome
    <2>5. QED
      BY <1>4, <2>3, <2>4 DEF DropIdentity
  <1>5. CASE DropFails(r) \/ (UploadFails(r) /\ pc[r] = "body")
    <2>1. pc[r] \in Unsettled /\ Finish(r, 500) /\ UNCHANGED <<kind, put>>
      BY <1>5 DEF DropFails, UploadFails, Unsettled, Working
    <2>2. QED
      BY <2>1, FinishOutcome
  <1>6. CASE GoroutineEnds(r)
    <2>1. UNCHANGED <<code, put, kind>> /\ AfterGoroutine(r)
      BY <1>6 DEF GoroutineEnds
    <2>2. "done" \notin Unsettled
      BY DEF Unsettled, Working
    <2>3. CASE code[r] # 0 /\ Goto(r, "done")
      BY <2>1, <2>2, <2>3, MoveOutcome
    <2>4. CASE code[r] = 0 /\ kind[r] = "list" /\ Goto(r, "info")
      BY <2>1, <2>4, MoveOutcome DEF Writes
    <2>5. CASE code[r] = 0 /\ Goto(r, "pin")
      BY <2>1, <2>5, MoveOutcome
    <2>6. QED
      BY <2>1, <2>3, <2>4, <2>5 DEF AfterGoroutine
  <1>7. QED
    BY <1>1, <1>2, <1>3, <1>4, <1>5, <1>6 DEF Manage

(* An upload answered 200 was put in its place, one answered with an error *)
(* was not, also when the temporary file was deleted by somebody else.     *)
THEOREM AnswerTellsOutcomeHolds == Spec => []AnswerTellsOutcome
  <1>1. Init => OutcomeInv
    BY DEF Init, OutcomeInv, AnswerTellsOutcome, UnsettledYet, PutIsSettled, ReadersRead
  <1>2. TypeOK /\ OutcomeInv /\ [Next]_vars => OutcomeInv'
    <2> SUFFICES ASSUME TypeOK, OutcomeInv, [Next]_vars
                 PROVE  OutcomeInv'
      OBVIOUS
    <2>1. CASE UNCHANGED vars
      BY <2>1 DEF vars, OutcomeInv, AnswerTellsOutcome, UnsettledYet, PutIsSettled, ReadersRead
    <2>2. CASE Crash
      <3>1. UNCHANGED <<code, put, kind>>
        BY <2>2 DEF Crash, fileVars
      <3>2. \A q \in Requests : pc'[q] \in {"lost", pc[q]}
        BY <2>2 DEF Crash
      <3>3. QED
        BY <3>1, <3>2
        DEF OutcomeInv, AnswerTellsOutcome, UnsettledYet, PutIsSettled, ReadersRead, Working
    <2>3. QED
      BY <2>1, <2>2, NextSplits, TouchOutcome, EntryInfoOutcome, ManageOutcome
  <1>3. OutcomeInv => AnswerTellsOutcome
    BY DEF OutcomeInv
  <1>4. QED
    BY <1>1, <1>2, <1>3, FilesTypeCorrect, PTL DEF Spec
=============================================================================
