-------------------------- MODULE StateEpochProofs --------------------------
(***************************************************************************)
(* Proofs about StateEpoch, for any set of requests, any epochs callers    *)
(* name and any number of crashes and failing writes: the inductive        *)
(* invariant EpochInv, and from it the order of the mutations of one       *)
(* incarnation and the fate of an epoch that was returned.                 *)
(***************************************************************************)
EXTENDS StateEpoch, TLAPS

(* NewEpoch on a fresh node satisfies the invariant.                       *)
LEMMA InitEpochInv == Init => EpochInv
  BY EpochAssumption
  DEF Init, EpochInv, TypeOK, DownIsQuiet, NeverBehindFile, FinishedBelow, ValidatedBelow, RightRoute,
      PriorStarted, RealTimeOrder, HeaderLast, ReturnedEpochSaved, InFlight, Running

Codes == {0, 200, 400, 401, 403, 405, 409, 500}

(* The daemon runs and the epoch, its file and the histories stay.         *)
Frame ==
    /\ up
    /\ UNCHANGED <<value, file, writeFails, up, finished, crashes, route, caller, prior>>

(***************************************************************************)
(* What the steps short of Validate's success and Increment have in        *)
(* common: request r moves to l, its answer and header become code and h,  *)
(* and it may have taken effect.                                           *)
(***************************************************************************)
Move(r, l, code, h) ==
    /\ pc' = [pc EXCEPT ![r] = l]
    /\ reply' = [reply EXCEPT ![r] = code]
    /\ header' = [header EXCEPT ![r] = h]
    /\ applied' = applied \/ (applied' = applied \cup {r} /\ pc[r] = "apply")
    /\ Frame

(* Where a request may move to without touching the epoch.                 *)
MayMove(r, l, code, h) ==
    /\ l \in {"done"} \cup (Running \ {"key"})
    /\ code \in Codes
    /\ h \in Nat \cup {NoEpoch}
    /\ l \in InFlight => route[r] = "query" \/ pc[r] \in InFlight
    /\ l = "validate" \/ l = "increment" => route[r] # "query"
    /\ l = "validate" => pc[r] = "key"
    /\ l = "conflict" => pc[r] = "validate"
    /\ l # "done" => h = NoEpoch
    /\ code = 200 => h = NoEpoch

(* Such a move preserves the invariant.                                    *)
LEMMA MoveInv ==
  ASSUME EpochInv, NEW r \in Reqs, NEW l, NEW code, NEW h,
         Move(r, l, code, h), MayMove(r, l, code, h)
  PROVE  EpochInv'
  <1>1. TypeOK'
    BY DEF EpochInv, TypeOK, Move, Frame, MayMove, Codes, Running
  <1>2. NeverBehindFile'
    BY DEF EpochInv, NeverBehindFile, Move, Frame
  <1>3. l # "idle" /\ \A q \in Reqs : pc'[q] = IF q = r THEN l ELSE pc[q]
    BY DEF EpochInv, TypeOK, Move, Frame, MayMove, Running
  <1>4. FinishedBelow'
    BY <1>3 DEF EpochInv, TypeOK, FinishedBelow, Move, Frame
  <1>5. ValidatedBelow'
    BY <1>3 DEF EpochInv, ValidatedBelow, Move, Frame, MayMove
  <1>6. RightRoute'
    BY <1>3 DEF EpochInv, RightRoute, Move, Frame, MayMove
  <1>7. PriorStarted'
    BY <1>3 DEF EpochInv, TypeOK, PriorStarted, Move, Frame, MayMove, Running
  <1>8. RealTimeOrder'
    <2> SUFFICES ASSUME NEW s \in Reqs, NEW q \in prior'[s],
                        pc'[s] \in InFlight \/ s \in applied'
                 PROVE  caller'[q] < caller'[s]
      BY DEF RealTimeOrder, InFlight
    <2>1. prior' = prior /\ caller' = caller
      BY DEF Move, Frame
    <2>2. pc[s] \in InFlight \/ s \in applied
      BY <1>3, <2>1 DEF EpochInv, PriorStarted, Move, Frame, MayMove, InFlight
    <2>3. QED
      BY <2>1, <2>2 DEF EpochInv, RealTimeOrder, InFlight
  <1>9. HeaderLast'
    BY <1>3 DEF EpochInv, TypeOK, HeaderLast, Move, Frame, MayMove, Running
  <1>10. ReturnedEpochSaved'
    BY DEF EpochInv, TypeOK, ReturnedEpochSaved, Move, Frame, MayMove
  <1>11. DownIsQuiet'
    BY DEF DownIsQuiet, Move, Frame
  <1>12. QED
    BY <1>1, <1>2, <1>4, <1>5, <1>6, <1>7, <1>8, <1>9, <1>10, <1>11 DEF EpochInv

(* Leaving reply and header alone is moving with the values they have.     *)
LEMMA GotoMoves ==
  ASSUME EpochInv, NEW r \in Reqs, NEW l, Goto(r, l),
         applied' = applied \/ (applied' = applied \cup {r} /\ pc[r] = "apply"),
         Frame
  PROVE  Move(r, l, reply[r], header[r])
  BY DEF Goto, Move, EpochInv, TypeOK

(* An answer without a header keeps the header the request had.            *)
LEMMA AnswerMoves ==
  ASSUME EpochInv, NEW r \in Reqs, NEW code, Answer(r, code),
         applied' = applied \/ (applied' = applied \cup {r} /\ pc[r] = "apply"),
         Frame
  PROVE  Move(r, "done", code, header[r])
  BY DEF Answer, Move, EpochInv, TypeOK

(* A running request has no header yet.                                    *)
LEMMA RunningHeader ==
  ASSUME EpochInv, NEW r \in Reqs, pc[r] \in Running
  PROVE  header[r] = NoEpoch /\ reply[r] \in Codes
  BY DEF EpochInv, TypeOK, HeaderLast, Codes

(* An answer of a running request preserves the invariant.                 *)
LEMMA AnswerInv ==
  ASSUME EpochInv, NEW r \in Reqs, NEW code \in Codes, Answer(r, code), pc[r] \in Running,
         applied' = applied \/ (applied' = applied \cup {r} /\ pc[r] = "apply"),
         Frame
  PROVE  EpochInv'
  <1>1. Move(r, "done", code, NoEpoch)
    BY AnswerMoves, RunningHeader
  <1>2. MayMove(r, "done", code, NoEpoch)
    BY DEF MayMove, InFlight
  <1>3. QED
    BY <1>1, <1>2, MoveInv

(* A step of a running request without an answer preserves it.             *)
LEMMA GotoInv ==
  ASSUME EpochInv, NEW r \in Reqs, NEW l \in Running \ {"key"}, Goto(r, l), pc[r] \in Running,
         l \in InFlight => route[r] = "query" \/ pc[r] \in InFlight,
         l = "validate" \/ l = "increment" => route[r] # "query",
         l = "validate" => pc[r] = "key",
         l = "conflict" => pc[r] = "validate",
         applied' = applied \/ (applied' = applied \cup {r} /\ pc[r] = "apply"),
         Frame
  PROVE  EpochInv'
  <1>1. Move(r, l, reply[r], NoEpoch)
    BY GotoMoves, RunningHeader
  <1>2. MayMove(r, l, reply[r], NoEpoch)
    BY RunningHeader DEF MayMove
  <1>3. QED
    BY <1>1, <1>2, MoveInv

(* requireAdminKey's key test preserves the invariant.                     *)
LEMMA CheckKeyInv ==
  ASSUME EpochInv, NEW r \in Reqs, CheckKey(r)
  PROVE  EpochInv'
  <1>1. /\ pc[r] = "key" /\ pc[r] \in Running /\ route[r] \in {"admin", "query"}
        /\ Frame
        /\ applied' = applied
    BY DEF CheckKey, Frame, epochVars, Running, EpochInv, TypeOK, Routes, RightRoute
  <1>2. CASE \E code \in {401, 403} : Answer(r, code)
    BY <1>1, <1>2, AnswerInv DEF Codes
  <1>3. CASE route[r] = "admin" /\ Goto(r, "validate")
    BY <1>1, <1>3, GotoInv DEF Running, InFlight
  <1>4. CASE route[r] = "query" /\ Goto(r, "authorize")
    BY <1>1, <1>4, GotoInv DEF Running, InFlight
  <1>5. QED
    BY <1>1, <1>2, <1>3, <1>4 DEF CheckKey, IsMutationMethod

(***************************************************************************)
(* Epoch.Validate: a mutation that passes names the value itself, which is *)
(* above every epoch the finished mutations named.                         *)
(***************************************************************************)
LEMMA ValidateInv ==
  ASSUME EpochInv, NEW r \in Reqs, Validate(r)
  PROVE  EpochInv'
  <1>1. /\ pc[r] = "validate" /\ pc[r] \in Running /\ route[r] # "query" /\ up
        /\ UNCHANGED <<value, file, writeFails, up, finished, crashes, route, caller, applied>>
        /\ UNCHANGED prior => Frame
    BY DEF Validate, Frame, epochVars, Running, EpochInv, TypeOK, RightRoute
  <1>2. CASE (Answer(r, 400) \/ Answer(r, 405)) /\ UNCHANGED prior
    BY <1>1, <1>2, AnswerInv DEF Codes
  <1>3. CASE Goto(r, "conflict") /\ UNCHANGED prior
    BY <1>1, <1>3, GotoInv DEF Running, InFlight
  <1>4. CASE /\ caller[r] # NoEpoch /\ caller[r] = value
             /\ Goto(r, "authorize") /\ prior' = [prior EXCEPT ![r] = finished]
    <2>1. TypeOK'
      BY <1>1, <1>4 DEF EpochInv, TypeOK, Goto, Running
    <2>2. NeverBehindFile' /\ HeaderLast' /\ ReturnedEpochSaved'
      BY <1>1, <1>4 DEF EpochInv, TypeOK, NeverBehindFile, HeaderLast, ReturnedEpochSaved, Goto, Running
    <2>3. \A q \in Reqs : pc'[q] = IF q = r THEN "authorize" ELSE pc[q]
      BY <1>4 DEF EpochInv, TypeOK, Goto
    <2>4. \A q \in Reqs : prior'[q] = IF q = r THEN finished ELSE prior[q]
      BY <1>4 DEF EpochInv, TypeOK
    <2>5. finished \subseteq Reqs /\ \A s \in Reqs : prior[s] \subseteq Reqs
      BY DEF EpochInv, TypeOK
    <2>6. FinishedBelow'
      BY <1>1, <2>3, <2>5 DEF EpochInv, FinishedBelow
    <2>7. ValidatedBelow' /\ RightRoute'
      BY <1>1, <1>4, <2>3 DEF EpochInv, TypeOK, ValidatedBelow, RightRoute
    <2>8. PriorStarted'
      BY <1>1, <2>3, <2>4, <2>5 DEF EpochInv, PriorStarted, FinishedBelow
    <2>9. RealTimeOrder'
      BY <1>1, <1>4, <2>3, <2>4, <2>5 DEF EpochInv, RealTimeOrder, FinishedBelow
    <2>10. DownIsQuiet'
      BY <1>1 DEF DownIsQuiet
    <2>11. QED
      BY <2>1, <2>2, <2>6, <2>7, <2>8, <2>9, <2>10 DEF EpochInv
  <1>5. QED
    BY <1>2, <1>3, <1>4 DEF Validate, ParseCallerEpoch, ValidEpoch

(* The 409 and its header preserve the invariant.                          *)
LEMMA ConflictInv ==
  ASSUME EpochInv, NEW r \in Reqs, Conflict(r)
  PROVE  EpochInv'
  <1>1. Move(r, "done", 409, value)
    BY DEF Conflict, AnswerWith, Move, Frame, epochVars
  <1>2. MayMove(r, "done", 409, value)
    BY DEF MayMove, Codes, InFlight, EpochInv, TypeOK
  <1>3. QED
    BY <1>1, <1>2, MoveInv

(* The tests of the caller's grants preserve the invariant.                *)
LEMMA AuthorizeInv ==
  ASSUME EpochInv, NEW r \in Reqs, Authorize(r)
  PROVE  EpochInv'
  <1>1. /\ pc[r] = "authorize" /\ pc[r] \in Running /\ pc[r] \in InFlight
        /\ Frame
        /\ applied' = applied
    BY DEF Authorize, Frame, epochVars, Running, InFlight
  <1>2. CASE Answer(r, 403)
    BY <1>1, <1>2, AnswerInv DEF Codes
  <1>3. CASE Goto(r, "apply")
    BY <1>1, <1>3, GotoInv DEF Running, InFlight
  <1>4. QED
    BY <1>2, <1>3 DEF Authorize

(* The handlers' changes of the node's state preserve the invariant.       *)
LEMMA ApplyInv ==
  ASSUME EpochInv, NEW r \in Reqs, Apply(r)
  PROVE  EpochInv'
  <1>1. /\ pc[r] = "apply" /\ pc[r] \in Running /\ pc[r] \in InFlight
        /\ Frame
    BY DEF Apply, Frame, epochVars, Running, InFlight
  <1>2. CASE ApplyRefused(r)
    BY <1>1, <1>2, AnswerInv DEF ApplyRefused, Codes
  <1>3. CASE ApplyHalf(r)
    BY <1>1, <1>3, AnswerInv DEF ApplyHalf, Codes
  <1>4. CASE route[r] = "query" /\ Answer(r, 200) /\ UNCHANGED applied
    BY <1>1, <1>4, AnswerInv DEF Codes
  <1>5. CASE /\ route[r] = "admin"
             /\ applied' = applied \cup {r}
             /\ pc' = [pc EXCEPT ![r] = "increment"]
             /\ reply' = [reply EXCEPT ![r] = 200]
             /\ UNCHANGED header
    <2>1. Move(r, "increment", 200, NoEpoch)
      BY <1>1, <1>5, RunningHeader DEF Move, EpochInv, TypeOK
    <2>2. MayMove(r, "increment", 200, NoEpoch)
      BY <1>1, <1>5 DEF MayMove, Running, Codes
    <2>3. QED
      BY <2>1, <2>2, MoveInv
  <1>6. CASE route[r] = "provision" /\ applied' = applied \cup {r} /\ Goto(r, "increment")
    BY <1>1, <1>6, GotoInv DEF Running, InFlight
  <1>7. QED
    BY <1>2, <1>3, <1>4, <1>5, <1>6 DEF Apply, ApplyDone

(***************************************************************************)
(* Epoch.Increment: the value moves above the epoch r named, whether or    *)
(* not the file follows; a header leaves only with the value in the file.  *)
(***************************************************************************)
LEMMA IncrementInv ==
  ASSUME EpochInv, NEW r \in Reqs, Increment(r)
  PROVE  EpochInv'
  <1>1. /\ pc[r] = "increment" /\ route[r] # "query" /\ up
        /\ UNCHANGED <<route, caller, applied, prior, up, crashes>>
        /\ finished' = finished \cup {r}
    BY DEF Increment, EpochInv, RightRoute
  <1>2. value' = value + 1 /\ value \in Nat /\ file \in Nat
    BY DEF Increment, IncrementSaved, IncrementUnsaved, EpochInv, TypeOK
  <1>3. pc' = [pc EXCEPT ![r] = "done"]
    BY DEF Increment, IncrementSaved, IncrementUnsaved, AfterIncrement, AnswerWith, Goto
  <1>4. \A q \in Reqs : pc'[q] = IF q = r THEN "done" ELSE pc[q]
    BY <1>3 DEF EpochInv, TypeOK
  <1>5. (file' = file \/ file' = value') /\ file' \in Nat /\ file' >= file /\ file' <= value'
    BY <1>2 DEF Increment, IncrementSaved, IncrementUnsaved, EpochInv, NeverBehindFile
  <1>6. \E code \in Codes, h \in {NoEpoch, file'} :
          reply' = [reply EXCEPT ![r] = code] /\ header' = [header EXCEPT ![r] = h]
    <2>1. header[r] = NoEpoch /\ reply[r] \in Codes
      BY <1>1, RunningHeader DEF Running
    <2>2. CASE route[r] = "provision"
      BY <2>2 DEF Increment, IncrementSaved, IncrementUnsaved, AfterIncrement, AnswerWith, Codes
    <2>3. CASE route[r] # "provision"
      <3>1. reply' = reply /\ header' = header
        BY <2>3 DEF Increment, IncrementSaved, IncrementUnsaved, AfterIncrement, Goto
      <3>2. reply = [reply EXCEPT ![r] = reply[r]] /\ header = [header EXCEPT ![r] = NoEpoch]
        BY <2>1 DEF EpochInv, TypeOK
      <3>3. QED
        BY <2>1, <3>1, <3>2
    <2>4. QED
      BY <2>2, <2>3
  <1>7. PICK code \in Codes, h \in {NoEpoch, file'} :
          reply' = [reply EXCEPT ![r] = code] /\ header' = [header EXCEPT ![r] = h]
    BY <1>6
  <1>8. TypeOK'
    <2>1. writeFails' \in 0..MaxWriteFails
      BY EpochAssumption DEF Increment, IncrementSaved, IncrementUnsaved, EpochInv, TypeOK
    <2>2. QED
      BY <1>1, <1>2, <1>3, <1>5, <1>7, <2>1 DEF EpochInv, TypeOK, Codes
  <1>9. NeverBehindFile'
    BY <1>2, <1>5 DEF NeverBehindFile
  <1>10. FinishedBelow'
    <2>1. caller[r] \in Nat /\ caller[r] <= value
      BY <1>1 DEF EpochInv, ValidatedBelow, InFlight
    <2>2. \A q \in finished : q \in Reqs /\ pc[q] # "idle" /\ caller[q] \in Nat /\ caller[q] < value
      BY DEF EpochInv, TypeOK, FinishedBelow
    <2>3. QED
      BY <1>1, <1>2, <1>4, <2>1, <2>2 DEF FinishedBelow
  <1>11. ValidatedBelow' /\ RightRoute'
    BY <1>1, <1>2, <1>4 DEF EpochInv, ValidatedBelow, RightRoute, InFlight
  <1>12. PriorStarted' /\ RealTimeOrder'
    <2>1. \A s \in Reqs : prior[s] \subseteq Reqs
      BY DEF EpochInv, TypeOK
    <2>2. PriorStarted'
      BY <1>1, <1>4, <2>1 DEF EpochInv, PriorStarted
    <2>3. RealTimeOrder'
      BY <1>1, <1>4 DEF EpochInv, RealTimeOrder
    <2>4. QED
      BY <2>2, <2>3
  <1>13. HeaderLast'
    BY <1>4, <1>7 DEF EpochInv, TypeOK, HeaderLast, Running
  <1>14. ReturnedEpochSaved'
    BY <1>2, <1>5, <1>7 DEF EpochInv, TypeOK, ReturnedEpochSaved
  <1>15. DownIsQuiet'
    BY <1>1 DEF DownIsQuiet
  <1>16. QED
    BY <1>8, <1>9, <1>10, <1>11, <1>12, <1>13, <1>14, <1>15 DEF EpochInv

(* A new request names its epoch; no history speaks of it yet.             *)
LEMMA ReceiveInv ==
  ASSUME EpochInv, NEW r \in Reqs, Receive(r)
  PROVE  EpochInv'
  <1>1. PICK e \in 0..MaxEpoch \cup {NoEpoch} : caller' = [caller EXCEPT ![r] = e]
    BY DEF Receive
  <1>2. /\ pc[r] = "idle" /\ up
        /\ UNCHANGED <<value, file, writeFails, up, finished, crashes, route, applied, prior,
                       reply, header>>
    BY DEF Receive, Goto, epochVars
  <1>3. PICK l \in {"key", "validate"} :
          /\ pc' = [pc EXCEPT ![r] = l]
          /\ l = "validate" => route[r] = "provision"
          /\ l = "key" => route[r] # "provision"
    BY DEF Receive, Goto
  <1>4. /\ \A q \in Reqs : pc'[q] = IF q = r THEN l ELSE pc[q]
        /\ \A q \in Reqs : q # r => caller'[q] = caller[q]
    BY <1>1, <1>3 DEF EpochInv, TypeOK
  <1>5. TypeOK'
    BY <1>1, <1>2, <1>3 DEF EpochInv, TypeOK, Running
  <1>6. NeverBehindFile' /\ ReturnedEpochSaved'
    BY <1>2 DEF EpochInv, NeverBehindFile, ReturnedEpochSaved
  <1>7. /\ r \notin finished
        /\ \A s \in Reqs : r \notin prior[s] /\ prior[s] \subseteq Reqs
        /\ finished \subseteq Reqs
        /\ prior[r] = {}
    BY <1>2 DEF EpochInv, TypeOK, FinishedBelow, PriorStarted
  <1>8. FinishedBelow'
    BY <1>2, <1>4, <1>7 DEF EpochInv, FinishedBelow
  <1>9. ValidatedBelow' /\ RightRoute'
    BY <1>2, <1>3, <1>4 DEF EpochInv, ValidatedBelow, RightRoute, InFlight
  <1>10. PriorStarted'
    <2> SUFFICES ASSUME NEW s \in Reqs
                 PROVE  /\ \A q \in prior[s] : pc'[q] # "idle" /\ caller'[q] \in Nat
                        /\ pc'[s] \in {"idle", "key", "validate", "conflict"} \/ route[s] = "query"
                              => prior[s] = {}
      BY <1>2 DEF PriorStarted
    <2>1. \A q \in prior[s] : pc'[q] # "idle" /\ caller'[q] \in Nat
      BY <1>4, <1>7 DEF EpochInv, PriorStarted
    <2>2. pc'[s] \in {"idle", "key", "validate", "conflict"} \/ route[s] = "query" => prior[s] = {}
      BY <1>4, <1>7 DEF EpochInv, PriorStarted
    <2>3. QED
      BY <2>1, <2>2
  <1>11. RealTimeOrder'
    BY <1>2, <1>4, <1>7 DEF EpochInv, RealTimeOrder
  <1>12. HeaderLast'
    BY <1>2, <1>4 DEF EpochInv, HeaderLast, Running
  <1>13. DownIsQuiet'
    BY <1>2 DEF DownIsQuiet
  <1>14. QED
    BY <1>5, <1>6, <1>8, <1>9, <1>10, <1>11, <1>12, <1>13 DEF EpochInv

(* A crash forgets the incarnation's history and loses what runs.          *)
LEMMA CrashInv ==
  ASSUME EpochInv, Crash
  PROVE  EpochInv'
  <1>1. /\ UNCHANGED <<route, caller, reply, header, applied, prior, value, file, writeFails>>
        /\ finished' = {} /\ up' = FALSE
        /\ \A q \in Reqs : pc'[q] = IF pc[q] \in Running THEN "lost" ELSE pc[q]
    BY DEF Crash, epochVars
  <1>2. TypeOK'
    <2>1. pc' \in [Reqs -> {"idle", "done", "lost"} \cup Running]
      BY DEF Crash, EpochInv, TypeOK
    <2>2. crashes' \in 0..MaxCrashes
      BY EpochAssumption DEF Crash, EpochInv, TypeOK
    <2>3. QED
      BY <1>1, <2>1, <2>2 DEF EpochInv, TypeOK
  <1>3. NeverBehindFile' /\ ReturnedEpochSaved' /\ FinishedBelow'
    BY <1>1 DEF EpochInv, NeverBehindFile, ReturnedEpochSaved, FinishedBelow
  <1>4. ValidatedBelow' /\ RightRoute'
    BY <1>1 DEF EpochInv, ValidatedBelow, RightRoute, InFlight, Running
  <1>5. PriorStarted'
    BY <1>1 DEF EpochInv, TypeOK, PriorStarted, Running
  <1>6. RealTimeOrder' /\ HeaderLast'
    BY <1>1 DEF EpochInv, RealTimeOrder, HeaderLast, Running
  <1>7. DownIsQuiet'
    BY <1>1 DEF DownIsQuiet, Running
  <1>8. QED
    BY <1>2, <1>3, <1>4, <1>5, <1>6, <1>7 DEF EpochInv

(* NewEpoch reads the value from the file.  No request is in flight then.  *)
LEMMA RestartInv ==
  ASSUME EpochInv, Restart
  PROVE  EpochInv'
  <1>1. /\ UNCHANGED <<pc, route, caller, reply, header, applied, prior, file, writeFails,
                       finished, crashes>>
        /\ value' = file /\ up' = TRUE /\ ~up
    BY DEF Restart, reqVars
  <1>2. TypeOK' /\ NeverBehindFile'
    BY <1>1 DEF EpochInv, TypeOK, NeverBehindFile
  <1>3. FinishedBelow' /\ ValidatedBelow'
    BY <1>1 DEF EpochInv, DownIsQuiet, FinishedBelow, ValidatedBelow, InFlight, Running
  <1>4. RightRoute' /\ PriorStarted' /\ RealTimeOrder' /\ HeaderLast' /\ ReturnedEpochSaved'
    BY <1>1 DEF EpochInv, RightRoute, PriorStarted, RealTimeOrder, HeaderLast, ReturnedEpochSaved
  <1>5. DownIsQuiet'
    BY <1>1 DEF DownIsQuiet
  <1>6. QED
    BY <1>2, <1>3, <1>4, <1>5 DEF EpochInv

(* A step of the daemon that changes nothing preserves the invariant.      *)
LEMMA StutterInv ==
  ASSUME EpochInv, UNCHANGED vars
  PROVE  EpochInv'
  BY DEF vars, EpochInv, TypeOK, DownIsQuiet, NeverBehindFile, FinishedBelow, ValidatedBelow,
         RightRoute, PriorStarted, RealTimeOrder, HeaderLast, ReturnedEpochSaved

(* EpochInv is inductive: it holds of every state the daemon can reach.    *)
THEOREM EpochInvariant == Spec => []EpochInv
  <1>1. EpochInv /\ [Next]_vars => EpochInv'
    <2> SUFFICES ASSUME EpochInv, [Next]_vars
                 PROVE  EpochInv'
      OBVIOUS
    <2>1. ASSUME NEW r \in Reqs, Receive(r) \/ Step(r)
          PROVE  EpochInv'
      BY <2>1, ReceiveInv, CheckKeyInv, ValidateInv, ConflictInv, AuthorizeInv, ApplyInv,
         IncrementInv DEF Step
    <2>2. CASE Crash
      BY <2>2, CrashInv
    <2>3. CASE Restart
      BY <2>3, RestartInv
    <2>4. CASE Idle
      BY <2>4, StutterInv DEF Idle
    <2>5. CASE UNCHANGED vars
      BY <2>5, StutterInv
    <2>6. QED
      BY <2>1, <2>2, <2>3, <2>4, <2>5 DEF Next
  <1>2. QED
    BY InitEpochInv, <1>1, PTL DEF Spec

(* Type correctness of the epoch, its file and the requests, also after    *)
(* crashes and failed writes.                                              *)
THEOREM EpochTypeCorrect == Spec => []TypeOK
  <1>1. EpochInv => TypeOK
    BY DEF EpochInv
  <1>2. QED
    BY <1>1, EpochInvariant, PTL

(* Mutations of one incarnation name growing epochs in real time, also     *)
(* when Increment could not write its file.                                *)
THEOREM RealTimeOrderHolds == Spec => []RealTimeOrder
  <1>1. EpochInv => RealTimeOrder
    BY DEF EpochInv
  <1>2. QED
    BY <1>1, EpochInvariant, PTL

(* An epoch returned by provision is in the epoch file from then on.       *)
THEOREM ReturnedEpochSavedHolds == Spec => []ReturnedEpochSaved
  <1>1. EpochInv => ReturnedEpochSaved
    BY DEF EpochInv
  <1>2. QED
    BY <1>1, EpochInvariant, PTL

(* Validate never lets an epoch below a returned one through again: what   *)
(* passes is the value, which is not below the file.                       *)
THEOREM StaleStaysStaleHolds == Spec => StaleStaysStale
  <1> DEFINE Refused == \A r, q \in Reqs :
                /\ pc[r] = "validate" /\ pc'[r] = "authorize"
                /\ reply[q] = 200 /\ header[q] # NoEpoch
                => header[q] <= caller[r]
  <1>1. EpochInv /\ [Next]_vars => [Refused]_vars
    <2> SUFFICES ASSUME EpochInv, Next,
                        NEW r \in Reqs, NEW q \in Reqs,
                        pc[r] = "validate", pc'[r] = "authorize",
                        reply[q] = 200, header[q] # NoEpoch
                 PROVE  header[q] <= caller[r]
      OBVIOUS
    <2>1. pc \in [Reqs -> {"idle", "done", "lost"} \cup Running]
      BY DEF EpochInv, TypeOK
    <2>2. ASSUME NEW s \in Reqs, Receive(s) \/ Step(s)
          PROVE  s = r /\ Validate(r)
      <3>1. \E l : pc' = [pc EXCEPT ![s] = l]
        BY <2>2 DEF Receive, Step, CheckKey, Validate, Conflict, Authorize, Apply, ApplyRefused,
           ApplyHalf, ApplyDone, Increment, IncrementSaved, IncrementUnsaved, AfterIncrement,
           Goto, Answer, AnswerWith
      <3>2. s = r
        BY <2>1, <3>1
      <3>3. QED
        BY <2>2, <3>2 DEF Receive, Step, CheckKey, Conflict, Authorize, Apply, Increment
    <2>3. Validate(r)
      BY <2>1, <2>2 DEF Next, Crash, Restart, Idle, reqVars, vars, Running
    <2>4. caller[r] = value
      BY <2>1, <2>3 DEF Validate, ValidEpoch, Goto, Answer
    <2>5. /\ value \in Nat /\ file \in Nat /\ header[q] \in Nat
          /\ value >= file /\ header[q] <= file
      BY DEF EpochInv, TypeOK, NeverBehindFile, ReturnedEpochSaved
    <2>6. QED
      BY <2>4, <2>5
  <1>2. QED
    BY <1>1, EpochInvariant, PTL DEF Spec, StaleStaysStale
=============================================================================
