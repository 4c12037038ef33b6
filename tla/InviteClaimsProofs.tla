------------------------- MODULE InviteClaimsProofs -------------------------
(***************************************************************************)
(* Proofs about InviteClaims, for any requests, tokens and users and any   *)
(* number of crashes and failing writes: the inductive invariant ClaimInv, *)
(* and from it single use, durability, the permanence of the claims file   *)
(* and the refinement of SingleUseLedger.                                  *)
(***************************************************************************)
EXTENDS InviteClaims, TLAPS

(* The claim store starts empty, as NewStore leaves it without a file.     *)
LEMMA InitClaimInv == Init => ClaimInv
  BY TokenAssumption, BoundAssumption
  DEF Init, ClaimInv, TypeOK, SingleUse, GrantDurable, MapCoversFile, NoAnswerYet,
      CallerIsGrantee, RecordsOfGrantees, Granted, Records, Statuses, Running

(* The step leaves everything but the place and the answer of a request.   *)
Frame == UNCHANGED <<claims, disk, unsaved, writeFails, tok, usr, expired, up, crashes>>

(* The answers other than 200.                                             *)
Refusals == Statuses \ {200}

(* A step that refuses a request preserves the invariant.                  *)
LEMMA RefusalInv ==
  ASSUME ClaimInv, NEW r \in Reqs, NEW code \in Refusals, Answer(r, code), Frame
  PROVE  ClaimInv'
  <1>1. TypeOK'
    BY DEF Refusals, Answer, Frame, ClaimInv, TypeOK, Running
  <1>2. \A q \in Reqs : Granted(q)' => Granted(q)
    BY DEF Refusals, Answer, ClaimInv, TypeOK, Granted
  <1>3. SingleUse' /\ GrantDurable'
    BY <1>2 DEF Frame, ClaimInv, SingleUse, GrantDurable
  <1>4. MapCoversFile' /\ RecordsOfGrantees'
    BY DEF Frame, ClaimInv, MapCoversFile, RecordsOfGrantees
  <1>5. NoAnswerYet' /\ CallerIsGrantee'
    BY DEF Answer, Frame, ClaimInv, TypeOK, NoAnswerYet, CallerIsGrantee
  <1>6. QED
    BY <1>1, <1>3, <1>4, <1>5 DEF ClaimInv

(* A step that moves a request on without an answer preserves it too.      *)
LEMMA GotoInv ==
  ASSUME ClaimInv, NEW r \in Reqs, NEW l \in {"verify", "check", "mark", "done"},
         Goto(r, l), Frame,
         l = "done" \/ pc[r] \in {"idle", "verify", "check"},
         l \in {"check", "mark"} => usr[r] = Grantee[tok[r]]
  PROVE  ClaimInv'
  <1>1. TypeOK'
    BY DEF Goto, Frame, ClaimInv, TypeOK, Running
  <1>2. SingleUse' /\ GrantDurable'
    BY DEF Goto, Frame, ClaimInv, SingleUse, GrantDurable, Granted
  <1>3. MapCoversFile' /\ RecordsOfGrantees'
    BY DEF Frame, ClaimInv, MapCoversFile, RecordsOfGrantees
  <1>4. NoAnswerYet' /\ CallerIsGrantee'
    BY DEF Goto, Frame, ClaimInv, TypeOK, NoAnswerYet, CallerIsGrantee
  <1>5. QED
    BY <1>1, <1>2, <1>3, <1>4 DEF ClaimInv

(* Receive, the method and body checks, preserves the invariant.            *)
LEMMA ReceiveInv ==
  ASSUME ClaimInv, NEW r \in Reqs, Receive(r)
  PROVE  ClaimInv'
  <1>1. Frame /\ pc[r] = "idle"
    BY DEF Receive, Frame, storeVars
  <1>2. 405 \in Refusals /\ 400 \in Refusals
    BY DEF Refusals, Statuses
  <1>3. CASE Answer(r, 405)
    BY <1>1, <1>2, <1>3, RefusalInv
  <1>4. CASE Answer(r, 400)
    BY <1>1, <1>2, <1>4, RefusalInv
  <1>5. CASE Goto(r, "verify")
    BY <1>1, <1>5, GotoInv
  <1>6. QED
    BY <1>3, <1>4, <1>5 DEF Receive

(* Verify preserves it; a request goes on to the store as the grantee only. *)
LEMMA VerifyInv ==
  ASSUME ClaimInv, NEW r \in Reqs, Verify(r)
  PROVE  ClaimInv'
  <1>1. Frame /\ pc[r] = "verify"
    BY DEF Verify, Frame, storeVars
  <1>2. ASSUME NEW code \in {500, 401, 410, 403}, Answer(r, code)
        PROVE  ClaimInv'
    <2>1. code \in Refusals
      BY DEF Refusals, Statuses
    <2>2. QED
      BY <1>1, <1>2, <2>1, RefusalInv
  <1>3. CASE usr[r] = Grantee[tok[r]] /\ Goto(r, "check")
    BY <1>1, <1>3, GotoInv
  <1>4. QED
    BY <1>2, <1>3 DEF Verify

(* IsClaimed, the unlocked first test, preserves it.                       *)
LEMMA IsClaimedInv ==
  ASSUME ClaimInv, NEW r \in Reqs, IsClaimed(r)
  PROVE  ClaimInv'
  <1>1. Frame /\ pc[r] = "check" /\ usr[r] = Grantee[tok[r]]
    BY DEF IsClaimed, Frame, storeVars, ClaimInv, CallerIsGrantee
  <1>2. 410 \in Refusals
    BY DEF Refusals, Statuses
  <1>3. CASE Answer(r, 410)
    BY <1>1, <1>2, <1>3, RefusalInv
  <1>4. CASE Goto(r, "mark")
    BY <1>1, <1>4, GotoInv
  <1>5. QED
    BY <1>3, <1>4 DEF IsClaimed

(* Reply, which sends the 200 already decided, preserves it.               *)
LEMMA ReplyInv ==
  ASSUME ClaimInv, NEW r \in Reqs, Reply(r)
  PROVE  ClaimInv'
  <1>1. Frame /\ Goto(r, "done")
    BY DEF Reply, Frame, storeVars
  <1>2. QED
    BY <1>1, GotoInv

(***************************************************************************)
(* MarkClaimed: the token is free in the map, hence in the file, hence won *)
(* by nobody; the winner's record reaches the file in the same step.       *)
(***************************************************************************)
LEMMA MarkInv ==
  ASSUME ClaimInv, NEW r \in Reqs, MarkClaimed(r)
  PROVE  ClaimInv'
  <1>0. /\ up /\ pc[r] = "mark"
        /\ UNCHANGED <<tok, usr, expired, up, crashes>>
        /\ tok[r] \in Tokens /\ usr[r] = Grantee[tok[r]] /\ usr[r] \in Users
    BY TokenAssumption DEF MarkClaimed, ClaimInv, TypeOK, CallerIsGrantee
  <1>1. CASE MarkTaken(r)
    <2>1. 409 \in Refusals
      BY DEF Refusals, Statuses
    <2>2. Frame /\ Answer(r, 409)
      BY <1>0, <1>1 DEF MarkTaken, Frame, storeVars
    <2>3. QED
      BY <2>1, <2>2, RefusalInv
  <1>2. CASE MarkSaved(r)
    <2>1. TypeOK'
      BY <1>0, <1>2 DEF MarkSaved, PersistLocked, Claimed, ClaimInv, TypeOK, Records, Statuses, Running
    <2>2. disk[tok[r]] = Unclaimed
      BY <1>0, <1>2 DEF MarkSaved, PersistLocked, Claimed, ClaimInv, MapCoversFile
    <2>3. \A q \in Reqs : Granted(q) => tok[q] # tok[r]
      BY <1>0, <2>2, TokenAssumption DEF ClaimInv, TypeOK, GrantDurable
    <2>4. \A q \in Reqs : Granted(q)' => q = r \/ Granted(q)
      BY <1>0, <1>2 DEF MarkSaved, PersistLocked, Claimed, ClaimInv, TypeOK, Granted
    <2>5. SingleUse'
      BY <1>0, <2>3, <2>4 DEF ClaimInv, SingleUse
    <2>6. \A q \in Reqs : Granted(q) => disk'[tok[q]] = Grantee[tok[q]]
      <3> SUFFICES ASSUME NEW q \in Reqs, Granted(q)
                   PROVE  disk'[tok[q]] = Grantee[tok[q]]
        OBVIOUS
      <3>1. tok[q] \in Tokens /\ tok[q] # tok[r] /\ disk[tok[q]] = Grantee[tok[q]]
        BY <2>3 DEF ClaimInv, TypeOK, GrantDurable
      <3>2. claims[tok[q]] = disk[tok[q]]
        BY <1>0, <3>1, TokenAssumption DEF ClaimInv, MapCoversFile
      <3>3. disk'[tok[q]] = claims[tok[q]]
        BY <1>0, <1>2, <3>1 DEF MarkSaved, PersistLocked, Claimed, ClaimInv, TypeOK
      <3>4. QED
        BY <3>1, <3>2, <3>3
    <2>7. disk'[tok[r]] = Grantee[tok[r]]
      BY <1>0, <1>2 DEF MarkSaved, PersistLocked, Claimed, ClaimInv, TypeOK
    <2>8. GrantDurable'
      BY <1>0, <2>4, <2>6, <2>7 DEF GrantDurable
    <2>9. MapCoversFile' /\ RecordsOfGrantees'
      BY <1>0, <1>2 DEF MarkSaved, PersistLocked, Claimed, ClaimInv, TypeOK, MapCoversFile, RecordsOfGrantees
    <2>10. NoAnswerYet' /\ CallerIsGrantee'
      BY <1>0, <1>2 DEF MarkSaved, PersistLocked, Claimed, ClaimInv, TypeOK, NoAnswerYet, CallerIsGrantee
    <2>11. QED
      BY <2>1, <2>5, <2>8, <2>9, <2>10 DEF ClaimInv
  <1>3. CASE MarkUnsaved(r)
    <2>1. TypeOK'
      BY <1>0, <1>3, BoundAssumption
      DEF MarkUnsaved, Claimed, Answer, ClaimInv, TypeOK, Records, Statuses, Running
    <2>2. \A q \in Reqs : Granted(q)' => Granted(q)
      BY <1>3 DEF MarkUnsaved, Claimed, Answer, ClaimInv, TypeOK, Granted
    <2>3. SingleUse' /\ GrantDurable'
      BY <1>0, <1>3, <2>2 DEF MarkUnsaved, Claimed, ClaimInv, SingleUse, GrantDurable
    <2>4. MapCoversFile'
      BY <1>0, <1>3 DEF MarkUnsaved, Claimed, ClaimInv, TypeOK, MapCoversFile
    <2>5. RecordsOfGrantees'
      BY <1>0, <1>3 DEF MarkUnsaved, Claimed, ClaimInv, TypeOK, RecordsOfGrantees
    <2>6. NoAnswerYet' /\ CallerIsGrantee'
      BY <1>0, <1>3 DEF MarkUnsaved, Claimed, Answer, ClaimInv, TypeOK, NoAnswerYet, CallerIsGrantee
    <2>7. QED
      BY <2>1, <2>3, <2>4, <2>5, <2>6 DEF ClaimInv
  <1>4. QED
    BY <1>1, <1>2, <1>3 DEF MarkClaimed

(* A crash empties the map and leaves the file: the invariant survives.    *)
LEMMA CrashInv ==
  ASSUME ClaimInv, Crash
  PROVE  ClaimInv'
  <1>1. TypeOK'
    <2>1. /\ claims' \in [Tokens -> Records]
          /\ disk' \in [Tokens -> Records]
          /\ expired' \subseteq Tokens /\ unsaved' \subseteq Tokens
          /\ up' \in BOOLEAN
          /\ tok' \in [Reqs -> Tokens]
          /\ usr' \in [Reqs -> Users \cup {NoUser}]
          /\ status' \in [Reqs -> Statuses]
          /\ writeFails' \in 0..MaxWriteFails
      BY DEF Crash, ClaimInv, TypeOK, Records
    <2>2. pc' \in [Reqs -> {"idle", "done", "lost"} \cup Running]
      BY DEF Crash, ClaimInv, TypeOK
    <2>3. crashes' \in 0..MaxCrashes
      BY BoundAssumption DEF Crash, ClaimInv, TypeOK
    <2>4. QED
      BY <2>1, <2>2, <2>3 DEF TypeOK
  <1>2. SingleUse' /\ GrantDurable'
    BY DEF Crash, ClaimInv, SingleUse, GrantDurable, Granted
  <1>3. MapCoversFile' /\ RecordsOfGrantees'
    BY DEF Crash, ClaimInv, MapCoversFile, RecordsOfGrantees
  <1>4. NoAnswerYet' /\ CallerIsGrantee'
    BY DEF Crash, ClaimInv, TypeOK, NoAnswerYet, CallerIsGrantee, Running
  <1>5. QED
    BY <1>1, <1>2, <1>3, <1>4 DEF ClaimInv

(* NewStore's load makes the map cover the file again.                     *)
LEMMA RestartInv ==
  ASSUME ClaimInv, Restart
  PROVE  ClaimInv'
  BY DEF Restart, reqVars, ClaimInv, TypeOK, SingleUse, GrantDurable, Granted, MapCoversFile,
         NoAnswerYet, CallerIsGrantee, RecordsOfGrantees

(* The clock passing a token's ExpiresAt touches no claim.                 *)
LEMMA ExpireInv ==
  ASSUME ClaimInv, NEW t \in Tokens, Expire(t)
  PROVE  ClaimInv'
  BY DEF Expire, reqVars, storeVars, ClaimInv, TypeOK, SingleUse, GrantDurable, Granted,
         MapCoversFile, NoAnswerYet, CallerIsGrantee, RecordsOfGrantees

(* A step of the daemon that changes nothing preserves the invariant.      *)
LEMMA StutterInv ==
  ASSUME ClaimInv, UNCHANGED vars
  PROVE  ClaimInv'
  BY DEF vars, ClaimInv, TypeOK, SingleUse, GrantDurable, Granted, MapCoversFile, NoAnswerYet,
         CallerIsGrantee, RecordsOfGrantees

(* ClaimInv is inductive: it holds of every state the daemon can reach.    *)
THEOREM ClaimInvariant == Spec => []ClaimInv
  <1>1. ClaimInv /\ [Next]_vars => ClaimInv'
    <2> SUFFICES ASSUME ClaimInv, [Next]_vars
                 PROVE  ClaimInv'
      OBVIOUS
    <2>1. ASSUME NEW r \in Reqs, Handler(r)
          PROVE  ClaimInv'
      BY <2>1, ReceiveInv, VerifyInv, IsClaimedInv, MarkInv, ReplyInv DEF Handler
    <2>2. ASSUME NEW t \in Tokens, Expire(t)
          PROVE  ClaimInv'
      BY <2>2, ExpireInv
    <2>3. CASE Crash
      BY <2>3, CrashInv
    <2>4. CASE Restart
      BY <2>4, RestartInv
    <2>5. CASE Idle
      BY <2>5, StutterInv DEF Idle
    <2>6. CASE UNCHANGED vars
      BY <2>6, StutterInv
    <2>7. QED
      BY <2>1, <2>2, <2>3, <2>4, <2>5, <2>6 DEF Next
  <1>2. QED
    BY InitClaimInv, <1>1, PTL DEF Spec

(* The variables of the claim handler and its store keep their types.      *)
THEOREM TypeCorrect == Spec => []TypeOK
  <1>1. ClaimInv => TypeOK
    BY DEF ClaimInv
  <1>2. QED
    BY <1>1, ClaimInvariant, PTL

(* No token is claimed twice: the second test, under MarkClaimed's lock.   *)
THEOREM SingleUseHolds == Spec => []SingleUse
  <1>1. ClaimInv => SingleUse
    BY DEF ClaimInv
  <1>2. QED
    BY <1>1, ClaimInvariant, PTL

(* A claim answered with 200 stays in the claims file for ever.            *)
THEOREM GrantDurableHolds == Spec => []GrantDurable
  <1>1. ClaimInv => GrantDurable
    BY DEF ClaimInv
  <1>2. QED
    BY <1>1, ClaimInvariant, PTL

-----------------------------------------------------------------------------
(* The one kind of step that grants: MarkClaimed whose write succeeded.    *)
GrantStep(r) ==
    /\ up
    /\ pc[r] = "mark"
    /\ MarkSaved(r)
    /\ UNCHANGED tok

(* Every other step keeps the claims file and the requests that were       *)
(* granted: no handler answers a request it has answered before.           *)
LEMMA StepGrants ==
  ASSUME ClaimInv, [Next]_vars
  PROVE  \/ \E r \in Reqs : GrantStep(r)
         \/ /\ UNCHANGED <<disk, tok>>
            /\ \A q \in Reqs : Granted(q)' <=> Granted(q)
  <1> DEFINE Quiet == /\ UNCHANGED <<disk, tok>>
                      /\ \A q \in Reqs : Granted(q)' <=> Granted(q)
  <1>1. ASSUME NEW r \in Reqs, NEW code \in Refusals, Answer(r, code), UNCHANGED <<disk, tok>>,
               pc[r] \in {"idle", "verify", "check", "mark"}
        PROVE  Quiet
    BY <1>1 DEF Refusals, Answer, ClaimInv, TypeOK, NoAnswerYet, Granted
  <1>2. ASSUME UNCHANGED <<disk, tok, status>>
        PROVE  Quiet
    BY <1>2 DEF Granted
  <1>3. ASSUME NEW r \in Reqs, Receive(r)
        PROVE  Quiet
    <2>1. UNCHANGED <<disk, tok>> /\ pc[r] = "idle"
      BY <1>3 DEF Receive, storeVars
    <2>2. CASE \E code \in {405, 400} : Answer(r, code)
      BY <1>1, <2>1, <2>2 DEF Refusals, Statuses
    <2>3. CASE Goto(r, "verify")
      BY <1>2, <2>1, <2>3 DEF Goto
    <2>4. QED
      BY <1>3, <2>2, <2>3 DEF Receive
  <1>4. ASSUME NEW r \in Reqs, Verify(r)
        PROVE  Quiet
    <2>1. UNCHANGED <<disk, tok>> /\ pc[r] = "verify"
      BY <1>4 DEF Verify, storeVars
    <2>2. CASE \E code \in {500, 401, 410, 403} : Answer(r, code)
      BY <1>1, <2>1, <2>2 DEF Refusals, Statuses
    <2>3. CASE Goto(r, "check")
      BY <1>2, <2>1, <2>3 DEF Goto
    <2>4. QED
      BY <1>4, <2>2, <2>3 DEF Verify
  <1>5. ASSUME NEW r \in Reqs, IsClaimed(r)
        PROVE  Quiet
    <2>1. UNCHANGED <<disk, tok>> /\ pc[r] = "check"
      BY <1>5 DEF IsClaimed, storeVars
    <2>2. CASE Answer(r, 410)
      BY <1>1, <2>1, <2>2 DEF Refusals, Statuses
    <2>3. CASE Goto(r, "mark")
      BY <1>2, <2>1, <2>3 DEF Goto
    <2>4. QED
      BY <1>5, <2>2, <2>3 DEF IsClaimed
  <1>6. ASSUME NEW r \in Reqs, MarkClaimed(r)
        PROVE  GrantStep(r) \/ Quiet
    <2>1. up /\ pc[r] = "mark" /\ UNCHANGED tok
      BY <1>6 DEF MarkClaimed
    <2>2. CASE MarkSaved(r)
      BY <2>1, <2>2 DEF GrantStep
    <2>3. CASE MarkTaken(r) \/ MarkUnsaved(r)
      <3>1. Answer(r, 409) /\ UNCHANGED disk
        BY <2>3 DEF MarkTaken, MarkUnsaved, storeVars
      <3>2. QED
        BY <1>1, <2>1, <3>1 DEF Refusals, Statuses
    <2>4. QED
      BY <1>6, <2>2, <2>3 DEF MarkClaimed
  <1>7. ASSUME NEW r \in Reqs, Reply(r)
        PROVE  Quiet
    BY <1>2, <1>7 DEF Reply, Goto, storeVars
  <1>8. ASSUME Crash \/ Restart \/ Idle \/ UNCHANGED vars
        PROVE  Quiet
    BY <1>2, <1>8 DEF Crash, Restart, Idle, vars, reqVars
  <1>9. ASSUME NEW t \in Tokens, Expire(t)
        PROVE  Quiet
    BY <1>2, <1>9 DEF Expire, reqVars, storeVars
  <1> HIDE DEF Quiet
  <1>10. ASSUME NEW r \in Reqs, Handler(r)
         PROVE  (\E q \in Reqs : GrantStep(q)) \/ Quiet
    BY <1>3, <1>4, <1>5, <1>6, <1>7, <1>10 DEF Handler
  <1>11. (\E r \in Reqs : GrantStep(r)) \/ Quiet
    <2>1. CASE \E r \in Reqs : Handler(r)
      BY <1>10, <2>1
    <2>2. CASE \E t \in Tokens : Expire(t)
      BY <1>9, <2>2
    <2>3. QED
      BY <1>8, <2>1, <2>2 DEF Next
  <1>12. QED
    BY <1>11 DEF Quiet

(* What MarkClaimed's granting step does to the file: it adds records of   *)
(* grantees, the granted token's among them, and changes none.             *)
LEMMA GrantExtends ==
  ASSUME ClaimInv, NEW r \in Reqs, GrantStep(r)
  PROVE  /\ tok[r] \in Tokens
         /\ disk[tok[r]] = Unclaimed
         /\ disk'[tok[r]] = Grantee[tok[r]]
         /\ disk' \in [Tokens -> {Unclaimed} \cup {Grantee[u] : u \in Tokens}]
         /\ \A t \in Tokens :
              disk'[t] = disk[t] \/ (disk[t] = Unclaimed /\ disk'[t] = Grantee[t])
  <1>1. /\ up /\ tok[r] \in Tokens /\ usr[r] = Grantee[tok[r]]
        /\ claims[tok[r]] = Unclaimed
        /\ claims \in [Tokens -> Records]
        /\ disk' = [claims EXCEPT ![tok[r]] = Grantee[tok[r]]]
    <2>1. up /\ pc[r] = "mark" /\ tok[r] \in Tokens /\ claims \in [Tokens -> Records]
      BY DEF GrantStep, ClaimInv, TypeOK
    <2>2. usr[r] = Grantee[tok[r]]
      BY <2>1 DEF ClaimInv, CallerIsGrantee
    <2>3. claims[tok[r]] = Unclaimed /\ disk' = [claims EXCEPT ![tok[r]] = usr[r]]
      BY DEF GrantStep, MarkSaved, PersistLocked, Claimed
    <2>4. QED
      BY <2>1, <2>2, <2>3
  <1>2. \A t \in Tokens :
          /\ disk[t] # Unclaimed => claims[t] = disk[t]
          /\ claims[t] \in {Unclaimed, Grantee[t]}
          /\ disk[t] \in {Unclaimed, Grantee[t]}
    BY <1>1 DEF ClaimInv, MapCoversFile, RecordsOfGrantees
  <1>3. \A t \in Tokens : disk'[t] = IF t = tok[r] THEN Grantee[t] ELSE claims[t]
    BY <1>1
  <1>4. disk' = [t \in Tokens |-> disk'[t]]
    BY <1>1
  <1>5. \A t \in Tokens : disk'[t] \in {Unclaimed} \cup {Grantee[u] : u \in Tokens}
    BY <1>2, <1>3
  <1>6. disk' \in [Tokens -> {Unclaimed} \cup {Grantee[u] : u \in Tokens}]
    BY <1>4, <1>5
  <1>7. \A t \in Tokens :
          disk'[t] = disk[t] \/ (disk[t] = Unclaimed /\ disk'[t] = Grantee[t])
    BY <1>1, <1>2, <1>3
  <1>8. disk[tok[r]] = Unclaimed
    BY <1>1, <1>2
  <1>9. QED
    BY <1>1, <1>3, <1>6, <1>7, <1>8

(* No record of the claims file is ever changed or removed, although       *)
(* persistLocked rewrites the whole file from the map.                     *)
THEOREM LedgerPermanentHolds == Spec => LedgerPermanent
  <1>1. ClaimInv /\ [Next]_vars
          => [\A t \in Tokens : disk[t] # Unclaimed => disk'[t] = disk[t]]_vars
    <2> SUFFICES ASSUME ClaimInv, [Next]_vars
                 PROVE  \A t \in Tokens : disk[t] # Unclaimed => disk'[t] = disk[t]
      OBVIOUS
    <2>1. ASSUME NEW r \in Reqs, GrantStep(r)
          PROVE  \A t \in Tokens : disk[t] # Unclaimed => disk'[t] = disk[t]
      BY <2>1, GrantExtends
    <2>2. QED
      BY <2>1, StepGrants
  <1>2. QED
    BY <1>1, ClaimInvariant, PTL DEF Spec, LedgerPermanent

(***************************************************************************)
(* Every claim is accounted for.  A step that answers a request answers    *)
(* one that had no answer, so that nobody's grant is taken back; the claim *)
(* that a step enters is granted or noted as unsaved in that step.         *)
(***************************************************************************)
LEMMA GrantsKept ==
  ASSUME ClaimInv, [Next]_vars
  PROVE  /\ tok' = tok
         /\ \A r \in Reqs : Granted(r) => Granted(r)'
  <1> USE DEF ClaimInv, TypeOK, NoAnswerYet, Granted
  <1>1. ASSUME NEW r \in Reqs, Handler(r)
        PROVE  /\ tok' = tok
               /\ \A q \in Reqs : Granted(q) => Granted(q)'
    <2>1. CASE Receive(r) \/ Verify(r) \/ IsClaimed(r) \/ Reply(r)
      BY <2>1 DEF Receive, Verify, IsClaimed, Reply, Answer, Goto
    <2>2. CASE MarkClaimed(r)
      BY <2>2 DEF MarkClaimed, MarkTaken, MarkSaved, MarkUnsaved, Answer
    <2>3. QED
      BY <1>1, <2>1, <2>2 DEF Handler
  <1>2. CASE (\E t \in Tokens : Expire(t)) \/ Crash \/ Restart \/ Idle \/ UNCHANGED vars
    BY <1>2 DEF Expire, Crash, Restart, Idle, reqVars, vars
  <1>3. QED
    BY <1>1, <1>2 DEF Next

(* What a step does to the map, the file and the tokens not saved.         *)
LEMMA ClaimsChange ==
  ASSUME ClaimInv, [Next]_vars
  PROVE  /\ unsaved \subseteq unsaved'
         /\ \A t \in Tokens :
              /\ claims'[t] # Unclaimed =>
                   \/ claims[t] # Unclaimed \/ disk[t] # Unclaimed \/ t \in unsaved'
                   \/ \E r \in Reqs : Granted(r)' /\ tok'[r] = t
              /\ disk'[t] # Unclaimed =>
                   \/ claims[t] # Unclaimed \/ disk[t] # Unclaimed
                   \/ \E r \in Reqs : Granted(r)' /\ tok'[r] = t
  <1> DEFINE Goal ==
        /\ unsaved \subseteq unsaved'
        /\ \A t \in Tokens :
             /\ claims'[t] # Unclaimed =>
                  \/ claims[t] # Unclaimed \/ disk[t] # Unclaimed \/ t \in unsaved'
                  \/ \E r \in Reqs : Granted(r)' /\ tok'[r] = t
             /\ disk'[t] # Unclaimed =>
                  \/ claims[t] # Unclaimed \/ disk[t] # Unclaimed
                  \/ \E r \in Reqs : Granted(r)' /\ tok'[r] = t
  <1>1. ASSUME NEW r \in Reqs, MarkSaved(r), tok' = tok
        PROVE  Goal
    <2>1. /\ Granted(r)' /\ tok[r] \in Tokens /\ unsaved' = unsaved
          /\ claims' = [claims EXCEPT ![tok[r]] = usr[r]] /\ disk' = claims'
      BY <1>1 DEF MarkSaved, PersistLocked, ClaimInv, TypeOK, Granted
    <2>2. \A t \in Tokens : t # tok[r] => claims'[t] = claims[t]
      BY <2>1 DEF ClaimInv, TypeOK
    <2>3. \E q \in Reqs : Granted(q)' /\ tok'[q] = tok[r]
      BY <1>1, <2>1
    <2>4. QED
      BY <2>1, <2>2, <2>3
  <1>2. ASSUME NEW r \in Reqs, MarkUnsaved(r)
        PROVE  Goal
    BY <1>2 DEF MarkUnsaved, ClaimInv, TypeOK
  <1>3. ASSUME claims' = claims, disk' = disk, unsaved' = unsaved
        PROVE  Goal
    BY <1>3
  <1>4. ASSUME Crash \/ Restart
        PROVE  Goal
    BY <1>4 DEF Crash, Restart, ClaimInv, TypeOK
  <1> HIDE DEF Goal
  <1>5. ASSUME NEW r \in Reqs, Handler(r)
        PROVE  Goal
    <2>1. CASE Receive(r) \/ Verify(r) \/ IsClaimed(r) \/ Reply(r)
      BY <1>3, <2>1 DEF Receive, Verify, IsClaimed, Reply, storeVars
    <2>2. CASE MarkClaimed(r)
      <3>1. tok' = tok /\ (MarkTaken(r) \/ MarkSaved(r) \/ MarkUnsaved(r))
        BY <2>2 DEF MarkClaimed
      <3>2. CASE MarkTaken(r)
        BY <1>3, <3>2 DEF MarkTaken, storeVars
      <3>3. QED
        BY <1>1, <1>2, <3>1, <3>2
    <2>3. QED
      BY <1>5, <2>1, <2>2 DEF Handler
  <1>6. ASSUME (\E t \in Tokens : Expire(t)) \/ Idle \/ UNCHANGED vars
        PROVE  Goal
    <2>1. claims' = claims /\ disk' = disk /\ unsaved' = unsaved
      BY <1>6 DEF Expire, Idle, storeVars, vars
    <2>2. QED
      BY <1>3, <2>1
  <1>7. Goal
    <2>1. CASE \E r \in Reqs : Handler(r)
      BY <1>5, <2>1
    <2>2. QED
      BY <1>4, <1>6, <2>1 DEF Next
  <1>8. QED
    BY <1>7 DEF Goal

(* A token counts as claimed only because a request won it or because a    *)
(* request's claim could not be saved, in memory and in the claims file,   *)
(* whatever crashes, reloads and rewrites of the file come in between.     *)
THEOREM ClaimAccountedHolds == Spec => []ClaimAccounted
  <1>1. Init => AccountedInv
    BY DEF Init, AccountedInv, ClaimAccounted, FileAccounted
  <1>2. ClaimInv /\ AccountedInv /\ [Next]_vars => AccountedInv'
    <2> SUFFICES ASSUME ClaimInv, AccountedInv, [Next]_vars,
                        NEW t \in Tokens, claims'[t] # Unclaimed \/ disk'[t] # Unclaimed
                 PROVE  t \in unsaved' \/ \E r \in Reqs : Granted(r)' /\ tok'[r] = t
      BY DEF AccountedInv, ClaimAccounted, FileAccounted
    <2>1. CASE claims[t] # Unclaimed \/ disk[t] # Unclaimed
      <3>1. t \in unsaved \/ \E r \in Reqs : Granted(r) /\ tok[r] = t
        BY <2>1 DEF AccountedInv, ClaimAccounted, FileAccounted
      <3>2. QED
        BY <3>1, GrantsKept, ClaimsChange
    <2>2. CASE ~(claims[t] # Unclaimed \/ disk[t] # Unclaimed)
      BY <2>2, ClaimsChange
    <2>3. QED
      BY <2>1, <2>2
  <1>3. AccountedInv => ClaimAccounted
    BY DEF AccountedInv
  <1>4. QED
    BY <1>1, <1>2, <1>3, ClaimInvariant, PTL DEF Spec

-----------------------------------------------------------------------------
(* The winner of a token is the request that was granted it, if any.       *)
WinnerFact ==
    /\ \A r \in Reqs : Granted(r) => Winner(tok[r]) = r
    /\ \A t \in Tokens : (\A r \in Reqs : ~(Granted(r) /\ tok[r] = t)) => Winner(t) = NoReq

(* Single use makes the choice in Winner the choice of the granted request. *)
LEMMA WinnerIs == ClaimInv => WinnerFact
  <1> SUFFICES ASSUME ClaimInv
               PROVE  WinnerFact
    OBVIOUS
  <1>1. ASSUME NEW r \in Reqs, Granted(r)
        PROVE  Winner(tok[r]) = r
    <2> DEFINE w == CHOOSE q \in Reqs : Granted(q) /\ tok[q] = tok[r]
    <2>1. w \in Reqs /\ Granted(w) /\ tok[w] = tok[r]
      BY <1>1
    <2>2. w = r
      BY <1>1, <2>1 DEF ClaimInv, SingleUse
    <2>3. QED
      BY <1>1, <2>2 DEF Winner
  <1>2. QED
    BY <1>1 DEF Winner, WinnerFact

(* A step that grants nobody leaves every winner as it was.                *)
LEMMA QuietWinners ==
  ASSUME WinnerFact, WinnerFact', UNCHANGED tok, \A q \in Reqs : Granted(q)' <=> Granted(q)
  PROVE  \A t \in Tokens : Winner(t)' = Winner(t)
  <1> SUFFICES ASSUME NEW t \in Tokens
               PROVE  Winner(t)' = Winner(t)
    OBVIOUS
  <1>1. CASE \E r \in Reqs : Granted(r) /\ tok[r] = t
    <2>1. PICK r \in Reqs : Granted(r) /\ tok[r] = t
      BY <1>1
    <2>2. Winner(t) = r
      BY <2>1 DEF WinnerFact
    <2>3. Winner(t)' = r
      BY <2>1 DEF WinnerFact
    <2>4. QED
      BY <2>2, <2>3
  <1>2. CASE ~\E r \in Reqs : Granted(r) /\ tok[r] = t
    <2>1. Winner(t) = NoReq
      BY <1>2 DEF WinnerFact
    <2>2. Winner(t)' = NoReq
      BY <1>2 DEF WinnerFact
    <2>3. QED
      BY <2>1, <2>2
  <1>3. QED
    BY <1>1, <1>2

(***************************************************************************)
(* The granting step of MarkClaimed is the ledger's Grant: the token had   *)
(* no winner, since the file had no record of it.                          *)
(***************************************************************************)
LEMMA GrantRefines ==
  ASSUME ClaimInv, WinnerFact, WinnerFact', NEW r \in Reqs, GrantStep(r)
  PROVE  Ledger!Grant(r, tok[r])
  <1>1. tok[r] \in Tokens /\ disk[tok[r]] = Unclaimed
    BY GrantExtends
  <1>2. \A q \in Reqs : Granted(q) => tok[q] # tok[r]
    BY <1>1, TokenAssumption DEF ClaimInv, TypeOK, GrantDurable
  <1>3. /\ \A q \in Reqs : q # r => (Granted(q)' <=> Granted(q))
        /\ Granted(r)'
        /\ tok' = tok
    BY DEF GrantStep, MarkSaved, PersistLocked, Claimed, ClaimInv, TypeOK, Granted
  <1>4. Winner(tok[r]) = NoReq
    BY <1>1, <1>2 DEF WinnerFact
  <1>5. Winner(tok[r])' = r
    BY <1>3 DEF WinnerFact
  <1>6. ASSUME NEW t \in Tokens, t # tok[r]
        PROVE  Winner(t)' = Winner(t)
    <2>1. CASE \E q \in Reqs : Granted(q) /\ tok[q] = t
      <3>1. PICK q \in Reqs : Granted(q) /\ tok[q] = t
        BY <2>1
      <3>2. Winner(t) = q
        BY <3>1 DEF WinnerFact
      <3>3. Winner(t)' = q
        BY <1>3, <1>6, <3>1 DEF WinnerFact
      <3>4. QED
        BY <3>2, <3>3
    <2>2. CASE ~\E q \in Reqs : Granted(q) /\ tok[q] = t
      <3>1. Winner(t) = NoReq
        BY <2>2 DEF WinnerFact
      <3>2. Winner(t)' = NoReq
        BY <1>3, <1>6, <2>2 DEF WinnerFact
      <3>3. QED
        BY <3>1, <3>2
    <2>3. QED
      BY <2>1, <2>2
  <1>7. [t \in Tokens |-> Winner(t)'] = [[t \in Tokens |-> Winner(t)] EXCEPT ![tok[r]] = r]
    <2>1. \A t \in Tokens : Winner(t)' = IF t = tok[r] THEN r ELSE Winner(t)
      BY <1>3, <1>5, <1>6
    <2>2. QED
      BY <1>1, <2>1
  <1>8. [t \in Tokens |-> Winner(t)][tok[r]] = NoReq
    BY <1>1, <1>4
  <1>9. QED
    BY <1>7, <1>8, GrantExtends DEF Ledger!Grant, Ledger!Extends

(***************************************************************************)
(* The handler, the store and the claims file implement the single-use     *)
(* ledger: every step of the daemon is a Grant or leaves file and winners. *)
(***************************************************************************)
THEOREM Refinement == Spec => ImplementsLedger
  <1>1. Init => Ledger!Init
    <2> SUFFICES ASSUME Init
                 PROVE  Ledger!Init
      OBVIOUS
    <2>0. status = [r \in Reqs |-> 0]
      BY DEF Init
    <2>1. ASSUME NEW r \in Reqs
          PROVE  ~Granted(r)
      <3>1. status[r] = 0
        BY <2>0
      <3>2. QED
        BY <3>1 DEF Granted
    <2>2. \A t \in Tokens : Winner(t) = NoReq
      BY <2>1 DEF Winner
    <2>3. QED
      BY <2>2 DEF Ledger!Init, Init
  <1>2. ClaimInv /\ WinnerFact /\ WinnerFact' /\ [Next]_vars => [Ledger!Next]_(Ledger!vars)
    <2> SUFFICES ASSUME ClaimInv, WinnerFact, WinnerFact', [Next]_vars
                 PROVE  [Ledger!Next]_(Ledger!vars)
      OBVIOUS
    <2>1. ASSUME NEW r \in Reqs, GrantStep(r)
          PROVE  Ledger!Next
      BY <2>1, GrantRefines, GrantExtends DEF Ledger!Next
    <2>2. CASE UNCHANGED <<disk, tok>> /\ \A q \in Reqs : Granted(q)' <=> Granted(q)
      <3>1. \A t \in Tokens : Winner(t)' = Winner(t)
        BY <2>2, QuietWinners
      <3>2. [t \in Tokens |-> Winner(t)]' = [t \in Tokens |-> Winner(t)]
        BY <3>1
      <3>3. QED
        BY <2>2, <3>2 DEF Ledger!vars
    <2>3. QED
      BY <2>1, <2>2, StepGrants
  <1>3. QED
    BY <1>1, <1>2, WinnerIs, ClaimInvariant, PTL DEF Spec, ImplementsLedger, Ledger!Spec
=============================================================================
