---------------------------- MODULE InviteClaims ----------------------------
(***************************************************************************)
(* POST /services/claim: the handler of internal/api/invites.go over the   *)
(* claim store of internal/invite/store.go.                                *)
(*                                                                         *)
(* Every request runs in a goroutine of its own; the store's RWMutex makes *)
(* IsClaimed and MarkClaimed one step each, and nothing makes the two      *)
(* together one step.  MarkClaimed enters the claim in memory and then     *)
(* rewrites the whole claims file; the write can fail, and the entry in    *)
(* memory stays.  The daemon can crash between any two steps; a restart    *)
(* loads memory from the file.                                             *)
(***************************************************************************)
EXTENDS Naturals

CONSTANTS
    Reqs,          \* the requests, one goroutine each
    Tokens,        \* token IDs (the jti of the payload)
    Users,         \* login names of callers
    NoUser,        \* a caller whose identity the transport does not give
    Genuine,       \* the tokens whose signature verifies with this node's key
    Grantee,       \* Grantee[t]: the login in the payload of t
    Unclaimed,     \* no record of a token
    NoReq,         \* no request (the winner of a token nobody won)
    MaxCrashes,    \* bound on crashes
    MaxWriteFails  \* bound on failing writes of the claims file

ASSUME TokenAssumption ==
    /\ Genuine \subseteq Tokens
    /\ Grantee \in [Tokens -> Users]
    /\ Unclaimed \notin Users
    /\ NoUser \notin Users
    /\ NoReq \notin Reqs

ASSUME BoundAssumption == MaxCrashes \in Nat /\ MaxWriteFails \in Nat

VARIABLES
    claims,    \* Store.claims: token -> who claimed it, or Unclaimed
    disk,      \* the claims file
    expired,   \* the tokens whose ExpiresAt has passed
    up,        \* the daemon runs
    pc,        \* pc[r]: where the goroutine of r is
    tok, usr,  \* tok[r], usr[r]: the token in r's body and r's caller
    status,    \* status[r]: the HTTP status decided for r, 0 before that
    unsaved,   \* history: tokens whose claim could not be written
    crashes, writeFails

reqVars  == <<pc, tok, usr, status>>
storeVars == <<claims, disk, unsaved, writeFails>>
vars == <<claims, disk, expired, up, pc, tok, usr, status, unsaved, crashes, writeFails>>

Records == Users \cup {Unclaimed}

Running == {"verify", "check", "mark", "reply"}

Statuses == {0, 200, 400, 401, 403, 405, 409, 410, 500}

TypeOK ==
    /\ claims \in [Tokens -> Records]
    /\ disk \in [Tokens -> Records]
    /\ expired \subseteq Tokens
    /\ up \in BOOLEAN
    /\ pc \in [Reqs -> {"idle", "done", "lost"} \cup Running]
    /\ tok \in [Reqs -> Tokens]
    /\ usr \in [Reqs -> Users \cup {NoUser}]
    /\ status \in [Reqs -> Statuses]
    /\ unsaved \subseteq Tokens
    /\ crashes \in 0..MaxCrashes
    /\ writeFails \in 0..MaxWriteFails

-----------------------------------------------------------------------------
(* NewStore without a claims file: load leaves the map empty.              *)
Init ==
    /\ claims = [t \in Tokens |-> Unclaimed]
    /\ disk = [t \in Tokens |-> Unclaimed]
    /\ expired = {}
    /\ up = TRUE
    /\ pc = [r \in Reqs |-> "idle"]
    /\ tok \in [Reqs -> Tokens]
    /\ usr \in [Reqs -> Users \cup {NoUser}]
    /\ status = [r \in Reqs |-> 0]
    /\ unsaved = {}
    /\ crashes = 0
    /\ writeFails = 0

Answer(r, code) ==
    /\ pc' = [pc EXCEPT ![r] = "done"]
    /\ status' = [status EXCEPT ![r] = code]

Goto(r, l) ==
    /\ pc' = [pc EXCEPT ![r] = l]
    /\ status' = status

(* The request arrives: its method and its body are checked.               *)
Receive(r) ==
    /\ up
    /\ pc[r] = "idle"
    /\ \/ Answer(r, 405)
       \/ Answer(r, 400)
       \/ Goto(r, "verify")
    /\ UNCHANGED <<tok, usr, storeVars, expired, up, crashes>>

ParseAndVerify(t) == t \in Genuine

(***************************************************************************)
(* LoadPublicKey, ParseAndVerify, the expiry against the clock, and the    *)
(* caller against the grantee, in the order of the code.  The clock is the *)
(* only shared thing read here, and it is read once.                       *)
(***************************************************************************)
Verify(r) ==
    /\ up
    /\ pc[r] = "verify"
    /\ \/ Answer(r, 500)
       \/ ~ParseAndVerify(tok[r]) /\ Answer(r, 401)
       \/ /\ ParseAndVerify(tok[r])
          /\ \/ tok[r] \in expired /\ Answer(r, 410)
             \/ tok[r] \notin expired /\ usr[r] # Grantee[tok[r]] /\ Answer(r, 403)
             \/ tok[r] \notin expired /\ usr[r] = Grantee[tok[r]] /\ Goto(r, "check")
    /\ UNCHANGED <<tok, usr, storeVars, expired, up, crashes>>

(* Store.IsClaimed.                                                        *)
Claimed(t) == claims[t] # Unclaimed

IsClaimed(r) ==
    /\ up
    /\ pc[r] = "check"
    /\ IF Claimed(tok[r]) THEN Answer(r, 410) ELSE Goto(r, "mark")
    /\ UNCHANGED <<tok, usr, storeVars, expired, up, crashes>>

(***************************************************************************)
(* The three ways out of Store.MarkClaimed, which runs under the store's   *)
(* lock from the test to the end of AtomicWrite.                           *)
(***************************************************************************)
(* A MarkClaimed that leaves the second test of the map out.               *)
MutantMarkNoRetest(r) ==
    /\ claims' = [claims EXCEPT ![tok[r]] = usr[r]]
    /\ disk' = claims'
    /\ pc' = [pc EXCEPT ![r] = "reply"]
    /\ status' = [status EXCEPT ![r] = 200]
    /\ UNCHANGED <<unsaved, writeFails>>

(* A MarkClaimed that swaps the token ID and the claimant.                 *)
MutantMarkSwapped(r) ==
    /\ claims[tok[r]] = Unclaimed
    /\ claims' = [claims EXCEPT ![tok[r]] = tok[r]]
    /\ disk' = claims'
    /\ pc' = [pc EXCEPT ![r] = "reply"]
    /\ status' = [status EXCEPT ![r] = 200]
    /\ UNCHANGED <<unsaved, writeFails>>

(* A MarkClaimed that drops the error of persistLocked.                    *)
MutantMarkIgnoresError(r) ==
    /\ claims[tok[r]] = Unclaimed
    /\ writeFails < MaxWriteFails
    /\ writeFails' = writeFails + 1
    /\ claims' = [claims EXCEPT ![tok[r]] = usr[r]]
    /\ unsaved' = unsaved \cup {tok[r]}
    /\ pc' = [pc EXCEPT ![r] = "reply"]
    /\ status' = [status EXCEPT ![r] = 200]
    /\ UNCHANGED disk

(* A MarkClaimed that enters the claim under every free token.             *)
MutantMarkOtherToken(r) ==
    /\ claims[tok[r]] = Unclaimed
    /\ claims' = [t \in Tokens |-> IF claims[t] = Unclaimed THEN usr[r] ELSE claims[t]]
    /\ disk' = claims'
    /\ pc' = [pc EXCEPT ![r] = "reply"]
    /\ status' = [status EXCEPT ![r] = 200]
    /\ UNCHANGED <<unsaved, writeFails>>

MarkTaken(r) ==
    /\ Claimed(tok[r])
    /\ Answer(r, 409)
    /\ UNCHANGED storeVars

(* The whole map goes to the file.                                         *)
PersistLocked == disk' = claims'

MarkSaved(r) ==
    /\ ~Claimed(tok[r])
    /\ claims' = [claims EXCEPT ![tok[r]] = usr[r]]
    /\ PersistLocked
    /\ pc' = [pc EXCEPT ![r] = "reply"]
    /\ status' = [status EXCEPT ![r] = 200]
    /\ UNCHANGED <<unsaved, writeFails>>

MarkUnsaved(r) ==
    /\ ~Claimed(tok[r])
    /\ writeFails < MaxWriteFails
    /\ writeFails' = writeFails + 1
    /\ claims' = [claims EXCEPT ![tok[r]] = usr[r]]
    /\ unsaved' = unsaved \cup {tok[r]}
    /\ Answer(r, 409)
    /\ UNCHANGED disk

MarkClaimed(r) ==
    /\ up
    /\ pc[r] = "mark"
    /\ MarkTaken(r) \/ MarkSaved(r) \/ MarkUnsaved(r)
    /\ UNCHANGED <<tok, usr, expired, up, crashes>>

(* WriteJSON of the 200: a crash before it leaves a claim nobody was told of. *)
Reply(r) ==
    /\ up
    /\ pc[r] = "reply"
    /\ Goto(r, "done")
    /\ UNCHANGED <<tok, usr, storeVars, expired, up, crashes>>

-----------------------------------------------------------------------------
Expire(t) ==
    /\ t \notin expired
    /\ expired' = expired \cup {t}
    /\ UNCHANGED <<reqVars, storeVars, up, crashes>>

Crash ==
    /\ up
    /\ crashes < MaxCrashes
    /\ crashes' = crashes + 1
    /\ up' = FALSE
    /\ claims' = [t \in Tokens |-> Unclaimed]
    /\ pc' = [r \in Reqs |-> IF pc[r] \in Running THEN "lost" ELSE pc[r]]
    /\ UNCHANGED <<tok, usr, status, disk, unsaved, writeFails, expired>>

(* A NewStore that does not call load.                                     *)
MutantRestartEmpty ==
    /\ ~up
    /\ up' = TRUE
    /\ claims' = [t \in Tokens |-> Unclaimed]
    /\ UNCHANGED <<reqVars, disk, unsaved, writeFails, expired, crashes>>

(* NewStore: load fills the map from the claims file.                      *)
Restart ==
    /\ ~up
    /\ up' = TRUE
    /\ claims' = disk
    /\ UNCHANGED <<reqVars, disk, unsaved, writeFails, expired, crashes>>

(* The daemon listens and no request is in flight.                         *)
Idle ==
    /\ up
    /\ \A r \in Reqs : pc[r] \notin Running
    /\ UNCHANGED vars

Handler(r) == Receive(r) \/ Verify(r) \/ IsClaimed(r) \/ MarkClaimed(r) \/ Reply(r)

Next ==
    \/ \E r \in Reqs : Handler(r)
    \/ \E t \in Tokens : Expire(t)
    \/ Crash
    \/ Restart
    \/ Idle

Spec == Init /\ [][Next]_vars

-----------------------------------------------------------------------------
(* The code decided to answer r with 200, whether or not the answer left.  *)
Granted(r) == status[r] = 200

(***************************************************************************)
(* A token is claimed by one request at most, however the requests' tests  *)
(* and marks interleave and whatever crashes and failing writes come in    *)
(* between: the second test, under the lock of MarkClaimed, decides.       *)
(***************************************************************************)
SingleUse ==
    \A r, s \in Reqs : Granted(r) /\ Granted(s) /\ tok[r] = tok[s] => r = s

(***************************************************************************)
(* A claim that was answered with 200 is in the claims file, under the     *)
(* token's grantee, in every later state: no crash, no failing write of    *)
(* another claim and no rewrite of the file loses it.                      *)
(***************************************************************************)
GrantDurable ==
    \A r \in Reqs : Granted(r) => disk[tok[r]] = Grantee[tok[r]]

(***************************************************************************)
(* A token counts as claimed in memory only because a request won it or    *)
(* because a request's claim could not be saved: persistLocked writes the  *)
(* whole map, and no rewrite or reload invents a claim.                    *)
(***************************************************************************)
ClaimAccounted ==
    \A t \in Tokens :
        claims[t] # Unclaimed => t \in unsaved \/ \E r \in Reqs : Granted(r) /\ tok[r] = t

(***************************************************************************)
(* A record of the claims file is never changed or removed, although the   *)
(* whole file is rewritten from memory at every claim.                     *)
(***************************************************************************)
LedgerPermanent ==
    [][\A t \in Tokens : disk[t] # Unclaimed => disk'[t] = disk[t]]_vars

-----------------------------------------------------------------------------
(***************************************************************************)
(* The inductive invariant behind SingleUse and GrantDurable.  Both follow *)
(* from what MarkClaimed relies on: a running daemon's map covers the      *)
(* file, a goroutine that has not marked has no answer yet, and one that   *)
(* reached the store acts for the grantee.                                 *)
(***************************************************************************)
MapCoversFile ==
    up => \A t \in Tokens : disk[t] # Unclaimed => claims[t] = disk[t]

NoAnswerYet ==
    \A r \in Reqs : pc[r] \in {"idle", "verify", "check", "mark"} => status[r] = 0

CallerIsGrantee ==
    \A r \in Reqs : pc[r] \in {"check", "mark"} => usr[r] = Grantee[tok[r]]

RecordsOfGrantees ==
    \A t \in Tokens : claims[t] \in {Unclaimed, Grantee[t]} /\ disk[t] \in {Unclaimed, Grantee[t]}

ClaimInv ==
    /\ TypeOK
    /\ SingleUse
    /\ GrantDurable
    /\ MapCoversFile
    /\ NoAnswerYet
    /\ CallerIsGrantee
    /\ RecordsOfGrantees

(***************************************************************************)
(* The strengthening of ClaimAccounted: a restart loads the map from the   *)
(* file, so that the records of the file have to be accounted for too.     *)
(***************************************************************************)
FileAccounted ==
    \A t \in Tokens :
        disk[t] # Unclaimed => t \in unsaved \/ \E r \in Reqs : Granted(r) /\ tok[r] = t

AccountedInv == ClaimAccounted /\ FileAccounted

-----------------------------------------------------------------------------
(* The refinement of SingleUseLedger.                                      *)
Winner(t) ==
    IF \E r \in Reqs : Granted(r) /\ tok[r] = t
    THEN CHOOSE r \in Reqs : Granted(r) /\ tok[r] = t
    ELSE NoReq

Ledger == INSTANCE SingleUseLedger WITH
    ledger <- disk, winner <- [t \in Tokens |-> Winner(t)]

(***************************************************************************)
(* The handler, the store and the claims file together implement the       *)
(* single-use ledger: a step either grants one unclaimed token or leaves   *)
(* the ledger and the winners as they are.                                 *)
(***************************************************************************)
ImplementsLedger == Ledger!Spec
=============================================================================
