--------------------------- MODULE AdminRoleProofs ---------------------------
(***************************************************************************)
(* Proofs about AdminRole: the election yields at most one admin however   *)
(* daemons start and crash, and a hand-over keeps exactly one at rest and  *)
(* never none, for every number of nodes and of transfers.                 *)
(***************************************************************************)
EXTENDS AdminRole, FiniteSetTheorems, WellFoundedInduction, TLAPS

Stages == {"idle", "check", "read", "write", "promote", "wait", "rollback", "stepdown",
           "done", "lost"}

-----------------------------------------------------------------------------
(* The least name. *)

LEMMA LeastIsLeast ==
    ASSUME NEW S, S \subseteq Nodes, S # {}
    PROVE  Least(S) \in S /\ \A m \in S : Least(S) <= m
<1> DEFINE R == OpToRel(<, Nat)
<1>1. S \subseteq Nat
  BY RoleAssumption
<1>2. IsWellFoundedOn(R, Nat)
  BY NatLessThanWellFounded
<1>3. \A x, y \in Nat : y < x => <<y, x>> \in R
  BY DEF OpToRel
<1> HIDE DEF R
<1>4. PICK x \in S : \A y \in S : <<y, x>> \notin R
  BY <1>1, <1>2, WFMin
<1>5. ASSUME NEW y \in S PROVE x <= y
  <2>1. x \in Nat /\ y \in Nat /\ ~(y < x)
    BY <1>1, <1>3, <1>4
  <2> QED
    BY <2>1
<1> QED
  BY <1>5 DEF Least

LEMMA PeersTyped ==
    ASSUME NEW n \in Nodes
    PROVE  Peers[n] \subseteq Nodes /\ Peers[n] \cup {n} \subseteq Nodes
<1>1. Peers[n] \in SUBSET Nodes
  BY RoleAssumption
<1> QED
  BY <1>1

-----------------------------------------------------------------------------
(* Types. *)

LEMMA InitTyped == Init => TypeOK
<1> SUFFICES ASSUME Init PROVE TypeOK
  OBVIOUS
<1> USE RoleAssumption
<1>1. node \in [Nodes -> {"down", "probing", "up"}] /\ todo \in [Nodes -> SUBSET Nodes]
  BY DEF Init
<1>2. isAdmin \in [Nodes -> BOOLEAN] /\ fence \in [Nodes -> Nat]
  BY DEF Init
<1>3. pc \in [Xfers -> Stages]
  BY DEF Init, Stages
<1>4. cur \in [Xfers -> Nat] /\ status \in [Xfers -> {0, 200, 400, 403, 409, 500}]
  BY DEF Init
<1>5. promo \in [Xfers -> {"none", "sent", "written", "ok", "refused", "gone"}]
  BY DEF Init
<1> QED
  BY <1>1, <1>2, <1>3, <1>4, <1>5 DEF Init, TypeOK, Stages

LEMMA TypeStep ==
    ASSUME TypeOK, [Next]_vars
    PROVE  TypeOK'
<1> USE DEF TypeOK, SetAdmin, AtomicWrite, Goto, Answer, nodeVars, xferVars
<1>1. ASSUME NEW n \in Nodes, Start(n) PROVE TypeOK'
  BY <1>1, PeersTyped DEF Start
<1>2. ASSUME NEW n \in Nodes, Probe(n) PROVE TypeOK'
  <2>1. node' \in [Nodes -> {"down", "probing", "up"}] /\ isAdmin' \in [Nodes -> BOOLEAN]
    <3>1. \/ node' = [node EXCEPT ![n] = "up"] /\ isAdmin' = [isAdmin EXCEPT ![n] = FALSE]
          \/ node' = node /\ isAdmin' = isAdmin
      BY <1>2 DEF Probe
    <3>2. CASE node' = [node EXCEPT ![n] = "up"] /\ isAdmin' = [isAdmin EXCEPT ![n] = FALSE]
      BY <1>2, <3>2
    <3>3. CASE node' = node /\ isAdmin' = isAdmin
      BY <3>3
    <3> QED
      BY <3>1, <3>2, <3>3
  <2>2. todo' \in [Nodes -> SUBSET Nodes]
    <3>1. PICK T \in SUBSET Nodes : todo' = [todo EXCEPT ![n] = T]
      BY <1>2 DEF Probe
    <3> QED
      BY <1>2, <3>1
  <2> QED
    BY <1>2, <2>1, <2>2 DEF Probe
<1>3. ASSUME NEW n \in Nodes, Elect(n) PROVE TypeOK'
  <2> DEFINE b == n = Least(Peers[n] \cup {n})
  <2>1. b \in BOOLEAN
    OBVIOUS
  <2>2. isAdmin' = [isAdmin EXCEPT ![n] = b]
    BY <1>3 DEF Elect
  <2> HIDE DEF b
  <2>3. isAdmin' \in [Nodes -> BOOLEAN]
    BY <2>1, <2>2
  <2> QED
    BY <1>3, <2>3 DEF Elect
<1>4. ASSUME NEW n \in Nodes, Crash(n) PROVE TypeOK'
  <2> USE RoleAssumption
  <2>1. pc' \in [Xfers -> Stages]
    BY <1>4 DEF Crash, Stages
  <2>2. promo' \in [Xfers -> {"none", "sent", "written", "ok", "refused", "gone"}]
    BY <1>4 DEF Crash
  <2>3. /\ node' \in [Nodes -> {"down", "probing", "up"}] /\ todo' \in [Nodes -> SUBSET Nodes]
        /\ isAdmin' \in [Nodes -> BOOLEAN] /\ crashes' \in 0..MaxCrashes
    BY <1>4 DEF Crash
  <2> QED
    BY <1>4, <2>1, <2>2, <2>3 DEF Crash, Stages
<1>5. ASSUME NEW x \in Xfers, Request(x) PROVE TypeOK'
  BY <1>5 DEF Request
<1>6. ASSUME NEW x \in Xfers, CheckAdmin(x) PROVE TypeOK'
  BY <1>6 DEF CheckAdmin
<1>7. ASSUME NEW x \in Xfers, GetFenceToken(x) PROVE TypeOK'
  <2>1. src[x] \in Nodes
    BY <1>7
  <2>2. cur' \in [Xfers -> Nat]
    <3>1. fence[src[x]] \in Nat
      BY <2>1
    <3> QED
      BY <1>7, <3>1 DEF GetFenceToken
  <2> QED
    BY <1>7, <2>2 DEF GetFenceToken
<1>8. ASSUME NEW x \in Xfers, WriteFence(x) PROVE TypeOK'
  BY <1>8 DEF WriteFence
<1>9. ASSUME NEW x \in Xfers, Promote(x) \/ PromoteLost(x) PROVE TypeOK'
  BY <1>9 DEF Promote, PromoteLost
<1>10. ASSUME NEW x \in Xfers, ReplyLost(x) \/ PromoteReply(x) PROVE TypeOK'
  BY <1>10 DEF ReplyLost, PromoteReply
<1>11. ASSUME NEW x \in Xfers, Rollback(x) PROVE TypeOK'
  BY <1>11 DEF Rollback
<1>12. ASSUME NEW x \in Xfers, StepDown(x) PROVE TypeOK'
  BY <1>12 DEF StepDown
<1>13. ASSUME NEW x \in Xfers, AcceptWrite(x) PROVE TypeOK'
  BY <1>13 DEF AcceptWrite
<1>14. ASSUME NEW x \in Xfers, AcceptSet(x) PROVE TypeOK'
  BY <1>14 DEF AcceptSet
<1>15. ASSUME UNCHANGED vars PROVE TypeOK'
  BY <1>15 DEF vars
<1> QED
  BY <1>1, <1>2, <1>3, <1>4, <1>5, <1>6, <1>7, <1>8, <1>9, <1>10, <1>11, <1>12, <1>13,
     <1>14, <1>15 DEF Next, Boot, Source, Target, Idle

(***************************************************************************)
(* Every node, transfer and request is in one of the states of the code,   *)
(* and every answer is a status that transferAdmin writes.                 *)
(***************************************************************************)
THEOREM RoleTypeCorrect == Spec => []TypeOK
<1> QED
  BY InitTyped, TypeStep, PTL DEF Spec

-----------------------------------------------------------------------------
(* The election. *)

LEMMA ElectionStep ==
    ASSUME TypeOK, RunningAdmins, OnlyLeast, [Next]_vars, Xfers = {}, KnowSmaller
    PROVE  RunningAdmins' /\ OnlyLeast'
<1> USE DEF TypeOK, SetAdmin, RunningAdmins, OnlyLeast
<1>1. ASSUME NEW n \in Nodes, Start(n) PROVE RunningAdmins' /\ OnlyLeast'
  BY <1>1 DEF Start
<1>2. ASSUME NEW n \in Nodes, Probe(n) PROVE RunningAdmins' /\ OnlyLeast'
  <2>1. \/ node' = [node EXCEPT ![n] = "up"] /\ isAdmin' = [isAdmin EXCEPT ![n] = FALSE]
        \/ node' = node /\ isAdmin' = isAdmin
    BY <1>2 DEF Probe
  <2> QED
    BY <1>2, <2>1
<1>3. ASSUME NEW n \in Nodes, Elect(n) PROVE RunningAdmins' /\ OnlyLeast'
  <2> DEFINE P == Peers[n] \cup {n}
             b == n = Least(P)
  <2>1. /\ node' = [node EXCEPT ![n] = "up"]
        /\ isAdmin' = [isAdmin EXCEPT ![n] = b]
    BY <1>3 DEF Elect
  <2>2. P \subseteq Nodes /\ P # {}
    BY <1>3, PeersTyped
  <2>3. b => \A p \in P : n <= p
    <3> HIDE DEF P
    <3> QED
      BY <2>2, LeastIsLeast
  <2>4. b \in BOOLEAN
    OBVIOUS
  <2> HIDE DEF b
  <2>5. \A m \in Nodes \ {n} : isAdmin'[m] = isAdmin[m] /\ node'[m] = node[m]
    BY <1>3, <2>1
  <2>6. node'[n] = "up" /\ isAdmin'[n] = b
    BY <1>3, <2>1
  <2>7. ASSUME b, NEW m \in Nodes PROVE n <= m
    <3>1. m \in Nat /\ n \in Nat
      BY <1>3, RoleAssumption
    <3>2. CASE m < n
      BY <1>3, <2>3, <2>7, <3>2 DEF KnowSmaller
    <3> QED
      BY <3>1, <3>2
  <2> QED
    BY <2>5, <2>6, <2>7
<1>4. ASSUME NEW n \in Nodes, Crash(n) PROVE RunningAdmins' /\ OnlyLeast'
  BY <1>4 DEF Crash
<1>5. ASSUME UNCHANGED vars PROVE RunningAdmins' /\ OnlyLeast'
  BY <1>5 DEF vars
<1> QED
  BY <1>1, <1>2, <1>3, <1>4, <1>5 DEF Next, Boot, Idle

(***************************************************************************)
(* BootstrapState elects at most one admin, however many daemons start,    *)
(* probe each other and crash in whatever order, if every node has the     *)
(* nodes named before it in its peer list and nobody transfers the role.   *)
(***************************************************************************)
THEOREM ElectionSafe == Xfers = {} /\ KnowSmaller => (Spec => []AtMostOneAdmin)
<1> SUFFICES ASSUME Xfers = {}, KnowSmaller PROVE Spec => []AtMostOneAdmin
  OBVIOUS
<1>1. Init => RunningAdmins /\ OnlyLeast
  BY DEF Init, RunningAdmins, OnlyLeast
<1>2. TypeOK /\ RunningAdmins /\ OnlyLeast /\ [Next]_vars => RunningAdmins' /\ OnlyLeast'
  BY ElectionStep
<1>3. TypeOK /\ OnlyLeast => AtMostOneAdmin
  <2> SUFFICES ASSUME TypeOK, OnlyLeast PROVE AtMostOneAdmin
    OBVIOUS
  <2>1. ASSUME NEW m \in Admins, NEW n \in Admins PROVE m = n
    <3>1. m \in Nat /\ n \in Nat /\ m <= n /\ n <= m
      BY RoleAssumption DEF Admins, OnlyLeast
    <3> QED
      BY <3>1
  <2>2. Admins = {} \/ \E n : Admins = {n}
    BY <2>1
  <2>3. Cardinality(Admins) \in {0, 1}
    BY <2>2, FS_EmptySet, FS_Singleton
  <2> QED
    BY <2>3 DEF AtMostOneAdmin
<1> QED
  BY <1>1, <1>2, <1>3, RoleTypeCorrect, PTL DEF Spec

-----------------------------------------------------------------------------
(* The hand-over. *)

LEMMA NoneActive ==
    ASSUME OneAtATime, Cardinality(Active) < MaxActive
    PROVE  Active = {}
<1>1. Active \in SUBSET Xfers
  BY DEF Active
<1>2. IsFiniteSet(Active)
  BY <1>1, RoleAssumption, FS_Subset
<1>3. Cardinality(Active) \in Nat
  BY <1>2, FS_CardinalityType
<1>4. Cardinality(Active) = 0
  BY <1>3, RoleAssumption DEF OneAtATime
<1> QED
  BY <1>2, <1>4, FS_EmptySet

(* What HandoverInv says of one transfer. *)
XferInv(x) == src[x] # tgt[x] /\ PromoAtStage(x) /\ TargetHolds(x)

(* No transfer but x moves. *)
OnlyMoves(x) ==
    /\ \A y \in Xfers \ {x} : pc'[y] = pc[y] /\ status'[y] = status[y] /\ promo'[y] = promo[y]
    /\ src' = src /\ tgt' = tgt /\ node' = node /\ crashes' = crashes

(* A step of transfer x, which was under way and takes the role from no    *)
(* node but its source.                                                    *)
LEMMA XferStep ==
    ASSUME TypeOK, HandoverInv, NEW x \in Xfers, OnlyMoves(x), XferInv(x)', RunningAdmins',
           \/ x \in Active /\ \A n \in Nodes \ {src[x]} : isAdmin[n] => isAdmin'[n]
           \/ Active = {}
           \/ (pc' = pc /\ \A n \in Nodes : isAdmin[n] => isAdmin'[n])
    PROVE  HandoverInv'
<1>1. ASSUME NEW y \in Xfers \ {x} PROVE XferInv(y)'
  <2>1. XferInv(y)
    BY DEF HandoverInv, XferInv
  <2>2. pc'[y] = pc[y] /\ status'[y] = status[y] /\ promo'[y] = promo[y]
    BY DEF OnlyMoves
  <2>3. PromoAtStage(y)'
    BY <2>1, <2>2 DEF XferInv, PromoAtStage
  <2>4. TargetHolds(y)'
    <3>1. tgt[y] \in Nodes
      BY DEF TypeOK
    <3>2. pc[y] \in {"wait", "stepdown"} => y \in Active
      BY DEF Active
    <3>3. y \in Active /\ isAdmin[tgt[y]] => isAdmin'[tgt[y]]
      BY <3>1 DEF HandoverInv
    <3> QED
      BY <2>1, <2>2, <3>2, <3>3 DEF XferInv, TargetHolds, OnlyMoves
  <2> QED
    BY <2>1, <2>3, <2>4 DEF XferInv, OnlyMoves
<1>2. \A y \in Xfers : XferInv(y)'
  BY <1>1
<1>3. ASSUME NEW y \in Active', NEW z \in Active' PROVE y = z
  <2>1. \A w \in Xfers \ {x} : w \in Active' => w \in Active
    BY DEF Active, OnlyMoves
  <2>2. pc' = pc => Active' = Active
    BY DEF Active
  <2>3. y \in Xfers /\ z \in Xfers
    BY DEF Active
  <2> QED
    BY <2>1, <2>2, <2>3 DEF HandoverInv
<1> QED
  BY <1>2, <1>3 DEF HandoverInv, XferInv, OnlyMoves

LEMMA HandoverInit ==
    ASSUME Init, OneAtATime
    PROVE  HandoverInv
<1>1. \A x \in Xfers : PromoAtStage(x) /\ TargetHolds(x)
  BY DEF Init, PromoAtStage, TargetHolds
<1>2. \A x \in Xfers : src[x] # tgt[x]
  BY DEF Init, OneAtATime
<1>3. Active = {}
  BY DEF Init, Active
<1>4. crashes = 0 /\ RunningAdmins
  BY DEF Init, RunningAdmins
<1> QED
  BY <1>1, <1>2, <1>3, <1>4 DEF HandoverInv

(* A booting daemon is not an admin and no transfer has to do with it yet. *)
LEMMA HandoverBoot ==
    ASSUME TypeOK, HandoverInv, NEW n \in Nodes, Boot(n)
    PROVE  HandoverInv'
<1>1. /\ node[n] # "up"
      /\ \A m \in Nodes \ {n} : node'[m] = node[m] /\ isAdmin'[m] = isAdmin[m]
      /\ isAdmin'[n] => node'[n] = "up"
      /\ UNCHANGED <<xferVars, crashes>>
  <2>0. ~isAdmin[n] \/ node[n] = "up"
    BY DEF HandoverInv, RunningAdmins
  <2>1. CASE Start(n)
    BY <2>0, <2>1 DEF Start, TypeOK
  <2>2. CASE Probe(n)
    BY <2>0, <2>2 DEF Probe, SetAdmin, TypeOK
  <2>3. CASE Elect(n)
    BY <2>0, <2>3 DEF Elect, SetAdmin, TypeOK
  <2> QED
    BY <2>1, <2>2, <2>3 DEF Boot
<1>2. RunningAdmins'
  BY <1>1 DEF HandoverInv, RunningAdmins
<1>3. Active' = Active
  BY <1>1 DEF Active, xferVars
<1>4. ASSUME NEW x \in Xfers PROVE XferInv(x)'
  <2>1. XferInv(x) /\ tgt[x] \in Nodes
    BY DEF HandoverInv, XferInv, TypeOK
  <2>2. PromoAtStage(x)'
    BY <1>1, <2>1 DEF XferInv, PromoAtStage, xferVars
  <2>3. TargetHolds(x)'
    <3>1. CASE tgt[x] = n
      BY <1>1, <2>1, <3>1 DEF XferInv, TargetHolds, HandoverInv, RunningAdmins, xferVars
    <3>2. CASE tgt[x] # n
      BY <1>1, <2>1, <3>2 DEF XferInv, TargetHolds, xferVars
    <3> QED
      BY <3>1, <3>2
  <2> QED
    BY <1>1, <2>1, <2>2, <2>3 DEF XferInv, xferVars
<1> QED
  BY <1>1, <1>2, <1>3, <1>4 DEF HandoverInv, XferInv

(* A step of a transfer that leaves the roles alone and moves x between    *)
(* the stages, with what PromoAtStage asks of the stage it reaches.        *)
LEMMA StageStep ==
    ASSUME TypeOK, HandoverInv, NEW x \in Xfers, OnlyMoves(x), isAdmin' = isAdmin,
           x \in Active \/ Active = {} \/ pc' = pc,
           PromoAtStage(x)',
           promo'[x] \in {"written", "ok"} => promo[x] \in {"written", "ok"} \/ node[tgt[x]] = "up",
           pc'[x] \in {"wait", "stepdown"} /\ promo'[x] = "ok" => pc[x] = "wait" /\ promo[x] = "ok"
    PROVE  HandoverInv'
<1>1. XferInv(x)
  BY DEF HandoverInv, XferInv
<1>2. TargetHolds(x)'
  BY <1>1 DEF XferInv, TargetHolds, OnlyMoves
<1>3. XferInv(x)'
  BY <1>1, <1>2 DEF XferInv, OnlyMoves
<1>4. RunningAdmins'
  BY DEF HandoverInv, RunningAdmins, OnlyMoves
<1> QED
  BY <1>3, <1>4, XferStep

LEMMA HandoverXfer ==
    ASSUME TypeOK, HandoverInv, OneAtATime, NEW x \in Xfers, Request(x) \/ Source(x) \/ Target(x)
    PROVE  HandoverInv'
<1>0. PromoAtStage(x) /\ TargetHolds(x) /\ src[x] # tgt[x] /\ src[x] \in Nodes /\ tgt[x] \in Nodes
  BY DEF HandoverInv, TypeOK
<1> USE DEF TypeOK, Goto, Answer, nodeVars, OnlyMoves, PromoAtStage
<1>1. CASE Request(x)
  <2>1. Active = {}
    BY <1>1, NoneActive DEF Request
  <2> QED
    BY <1>0, <1>1, <2>1, StageStep DEF Request
<1>2. CASE CheckAdmin(x)
  BY <1>0, <1>2, StageStep DEF CheckAdmin, Active
<1>3. CASE GetFenceToken(x)
  BY <1>0, <1>3, StageStep DEF GetFenceToken, Active
<1>4. CASE WriteFence(x)
  BY <1>0, <1>4, StageStep DEF WriteFence, Active
<1>5. CASE Promote(x)
  BY <1>0, <1>5, StageStep DEF Promote, Active
<1>6. CASE PromoteLost(x)
  BY <1>0, <1>6, StageStep DEF PromoteLost, Active
<1>7. CASE ReplyLost(x)
  BY <1>0, <1>7, StageStep DEF ReplyLost, Active
<1>8. CASE PromoteReply(x)
  BY <1>0, <1>8, StageStep DEF PromoteReply, Active
<1>9. CASE Rollback(x)
  BY <1>0, <1>9, StageStep DEF Rollback, Active
<1>10. CASE AcceptWrite(x)
  BY <1>0, <1>10, StageStep DEF AcceptWrite
<1>11. CASE StepDown(x)
  <2>1. OnlyMoves(x) /\ x \in Active
    BY <1>11 DEF StepDown, Active
  <2>2. \A n \in Nodes \ {src[x]} : isAdmin'[n] = isAdmin[n]
    BY <1>0, <1>11 DEF StepDown, SetAdmin
  <2>3. ~isAdmin'[src[x]]
    BY <1>0, <1>11 DEF StepDown, SetAdmin
  <2>4. RunningAdmins'
    BY <2>1, <2>2, <2>3 DEF HandoverInv, RunningAdmins
  <2>5. XferInv(x)'
    BY <1>0, <1>11, <2>2 DEF StepDown, XferInv, TargetHolds
  <2> QED
    BY <2>1, <2>2, <2>4, <2>5, XferStep
<1>12. CASE AcceptSet(x)
  <2>1. OnlyMoves(x) /\ pc' = pc
    BY <1>12 DEF AcceptSet
  <2>2. /\ \A n \in Nodes \ {tgt[x]} : isAdmin'[n] = isAdmin[n]
        /\ isAdmin'[tgt[x]]
    BY <1>0, <1>12 DEF AcceptSet, SetAdmin
  <2>3. node[tgt[x]] = "up"
    BY <1>0, <1>12 DEF AcceptSet, TargetHolds
  <2>4. RunningAdmins'
    <3>1. \A n \in Nodes \ {tgt[x]} : isAdmin'[n] => node'[n] = "up"
      BY <2>1, <2>2 DEF HandoverInv, RunningAdmins
    <3>2. node'[tgt[x]] = "up"
      BY <2>1, <2>3
    <3> QED
      BY <3>1, <3>2 DEF RunningAdmins
  <2>5. XferInv(x)'
    BY <1>0, <1>12, <2>2, <2>3 DEF AcceptSet, XferInv, TargetHolds
  <2>6. \A n \in Nodes : isAdmin[n] => isAdmin'[n]
    BY <2>2
  <2> QED
    BY <2>1, <2>4, <2>5, <2>6, XferStep
<1> QED
  BY <1>1, <1>2, <1>3, <1>4, <1>5, <1>6, <1>7, <1>8, <1>9, <1>10, <1>11, <1>12
     DEF Source, Target

LEMMA HandoverNext ==
    ASSUME TypeOK, HandoverInv, OneAtATime, [Next]_vars
    PROVE  HandoverInv'
<1>1. \A n \in Nodes : ~Crash(n)
  BY DEF HandoverInv, OneAtATime, Crash
<1>2. ASSUME UNCHANGED vars PROVE HandoverInv'
  BY <1>2 DEF vars, HandoverInv, RunningAdmins, Active, PromoAtStage, TargetHolds
<1> QED
  BY <1>1, <1>2, HandoverBoot, HandoverXfer DEF Next, Idle

(***************************************************************************)
(* The invariant of the hand-over: the stages of transferAdmin and of      *)
(* acceptPromotion fit together, one transfer is under way at a time, and  *)
(* the target has the role when the source is about to give it up.         *)
(***************************************************************************)
THEOREM HandoverInvariant == OneAtATime => (Spec => []HandoverInv)
<1> SUFFICES ASSUME OneAtATime PROVE Spec => []HandoverInv
  OBVIOUS
<1>1. Init => HandoverInv
  BY HandoverInit
<1>2. TypeOK /\ HandoverInv /\ [Next]_vars => HandoverInv'
  BY HandoverNext
<1> QED
  BY <1>1, <1>2, RoleTypeCorrect, PTL DEF Spec

(* Some admin is left after every step. *)
LEMMA AdminLeft ==
    ASSUME TypeOK, HandoverInv, OneAtATime, [Next]_vars, NEW a \in Nodes, isAdmin[a]
    PROVE  \E n \in Nodes : isAdmin'[n]
<1>0. node[a] = "up"
  BY DEF HandoverInv, RunningAdmins
<1>1. ASSUME NEW n \in Nodes, Boot(n) PROVE isAdmin'[a]
  <2>1. a # n
    BY <1>0, <1>1 DEF Boot, Start, Probe, Elect
  <2>2. CASE Start(n)
    BY <2>2 DEF Start
  <2>3. CASE Probe(n)
    BY <2>1, <2>3 DEF Probe, SetAdmin, TypeOK
  <2>4. CASE Elect(n)
    BY <2>1, <2>4 DEF Elect, SetAdmin, TypeOK
  <2> QED
    BY <1>1, <2>2, <2>3, <2>4 DEF Boot
<1>2. ASSUME NEW n \in Nodes, Crash(n) PROVE FALSE
  BY <1>2 DEF HandoverInv, OneAtATime, Crash
<1>3. ASSUME NEW x \in Xfers, StepDown(x) PROVE isAdmin'[tgt[x]] /\ tgt[x] \in Nodes
  <2>1. isAdmin[tgt[x]] /\ src[x] # tgt[x] /\ tgt[x] \in Nodes
    BY <1>3 DEF StepDown, HandoverInv, PromoAtStage, TargetHolds, TypeOK
  <2> QED
    BY <1>3, <2>1 DEF StepDown, SetAdmin, TypeOK
<1>4. ASSUME NEW x \in Xfers, AcceptSet(x) PROVE isAdmin'[a]
  BY <1>4 DEF AcceptSet, SetAdmin, TypeOK
<1>5. ASSUME NEW x \in Xfers, Request(x) \/ Source(x) \/ Target(x), ~StepDown(x), ~AcceptSet(x)
      PROVE  isAdmin' = isAdmin
  BY <1>5 DEF Request, Source, Target, CheckAdmin, GetFenceToken, WriteFence, Promote,
              PromoteLost, ReplyLost, PromoteReply, Rollback, AcceptWrite
<1>6. ASSUME UNCHANGED vars PROVE isAdmin' = isAdmin
  BY <1>6 DEF vars
<1>7. ASSUME NEW x \in Xfers, Request(x) \/ Source(x) \/ Target(x)
      PROVE  \E n \in Nodes : isAdmin'[n]
  BY <1>3, <1>4, <1>5, <1>7
<1> QED
  BY <1>1, <1>2, <1>6, <1>7 DEF Next, Idle

(***************************************************************************)
(* A hand-over never leaves the fleet without an admin (transferAdmin      *)
(* waits for the target's answer before SetAdmin(false)), for any number   *)
(* of nodes and of successive transfers, lost answers included.            *)
(***************************************************************************)
THEOREM NoGapHolds == OneAtATime => (Spec => NoGap)
<1> SUFFICES ASSUME OneAtATime PROVE Spec => NoGap
  OBVIOUS
<1>1. TypeOK /\ HandoverInv /\ HandoverInv' /\ [Next]_vars => [Admins # {} => Admins' # {}]_vars
  <2> SUFFICES ASSUME TypeOK, HandoverInv, HandoverInv', [Next]_vars, NEW a \in Admins
               PROVE  Admins' # {}
    OBVIOUS
  <2>1. PICK n \in Nodes : isAdmin'[n]
    BY AdminLeft DEF Admins
  <2>2. node'[n] = "up"
    BY <2>1 DEF HandoverInv, RunningAdmins
  <2> QED
    BY <2>1, <2>2 DEF Admins
<1> QED
  BY <1>1, RoleTypeCorrect, HandoverInvariant, PTL DEF Spec, NoGap

-----------------------------------------------------------------------------
(* The role: where it begins, and that it is one. *)

First == Least(Nodes)

LEMMA FirstIsLeast == First \in Nodes /\ \A m \in Nodes : First <= m
  BY LeastIsLeast, RoleAssumption DEF First

(* A daemon that boots takes the role only if it is the first of all. *)
LEMMA BootRole ==
    ASSUME TypeOK, HandoverInv, KnowSmaller, NEW n \in Nodes, Boot(n)
    PROVE  /\ node[n] # "up"
           /\ \A m \in Nodes \ {n} : node'[m] = node[m] /\ isAdmin'[m] = isAdmin[m]
           /\ n # First => ~isAdmin'[n]
           /\ n = First /\ (\A m \in Nodes : ~isAdmin[m]) => (isAdmin'[n] <=> node'[n] = "up")
           /\ UNCHANGED <<fence, xferVars, crashes>>
<1>0. node[n] # "up" /\ ~isAdmin[n]
  BY DEF Boot, Start, Probe, Elect, HandoverInv, RunningAdmins
<1>1. CASE Start(n)
  BY <1>0, <1>1 DEF Start, TypeOK
<1>2. CASE Probe(n)
  <2> DEFINE p == Least(todo[n])
  <2>1. p \in Nodes
    <3>1. todo[n] \subseteq Nodes /\ todo[n] # {}
      BY <1>2 DEF Probe, TypeOK
    <3> QED
      BY <3>1, LeastIsLeast
  <2>2. CASE isAdmin[p]
    BY <1>0, <1>2, <2>1, <2>2 DEF Probe, SetAdmin, TypeOK
  <2>3. CASE ~isAdmin[p]
    BY <1>0, <1>2, <2>3 DEF Probe, IsPeerAdmin
  <2> QED
    BY <2>2, <2>3
<1>3. CASE Elect(n)
  <2> DEFINE P == Peers[n] \cup {n}
             b == n = Least(P)
  <2>1. P \subseteq Nodes /\ P # {}
    BY PeersTyped
  <2>2. \A m \in P : m \in Nat
    BY <2>1, RoleAssumption
  <2>3. Least(P) \in P /\ \A m \in P : Least(P) <= m
    <3> HIDE DEF P
    <3> QED
      BY <2>1, LeastIsLeast
  <2>4. n = First => b
    <3>1. n = First => n <= Least(P)
      BY <2>1, <2>3, FirstIsLeast
    <3>2. Least(P) <= n
      BY <2>3
    <3>3. n \in Nat /\ Least(P) \in Nat
      BY <2>2, <2>3
    <3> QED
      BY <3>1, <3>2, <3>3
  <2>5. n # First => ~b
    <3> SUFFICES ASSUME n # First PROVE Least(P) # n
      OBVIOUS
    <3>1. First \in Nat /\ n \in Nat /\ First \in Nodes /\ First <= n
      BY FirstIsLeast, RoleAssumption
    <3>2. First < n
      BY <3>1
    <3>3. First \in P
      BY <3>1, <3>2 DEF KnowSmaller
    <3> HIDE DEF P
    <3> QED
      BY <2>2, <2>3, <3>1, <3>2, <3>3
  <2>6. b \in BOOLEAN
    OBVIOUS
  <2>7. node' = [node EXCEPT ![n] = "up"] /\ isAdmin' = [isAdmin EXCEPT ![n] = b]
    BY <1>3 DEF Elect, SetAdmin
  <2> HIDE DEF b
  <2>8. /\ \A m \in Nodes \ {n} : node'[m] = node[m] /\ isAdmin'[m] = isAdmin[m]
        /\ node'[n] = "up" /\ isAdmin'[n] = b
    BY <2>6, <2>7 DEF TypeOK
  <2> QED
    BY <1>0, <1>3, <2>4, <2>5, <2>8 DEF Elect
<1> QED
  BY <1>1, <1>2, <1>3 DEF Boot

LEMMA RoleInit ==
    ASSUME Init
    PROVE  RoleInv
<1>1. node[First] # "up"
  BY FirstIsLeast DEF Init
<1>2. /\ \A n \in Nodes : ~isAdmin[n] /\ fence[n] = 0
      /\ \A x \in Xfers : pc[x] = "idle" /\ promo[x] = "none"
  BY DEF Init
<1>3. RoleBegins
  BY <1>1, <1>2 DEF RoleBegins, First
<1>4. UnforkedInv
  BY <1>2 DEF UnforkedInv, TwoShareHandover, AdminFenceTop, SourceHolds, FenceAtStage
<1> QED
  BY <1>3, <1>4 DEF RoleInv

LEMMA RoleBoot ==
    ASSUME TypeOK, HandoverInv, RoleInv, KnowSmaller, NEW n \in Nodes, Boot(n)
    PROVE  RoleInv'
<1>1. /\ node[n] # "up"
      /\ \A m \in Nodes \ {n} : node'[m] = node[m] /\ isAdmin'[m] = isAdmin[m]
      /\ n # First => ~isAdmin'[n]
      /\ n = First /\ (\A m \in Nodes : ~isAdmin[m]) => (isAdmin'[n] <=> node'[n] = "up")
      /\ UNCHANGED <<fence, xferVars, crashes>>
  BY BootRole
<1>2. ~isAdmin[n]
  BY <1>1 DEF HandoverInv, RunningAdmins
<1>3. First \in Nodes
  BY FirstIsLeast
<1>4. CASE node[First] = "up"
  <2>1. n # First
    BY <1>1, <1>4
  <2>2. \A m \in Nodes : isAdmin'[m] <=> isAdmin[m]
    BY <1>1, <1>2, <2>1
  <2>3. RoleBegins'
    BY <1>1, <1>3, <1>4, <2>1, <2>2 DEF RoleInv, RoleBegins, First
  <2>4. (\A x \in Xfers : ~Forked(x)') => UnforkedInv
    BY <1>1 DEF RoleInv, Forked, xferVars
  <2>5. UnforkedInv => UnforkedInv'
    <3> SUFFICES ASSUME UnforkedInv PROVE UnforkedInv'
      OBVIOUS
    <3>1. TwoShareHandover'
      BY <1>1, <2>2 DEF UnforkedInv, TwoShareHandover, xferVars
    <3>2. AdminFenceTop'
      BY <1>1, <2>2 DEF UnforkedInv, AdminFenceTop
    <3>3. ASSUME NEW x \in Xfers PROVE SourceHolds(x)' /\ FenceAtStage(x)'
      <4>1. SourceHolds(x) /\ FenceAtStage(x) /\ src[x] \in Nodes
        BY DEF UnforkedInv, TypeOK
      <4> QED
        BY <1>1, <2>2, <4>1 DEF SourceHolds, FenceAtStage, xferVars
    <3> QED
      BY <3>1, <3>2, <3>3 DEF UnforkedInv
  <2> QED
    BY <2>3, <2>4, <2>5 DEF RoleInv
<1>5. CASE node[First] # "up"
  <2>1. /\ \A m \in Nodes : ~isAdmin[m] /\ fence[m] = 0
        /\ \A x \in Xfers : pc[x] \in {"idle", "check", "done"} /\ promo[x] = "none"
    BY <1>5 DEF RoleInv, RoleBegins, First
  <2>2. \A m \in Nodes : isAdmin'[m] <=> m = First /\ node'[First] = "up"
    BY <1>1, <1>3, <1>5, <2>1
  <2>3. RoleBegins'
    BY <1>1, <1>3, <2>1, <2>2 DEF RoleBegins, First, xferVars
  <2>4. UnforkedInv'
    <3>1. TwoShareHandover'
      BY <2>2 DEF TwoShareHandover
    <3>2. AdminFenceTop'
      BY <1>1, <2>1 DEF AdminFenceTop
    <3>3. \A x \in Xfers : SourceHolds(x)' /\ FenceAtStage(x)'
      BY <1>1, <2>1 DEF SourceHolds, FenceAtStage, xferVars
    <3> QED
      BY <3>1, <3>2, <3>3 DEF UnforkedInv
  <2> QED
    BY <2>3, <2>4 DEF RoleInv
<1> QED
  BY <1>4, <1>5

(* While x is past its check and the target has not taken the role, the    *)
(* source of x is the only admin.                                          *)
LEMMA OnlySource ==
    ASSUME TypeOK, HandoverInv, UnforkedInv, NEW x \in Xfers,
           pc[x] \in {"read", "write", "promote", "wait", "rollback", "stepdown"},
           ~(pc[x] \in {"wait", "stepdown"} /\ promo[x] = "ok")
    PROVE  /\ isAdmin[src[x]] /\ src[x] \in Nodes
           /\ \A m \in Nodes : isAdmin[m] => m = src[x]
<1>1. isAdmin[src[x]] /\ src[x] \in Nodes
  BY DEF UnforkedInv, SourceHolds, TypeOK
<1>2. ASSUME NEW m \in Nodes, isAdmin[m], m # src[x] PROVE FALSE
  <2>1. PICK y \in Xfers : pc[y] \in {"wait", "stepdown"} /\ promo[y] = "ok"
    BY <1>1, <1>2 DEF UnforkedInv, TwoShareHandover
  <2>2. x \in Active /\ y \in Active
    BY <2>1 DEF Active
  <2> QED
    BY <2>1, <2>2 DEF HandoverInv
<1> QED
  BY <1>1, <1>2

(* The transfers that are not under way ask for nothing. *)
LEMMA UnforkedStep ==
    ASSUME TypeOK, HandoverInv, NEW x \in Xfers, OnlyMoves(x),
           x \in Active \/ Active = {},
           TwoShareHandover', AdminFenceTop', SourceHolds(x)', FenceAtStage(x)'
    PROVE  UnforkedInv'
<1>1. ASSUME NEW y \in Xfers \ {x} PROVE SourceHolds(y)' /\ FenceAtStage(y)'
  <2>1. pc[y] \in {"idle", "done", "lost"}
    BY DEF HandoverInv, Active
  <2>2. pc'[y] = pc[y]
    BY DEF OnlyMoves
  <2> QED
    BY <2>1, <2>2 DEF SourceHolds, FenceAtStage
<1> QED
  BY <1>1 DEF UnforkedInv

(* A promotion that has forked the role stays forked. *)
LEMMA ForkedStays ==
    ASSUME TypeOK, HandoverInv, NEW x \in Xfers, Request(x) \/ Source(x) \/ Target(x),
           NEW y \in Xfers, Forked(y)
    PROVE  Forked(y)'
<1>0. PromoAtStage(y)
  BY DEF HandoverInv
<1> USE DEF TypeOK, Goto, Answer, Forked, PromoAtStage
<1>1. CASE Request(x)
  BY <1>0, <1>1 DEF Request
<1>2. CASE CheckAdmin(x) \/ GetFenceToken(x) \/ WriteFence(x) \/ Promote(x)
  BY <1>0, <1>2 DEF CheckAdmin, GetFenceToken, WriteFence, Promote
<1>3. CASE PromoteLost(x) \/ ReplyLost(x) \/ PromoteReply(x)
  BY <1>0, <1>3 DEF PromoteLost, ReplyLost, PromoteReply
<1>4. CASE Rollback(x)
  <2>1. /\ status'[x] = 409 /\ promo' = promo
        /\ y # x => status'[y] = status[y] /\ pc'[y] = pc[y]
    BY <1>4 DEF Rollback
  <2> QED
    BY <2>1
<1>5. CASE StepDown(x)
  <2>1. /\ promo' = promo /\ y # x
        /\ y # x => status'[y] = status[y] /\ pc'[y] = pc[y]
    BY <1>0, <1>5 DEF StepDown
  <2> QED
    BY <2>1
<1>6. CASE AcceptWrite(x)
  <2>1. pc' = pc /\ status' = status /\ y # x
    BY <1>6 DEF AcceptWrite
  <2>2. promo'[y] = promo[y]
    BY <1>6, <2>1 DEF AcceptWrite
  <2> QED
    BY <2>1, <2>2
<1>7. CASE AcceptSet(x)
  <2>1. pc' = pc /\ status' = status /\ promo' = [promo EXCEPT ![x] = "ok"]
    BY <1>7 DEF AcceptSet
  <2>2. promo'[y] \in {promo[y], "ok"}
    BY <2>1
  <2> QED
    BY <2>1, <2>2
<1> QED
  BY <1>1, <1>2, <1>3, <1>4, <1>5, <1>6, <1>7 DEF Source, Target

LEMMA RoleBeginsXfer ==
    ASSUME TypeOK, HandoverInv, RoleInv, OneAtATime, [Next]_vars,
           NEW x \in Xfers, Request(x) \/ Source(x) \/ Target(x)
    PROVE  RoleBegins'
<1>0. node' = node
  BY DEF Request, Source, Target, CheckAdmin, GetFenceToken, WriteFence, Promote, PromoteLost,
         ReplyLost, PromoteReply, Rollback, StepDown, AcceptWrite, AcceptSet, nodeVars
<1>1. CASE node[First] = "up"
  <2>1. PICK a \in Nodes : isAdmin[a]
    BY <1>1 DEF RoleInv, RoleBegins, First
  <2>2. \E n \in Nodes : isAdmin'[n]
    BY <2>1, AdminLeft
  <2> QED
    BY <1>0, <1>1, <2>2 DEF RoleBegins, First
<1>2. CASE node[First] # "up"
  <2>1. /\ \A m \in Nodes : ~isAdmin[m] /\ fence[m] = 0
        /\ \A y \in Xfers : pc[y] \in {"idle", "check", "done"} /\ promo[y] = "none"
        /\ src[x] \in Nodes
    BY <1>2 DEF RoleInv, RoleBegins, First, TypeOK
  <2>2. Request(x) \/ CheckAdmin(x)
    BY <2>1 DEF Source, Target, GetFenceToken, WriteFence, Promote, PromoteLost,
                ReplyLost, PromoteReply, Rollback, StepDown, AcceptWrite, AcceptSet
  <2>3. /\ isAdmin' = isAdmin /\ fence' = fence /\ promo' = promo
        /\ pc' = [pc EXCEPT ![x] = "check"] \/ pc' = [pc EXCEPT ![x] = "done"]
    BY <2>1, <2>2 DEF Request, CheckAdmin, Goto, Answer
  <2>4. \A y \in Xfers : pc'[y] \in {"idle", "check", "done"}
    BY <2>1, <2>3 DEF TypeOK
  <2> QED
    BY <1>0, <1>2, <2>1, <2>3, <2>4 DEF RoleBegins, First
<1> QED
  BY <1>1, <1>2

(* Reading and raising the fence. *)
LEMMA UnforkedFence ==
    ASSUME TypeOK, HandoverInv, OneAtATime, UnforkedInv, NEW x \in Xfers,
           Request(x) \/ CheckAdmin(x) \/ GetFenceToken(x) \/ WriteFence(x) \/ Promote(x)
    PROVE  UnforkedInv'
<1> USE DEF TypeOK, Goto, Answer, nodeVars
<1>0. /\ src[x] \in Nodes /\ cur[x] \in Nat /\ \A n \in Nodes : fence[n] \in Nat
      /\ PromoAtStage(x) /\ SourceHolds(x) /\ FenceAtStage(x)
  BY DEF UnforkedInv, HandoverInv
<1>1. pc[x] \in {"idle", "check", "read", "write", "promote"} /\ isAdmin' = isAdmin /\ src' = src
  BY DEF Request, CheckAdmin, GetFenceToken, WriteFence, Promote
<1>2. x \in Active \/ Active = {}
  BY <1>1, NoneActive DEF Request, CheckAdmin, GetFenceToken, WriteFence, Promote, Active
<1>3. OnlyMoves(x)
  BY DEF Request, CheckAdmin, GetFenceToken, WriteFence, Promote, OnlyMoves
<1>4. TwoShareHandover'
  <2>1. ASSUME NEW y \in Xfers, pc[y] \in {"wait", "stepdown"} PROVE FALSE
    BY <1>1, <1>2, <2>1 DEF HandoverInv, Active
  <2> QED
    BY <1>1, <2>1 DEF UnforkedInv, TwoShareHandover
<1>5. SourceHolds(x)'
  BY <1>0, <1>1 DEF Request, CheckAdmin, GetFenceToken, WriteFence, Promote, SourceHolds
<1>6. CASE Request(x) \/ CheckAdmin(x)
  <2>1. fence' = fence /\ pc'[x] \in {"check", "read", "done"}
    BY <1>6 DEF Request, CheckAdmin
  <2>2. AdminFenceTop'
    BY <1>1, <2>1 DEF UnforkedInv, AdminFenceTop
  <2>3. FenceAtStage(x)'
    BY <2>1 DEF FenceAtStage
  <2> QED
    BY <1>2, <1>3, <1>4, <1>5, <2>2, <2>3, UnforkedStep
<1>7. CASE GetFenceToken(x)
  <2>1. /\ fence' = fence /\ pc'[x] \in {"write", "done"}
        /\ pc'[x] = "write" => cur'[x] = fence[src[x]]
    BY <1>7 DEF GetFenceToken
  <2>2. AdminFenceTop'
    BY <1>1, <2>1 DEF UnforkedInv, AdminFenceTop
  <2>3. FenceAtStage(x)'
    BY <1>1, <2>1 DEF FenceAtStage
  <2> QED
    BY <1>2, <1>3, <1>4, <1>5, <2>2, <2>3, UnforkedStep
<1>8. CASE WriteFence(x)
  <2>1. /\ isAdmin[src[x]]
        /\ \A m \in Nodes : isAdmin[m] => m = src[x]
        /\ fence[src[x]] = cur[x]
    BY <1>0, <1>8, OnlySource DEF WriteFence, FenceAtStage
  <2>2. \A n \in Nodes : fence[n] <= cur[x]
    BY <1>0, <2>1 DEF UnforkedInv, AdminFenceTop
  <2>3. CASE fence' = fence /\ pc'[x] = "done"
    <3>1. AdminFenceTop'
      BY <1>1, <2>3 DEF UnforkedInv, AdminFenceTop
    <3>2. FenceAtStage(x)'
      BY <2>3 DEF FenceAtStage
    <3> QED
      BY <1>2, <1>3, <1>4, <1>5, <3>1, <3>2, UnforkedStep
  <2>4. CASE fence' = [fence EXCEPT ![src[x]] = cur[x] + 1] /\ pc'[x] = "promote"
    <3>1. /\ fence'[src[x]] = cur[x] + 1 /\ cur' = cur
          /\ \A n \in Nodes \ {src[x]} : fence'[n] = fence[n]
      BY <1>0, <1>8, <2>4 DEF WriteFence
    <3>2. \A n \in Nodes : fence'[n] <= fence'[src[x]]
      BY <1>0, <2>2, <3>1
    <3>3. AdminFenceTop'
      BY <1>1, <2>1, <3>2 DEF AdminFenceTop
    <3>4. FenceAtStage(x)'
      BY <1>1, <2>2, <2>4, <3>1 DEF FenceAtStage
    <3> QED
      BY <1>2, <1>3, <1>4, <1>5, <3>3, <3>4, UnforkedStep
  <2> QED
    BY <1>8, <2>3, <2>4 DEF WriteFence, AtomicWrite
<1>9. CASE Promote(x)
  <2>1. /\ fence' = fence /\ cur' = cur /\ pc[x] = "promote" /\ pc'[x] = "wait"
        /\ promo'[x] = "sent" /\ promo[x] = "none"
    BY <1>0, <1>9 DEF Promote, PromoAtStage
  <2>2. AdminFenceTop'
    BY <1>1, <2>1 DEF UnforkedInv, AdminFenceTop
  <2>3. FenceAtStage(x)'
    BY <1>0, <1>1, <2>1 DEF FenceAtStage
  <2> QED
    BY <1>2, <1>3, <1>4, <1>5, <2>2, <2>3, UnforkedStep
<1> QED
  BY <1>6, <1>7, <1>8, <1>9

(* The source learns how the promotion went. *)
LEMMA UnforkedReply ==
    ASSUME TypeOK, HandoverInv, UnforkedInv, NEW x \in Xfers, ~Forked(x)',
           PromoteLost(x) \/ ReplyLost(x) \/ PromoteReply(x)
    PROVE  UnforkedInv'
<1>1. /\ pc[x] = "wait" /\ pc'[x] \in {"rollback", "stepdown"}
      /\ pc'[x] = "stepdown" => promo[x] = "ok" /\ promo'[x] = "ok"
      /\ pc'[x] = "rollback" => promo[x] \notin {"written", "ok"} /\ promo'[x] \notin {"written", "ok"}
      /\ UNCHANGED <<isAdmin, fence, cur, src, tgt>>
  <2>1. CASE PromoteLost(x)
    BY <2>1 DEF PromoteLost, Goto, TypeOK
  <2>2. CASE ReplyLost(x)
    BY <2>2 DEF ReplyLost, Goto, TypeOK, Forked
  <2>3. CASE PromoteReply(x)
    BY <2>3 DEF PromoteReply, Goto, TypeOK
  <2> QED
    BY <2>1, <2>2, <2>3
<1>2. OnlyMoves(x) /\ x \in Active
  BY DEF PromoteLost, ReplyLost, PromoteReply, Goto, nodeVars, TypeOK, OnlyMoves, Active
<1>3. TwoShareHandover'
  <2> SUFFICES ASSUME NEW m \in Nodes, NEW n \in Nodes, isAdmin[m], isAdmin[n], m # n
               PROVE  /\ pc'[x] = "stepdown" /\ promo'[x] = "ok"
                      /\ {m, n} = {src[x], tgt[x]}
    BY <1>1 DEF TwoShareHandover
  <2>1. PICK y \in Xfers : /\ pc[y] \in {"wait", "stepdown"} /\ promo[y] = "ok"
                           /\ {m, n} = {src[y], tgt[y]}
    BY DEF UnforkedInv, TwoShareHandover
  <2>2. y = x
    BY <1>2, <2>1 DEF HandoverInv, Active
  <2> QED
    BY <1>1, <2>1, <2>2
<1>4. AdminFenceTop'
  BY <1>1 DEF UnforkedInv, AdminFenceTop
<1>5. SourceHolds(x)' /\ FenceAtStage(x)'
  <2>1. SourceHolds(x) /\ FenceAtStage(x)
    BY DEF UnforkedInv
  <2> QED
    BY <1>1, <2>1 DEF SourceHolds, FenceAtStage
<1> QED
  BY <1>2, <1>3, <1>4, <1>5, UnforkedStep

(* A failed transfer takes its increment back, or leaves it. *)
LEMMA UnforkedRollback ==
    ASSUME TypeOK, HandoverInv, UnforkedInv, NEW x \in Xfers, ~Forked(x), Rollback(x)
    PROVE  UnforkedInv'
<1>1. /\ pc[x] = "rollback" /\ pc'[x] = "done" /\ isAdmin' = isAdmin
      /\ promo[x] \notin {"written", "ok"}
  BY DEF Rollback, Answer, TypeOK, Forked
<1>2. OnlyMoves(x) /\ x \in Active
  BY DEF Rollback, Answer, nodeVars, TypeOK, OnlyMoves, Active
<1>3. /\ isAdmin[src[x]] /\ src[x] \in Nodes
      /\ \A m \in Nodes : isAdmin[m] => m = src[x]
  BY <1>1, OnlySource
<1>4. /\ fence[src[x]] = cur[x] + 1 /\ cur[x] \in Nat
      /\ \A n \in Nodes \ {src[x]} : fence[n] <= cur[x] /\ fence[n] \in Nat
  BY <1>1 DEF UnforkedInv, FenceAtStage, TypeOK
<1>5. /\ fence'[src[x]] \in {cur[x], cur[x] + 1}
      /\ \A n \in Nodes \ {src[x]} : fence'[n] = fence[n]
  BY <1>3, <1>4 DEF Rollback, AtomicWrite, TypeOK
<1>6. \A n \in Nodes : fence'[n] <= fence'[src[x]]
  BY <1>4, <1>5
<1>7. TwoShareHandover' /\ AdminFenceTop'
  BY <1>1, <1>3, <1>6 DEF TwoShareHandover, AdminFenceTop
<1>8. SourceHolds(x)' /\ FenceAtStage(x)'
  BY <1>1 DEF SourceHolds, FenceAtStage
<1> QED
  BY <1>2, <1>7, <1>8, UnforkedStep

LEMMA UnforkedStepDown ==
    ASSUME TypeOK, HandoverInv, UnforkedInv, NEW x \in Xfers, StepDown(x)
    PROVE  UnforkedInv'
<1>1. pc[x] = "stepdown" /\ pc'[x] = "done" /\ fence' = fence /\ src[x] \in Nodes
  BY DEF StepDown, Answer, TypeOK
<1>2. OnlyMoves(x) /\ x \in Active
  BY DEF StepDown, Answer, nodeVars, TypeOK, OnlyMoves, Active
<1>3. \A n \in Nodes : isAdmin'[n] => isAdmin[n] /\ n # src[x]
  BY <1>1 DEF StepDown, SetAdmin, TypeOK
<1>4. isAdmin[src[x]]
  BY <1>1 DEF UnforkedInv, SourceHolds
<1>5. ASSUME NEW n \in Nodes, isAdmin'[n] PROVE n = tgt[x]
  <2>1. PICK y \in Xfers : /\ pc[y] \in {"wait", "stepdown"}
                           /\ {n, src[x]} = {src[y], tgt[y]}
    BY <1>1, <1>3, <1>4, <1>5 DEF UnforkedInv, TwoShareHandover
  <2>2. y = x
    BY <1>2, <2>1 DEF HandoverInv, Active
  <2> QED
    BY <1>3, <1>5, <2>1, <2>2
<1>6. TwoShareHandover' /\ AdminFenceTop'
  BY <1>1, <1>3, <1>5 DEF UnforkedInv, TwoShareHandover, AdminFenceTop
<1>7. SourceHolds(x)' /\ FenceAtStage(x)'
  BY <1>1 DEF SourceHolds, FenceAtStage
<1> QED
  BY <1>2, <1>6, <1>7, UnforkedStep

(* The target refuses, or writes the source's fence. *)
LEMMA UnforkedAcceptWrite ==
    ASSUME TypeOK, HandoverInv, UnforkedInv, NEW x \in Xfers, ~Forked(x)', AcceptWrite(x)
    PROVE  UnforkedInv'
<1>1. /\ promo[x] = "sent" /\ UNCHANGED <<isAdmin, pc, src, tgt, cur, status, node, crashes>>
      /\ \A y \in Xfers \ {x} : promo'[y] = promo[y]
  BY DEF AcceptWrite, nodeVars, TypeOK
<1>2. TwoShareHandover'
  BY <1>1 DEF UnforkedInv, TwoShareHandover
<1>3. CASE promo'[x] = "refused" /\ fence' = fence
  <2>1. AdminFenceTop'
    BY <1>1, <1>3 DEF UnforkedInv, AdminFenceTop
  <2>2. ASSUME NEW y \in Xfers PROVE SourceHolds(y)' /\ FenceAtStage(y)'
    <3>1. SourceHolds(y) /\ FenceAtStage(y)
      BY DEF UnforkedInv
    <3>2. promo'[y] \in {"written", "ok"} <=> promo[y] \in {"written", "ok"}
      BY <1>1, <1>3
    <3> QED
      BY <1>1, <1>3, <3>1, <3>2 DEF SourceHolds, FenceAtStage
  <2> QED
    BY <1>2, <2>1, <2>2 DEF UnforkedInv
<1>4. CASE promo'[x] = "written" /\ fence' = [fence EXCEPT ![tgt[x]] = cur[x] + 1]
  <2>1. pc[x] = "wait" /\ src[x] # tgt[x] /\ src[x] \in Nodes /\ tgt[x] \in Nodes
    BY <1>1, <1>4 DEF HandoverInv, PromoAtStage, Forked, TypeOK
  <2>2. OnlyMoves(x) /\ x \in Active
    BY <1>1, <2>1 DEF OnlyMoves, Active
  <2>3. /\ isAdmin[src[x]]
        /\ \A m \in Nodes : isAdmin[m] => m = src[x]
    BY <1>1, <2>1, OnlySource
  <2>4. /\ fence[src[x]] = cur[x] + 1 /\ cur[x] \in Nat
        /\ \A n \in Nodes \ {src[x]} : fence[n] <= cur[x] /\ fence[n] \in Nat
    BY <1>1, <2>1 DEF UnforkedInv, FenceAtStage, TypeOK
  <2>5. /\ fence'[tgt[x]] = cur[x] + 1
        /\ \A n \in Nodes \ {tgt[x]} : fence'[n] = fence[n]
    BY <1>4, <2>1 DEF TypeOK
  <2>6. \A n \in Nodes : fence'[n] <= fence'[src[x]]
    BY <2>1, <2>4, <2>5
  <2>7. AdminFenceTop'
    BY <1>1, <2>3, <2>6 DEF AdminFenceTop
  <2>8. SourceHolds(x)'
    BY <1>1, <2>3 DEF SourceHolds
  <2>9. FenceAtStage(x)'
    BY <1>1, <1>4, <2>1, <2>4, <2>5 DEF FenceAtStage
  <2> QED
    BY <1>2, <2>2, <2>7, <2>8, <2>9, UnforkedStep
<1> QED
  BY <1>3, <1>4 DEF AcceptWrite, AtomicWrite, TypeOK

(* The target takes the role beside the source. *)
LEMMA UnforkedAcceptSet ==
    ASSUME TypeOK, HandoverInv, UnforkedInv, NEW x \in Xfers, ~Forked(x), AcceptSet(x)
    PROVE  UnforkedInv'
<1>1. /\ promo[x] = "written" /\ promo'[x] = "ok"
      /\ UNCHANGED <<fence, pc, src, tgt, cur, status, node, crashes>>
      /\ \A y \in Xfers \ {x} : promo'[y] = promo[y]
  BY DEF AcceptSet, nodeVars, TypeOK
<1>2. pc[x] = "wait" /\ src[x] # tgt[x] /\ src[x] \in Nodes /\ tgt[x] \in Nodes
  BY <1>1 DEF HandoverInv, PromoAtStage, Forked, TypeOK
<1>3. OnlyMoves(x) /\ x \in Active
  BY <1>1, <1>2 DEF OnlyMoves, Active
<1>4. /\ isAdmin[src[x]]
      /\ \A m \in Nodes : isAdmin[m] => m = src[x]
  BY <1>1, <1>2, OnlySource
<1>5. \A m \in Nodes : isAdmin'[m] <=> m \in {src[x], tgt[x]}
  BY <1>2, <1>4 DEF AcceptSet, SetAdmin, TypeOK
<1>6. fence[src[x]] = cur[x] + 1 /\ fence[tgt[x]] = cur[x] + 1
  BY <1>1, <1>2 DEF UnforkedInv, FenceAtStage
<1>7. TwoShareHandover'
  <2> SUFFICES ASSUME NEW m \in Nodes, NEW n \in Nodes, isAdmin'[m], isAdmin'[n], m # n
               PROVE  {m, n} = {src[x], tgt[x]}
    BY <1>1, <1>2 DEF TwoShareHandover
  <2> QED
    BY <1>5
<1>8. AdminFenceTop'
  <2>1. \A n \in Nodes : fence[n] <= fence[src[x]]
    BY <1>2, <1>4 DEF UnforkedInv, AdminFenceTop
  <2> QED
    BY <1>1, <1>5, <1>6, <2>1 DEF AdminFenceTop
<1>9. SourceHolds(x)'
  BY <1>1, <1>2, <1>5 DEF SourceHolds
<1>10. FenceAtStage(x)'
  BY <1>1, <1>2, <1>6 DEF FenceAtStage
<1> QED
  BY <1>3, <1>7, <1>8, <1>9, <1>10, UnforkedStep

LEMMA RoleXfer ==
    ASSUME TypeOK, HandoverInv, RoleInv, OneAtATime, [Next]_vars,
           NEW x \in Xfers, Request(x) \/ Source(x) \/ Target(x)
    PROVE  RoleInv'
<1>1. RoleBegins'
  BY RoleBeginsXfer
<1>2. ASSUME \A y \in Xfers : ~Forked(y)' PROVE UnforkedInv'
  <2>1. \A y \in Xfers : ~Forked(y)
    BY <1>2, ForkedStays
  <2>2. UnforkedInv /\ ~Forked(x) /\ ~Forked(x)'
    BY <1>2, <2>1 DEF RoleInv
  <2> QED
    BY <2>2, UnforkedFence, UnforkedReply, UnforkedRollback, UnforkedStepDown,
       UnforkedAcceptWrite, UnforkedAcceptSet DEF Source, Target
<1> QED
  BY <1>1, <1>2 DEF RoleInv

LEMMA RoleNext ==
    ASSUME TypeOK, HandoverInv, RoleInv, OneAtATime, KnowSmaller, [Next]_vars
    PROVE  RoleInv'
<1>1. \A n \in Nodes : ~Crash(n)
  BY DEF HandoverInv, OneAtATime, Crash
<1>2. ASSUME UNCHANGED vars PROVE RoleInv'
  BY <1>2 DEF vars, RoleInv, RoleBegins, Forked, UnforkedInv, TwoShareHandover, AdminFenceTop,
              SourceHolds, FenceAtStage
<1> QED
  BY <1>1, <1>2, RoleBoot, RoleXfer DEF Next, Idle

(***************************************************************************)
(* The invariant of the role: it begins with the election of the least     *)
(* name and, unless a target that accepted was taken for failed, two       *)
(* admins are the two ends of one hand-over and no fence is above theirs.  *)
(***************************************************************************)
THEOREM RoleInvariant == OneAtATime /\ KnowSmaller => (Spec => []RoleInv)
<1> SUFFICES ASSUME OneAtATime, KnowSmaller PROVE Spec => []RoleInv
  OBVIOUS
<1>1. Init => RoleInv
  BY RoleInit
<1>2. TypeOK /\ HandoverInv /\ RoleInv /\ [Next]_vars => RoleInv'
  BY RoleNext
<1> QED
  BY <1>1, <1>2, RoleTypeCorrect, HandoverInvariant, PTL DEF Spec

(***************************************************************************)
(* At rest exactly one node is the admin and no fence is above its own     *)
(* (transferAdmin and acceptPromotion after BootstrapState), for any       *)
(* number of nodes and of successive transfers, unless the answer of a     *)
(* target that had accepted was lost.                                      *)
(***************************************************************************)
THEOREM OneAdminAtRestHolds == OneAtATime /\ KnowSmaller => (Spec => []OneAdminAtRest)
<1> SUFFICES ASSUME OneAtATime, KnowSmaller PROVE Spec => []OneAdminAtRest
  OBVIOUS
<1>1. TypeOK /\ HandoverInv /\ RoleInv => OneAdminAtRest
  <2> SUFFICES ASSUME TypeOK, RoleInv, AtRest, \A x \in Xfers : ~Forked(x)
               PROVE  \E a \in Nodes : Admins = {a} /\ \A n \in Nodes : fence[n] <= fence[a]
    BY DEF OneAdminAtRest
  <2>1. \A x \in Xfers : pc[x] \in {"idle", "done", "lost"}
    BY DEF AtRest, Quiet, Active
  <2>2. UnforkedInv
    BY DEF RoleInv
  <2>3. node[First] = "up"
    BY FirstIsLeast DEF AtRest
  <2>4. PICK a \in Nodes : isAdmin[a]
    BY <2>3 DEF RoleInv, RoleBegins, First
  <2>5. \A m \in Nodes : isAdmin[m] => m = a
    BY <2>1, <2>2, <2>4 DEF UnforkedInv, TwoShareHandover
  <2>6. Admins = {a}
    BY <2>4, <2>5 DEF Admins, AtRest
  <2>7. \A n \in Nodes : fence[n] <= fence[a]
    BY <2>2, <2>4 DEF UnforkedInv, AdminFenceTop
  <2> QED
    BY <2>6, <2>7
<1> QED
  BY <1>1, RoleTypeCorrect, HandoverInvariant, RoleInvariant, PTL
=============================================================================
