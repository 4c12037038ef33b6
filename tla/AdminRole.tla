------------------------------ MODULE AdminRole ------------------------------
(***************************************************************************)
(* Which node of the fleet is the admin: the election each daemon holds    *)
(* when it starts (internal/admin/bootstrap.go, called from cmd/tailkitd)  *)
(* and the hand-over by POST /admin/transfer and POST                      *)
(* /admin/internal/accept-promotion (internal/api/admin.go).               *)
(*                                                                         *)
(* The role is a flag in each daemon's memory; the fence token is a file   *)
(* on each node.  A starting daemon probes its peers one after the other,  *)
(* before it listens.  A transfer is one goroutine at the source, one HTTP *)
(* request to the target and one handler there; the source learns of an    *)
(* error whether the target has run its handler or not.                    *)
(***************************************************************************)
EXTENDS Naturals, FiniteSets

CONSTANTS
    Nodes,           \* daemon hostnames, as numbers in the order of the names
    Peers,           \* Peers[n]: PeerHostnames on n, the same at every start
    Xfers,           \* the transfer requests
    MaxActive,       \* how many of them are under way at a time
    SelfTransfer,    \* whether a request may name the node it is sent to
    MaxCrashes       \* bound on crashes

ASSUME RoleAssumption ==
    /\ Nodes \subseteq Nat /\ Nodes # {}
    /\ IsFiniteSet(Xfers)
    /\ Peers \in [Nodes -> SUBSET Nodes]
    /\ \A n \in Nodes : n \notin Peers[n]
    /\ MaxActive \in Nat
    /\ MaxCrashes \in Nat
    /\ SelfTransfer \in BOOLEAN

VARIABLES
    node,     \* node[n]: "down", "probing" (bootstrap) or "up" (listening)
    todo,     \* todo[n]: the peers n has still to probe
    isAdmin,  \* State.isAdmin on each node
    fence,    \* the number in each node's admin.fence
    pc,       \* pc[x]: where the goroutine of transfer x is
    src, tgt, \* the node x was sent to and the node it names
    cur,      \* cur[x]: currentFence
    status,   \* status[x]: what x was answered, 0 before that
    promo,    \* promo[x]: the promotion request of x, on the wire and at the target
    crashes

nodeVars == <<node, todo, crashes>>
xferVars == <<pc, src, tgt, cur, status, promo>>
vars == <<node, todo, isAdmin, fence, pc, src, tgt, cur, status, promo, crashes>>

Active == {x \in Xfers : pc[x] \notin {"idle", "done", "lost"}}

Admins == {n \in Nodes : node[n] = "up" /\ isAdmin[n]}

TypeOK ==
    /\ node \in [Nodes -> {"down", "probing", "up"}]
    /\ todo \in [Nodes -> SUBSET Nodes]
    /\ isAdmin \in [Nodes -> BOOLEAN]
    /\ fence \in [Nodes -> Nat]
    /\ pc \in [Xfers -> {"idle", "check", "read", "write", "promote", "wait",
                         "rollback", "stepdown", "done", "lost"}]
    /\ src \in [Xfers -> Nodes]
    /\ tgt \in [Xfers -> Nodes]
    /\ cur \in [Xfers -> Nat]
    /\ status \in [Xfers -> {0, 200, 400, 403, 409, 500}]
    /\ promo \in [Xfers -> {"none", "sent", "written", "ok", "refused", "gone"}]
    /\ crashes \in 0..MaxCrashes

(* Installed nodes, EnsureBootstrapFiles done, no daemon started yet.      *)
Init ==
    /\ node = [n \in Nodes |-> "down"]
    /\ todo = [n \in Nodes |-> {}]
    /\ isAdmin = [n \in Nodes |-> FALSE]
    /\ fence = [n \in Nodes |-> 0]
    /\ pc = [x \in Xfers |-> "idle"]
    /\ src \in [Xfers -> Nodes]
    /\ tgt \in [Xfers -> Nodes]
    /\ \A x \in Xfers : src[x] = tgt[x] => SelfTransfer
    /\ cur = [x \in Xfers |-> 0]
    /\ status = [x \in Xfers |-> 0]
    /\ promo = [x \in Xfers |-> "none"]
    /\ crashes = 0

-----------------------------------------------------------------------------
(* BootstrapState.                                                         *)
Least(S) == CHOOSE n \in S : \A m \in S : n <= m

(* The probe of a peer's /host, when it answers.                           *)
IsPeerAdmin(p) == node[p] = "up" /\ isAdmin[p]

SetAdmin(n, v) == isAdmin' = [isAdmin EXCEPT ![n] = v]

(* The fence file of n is replaced as a whole.                             *)
AtomicWrite(n, v) == fence' = [fence EXCEPT ![n] = v]

Start(n) ==
    /\ node[n] = "down"
    /\ node' = [node EXCEPT ![n] = "probing"]
    /\ todo' = [todo EXCEPT ![n] = Peers[n]]
    /\ UNCHANGED <<isAdmin, fence, xferVars, crashes>>

(* A probe that takes a peer it cannot reach for an admin.                 *)
MutantProbeUnreachable(n) ==
    /\ node[n] = "probing"
    /\ todo[n] # {}
    /\ LET p == Least(todo[n]) IN
        IF node[p] # "up" \/ isAdmin[p]
        THEN /\ node' = [node EXCEPT ![n] = "up"]
             /\ isAdmin' = [isAdmin EXCEPT ![n] = FALSE]
             /\ todo' = [todo EXCEPT ![n] = {}]
        ELSE /\ todo' = [todo EXCEPT ![n] = @ \ {p}]
             /\ UNCHANGED <<node, isAdmin>>
    /\ UNCHANGED <<fence, xferVars, crashes>>

(* One turn of the probe loop, in the order of the names.  A peer that     *)
(* says it is the admin ends the loop, and the daemon goes on to listen; a *)
(* peer that is not the admin or gives no answer is passed over.           *)
Probe(n) ==
    /\ node[n] = "probing"
    /\ todo[n] # {}
    /\ LET p == Least(todo[n]) IN
        \/ /\ IsPeerAdmin(p)
           /\ node' = [node EXCEPT ![n] = "up"]
           /\ SetAdmin(n, FALSE)
           /\ todo' = [todo EXCEPT ![n] = {}]
        \/ /\ todo' = [todo EXCEPT ![n] = @ \ {p}]
           /\ UNCHANGED <<node, isAdmin>>
    /\ UNCHANGED <<fence, xferVars, crashes>>

(* An election without the comparison of the names.                        *)
MutantElectAlways(n) ==
    /\ node[n] = "probing"
    /\ todo[n] = {}
    /\ node' = [node EXCEPT ![n] = "up"]
    /\ isAdmin' = [isAdmin EXCEPT ![n] = TRUE]
    /\ UNCHANGED <<todo, fence, xferVars, crashes>>

(* No peer said it was the admin: the least name is.                       *)
Elect(n) ==
    /\ node[n] = "probing"
    /\ todo[n] = {}
    /\ node' = [node EXCEPT ![n] = "up"]
    /\ SetAdmin(n, n = Least(Peers[n] \cup {n}))
    /\ UNCHANGED <<todo, fence, xferVars, crashes>>

(* The daemon of n dies: its flag, its goroutines and its handlers with it. *)
Crash(n) ==
    /\ node[n] # "down"
    /\ crashes < MaxCrashes
    /\ crashes' = crashes + 1
    /\ node' = [node EXCEPT ![n] = "down"]
    /\ todo' = [todo EXCEPT ![n] = {}]
    /\ isAdmin' = [isAdmin EXCEPT ![n] = FALSE]
    /\ pc' = [x \in Xfers |-> IF src[x] = n /\ x \in Active THEN "lost" ELSE pc[x]]
    /\ promo' = [x \in Xfers |->
                    IF tgt[x] = n /\ promo[x] \in {"sent", "written", "ok", "refused"}
                    THEN "gone" ELSE promo[x]]
    /\ UNCHANGED <<fence, src, tgt, cur, status>>

-----------------------------------------------------------------------------
(* transferAdmin, at src[x].                                               *)
Goto(x, l) ==
    /\ pc' = [pc EXCEPT ![x] = l]
    /\ UNCHANGED status

Answer(x, code) ==
    /\ pc' = [pc EXCEPT ![x] = "done"]
    /\ status' = [status EXCEPT ![x] = code]

Request(x) ==
    /\ pc[x] = "idle"
    /\ node[src[x]] = "up"
    /\ Cardinality(Active) < MaxActive
    /\ Goto(x, "check")
    /\ UNCHANGED <<nodeVars, isAdmin, fence, src, tgt, cur, promo>>

(* IsAdmin, then the body, which may not name a target.                    *)
CheckAdmin(x) ==
    /\ pc[x] = "check"
    /\ \/ ~isAdmin[src[x]] /\ Answer(x, 403)
       \/ isAdmin[src[x]] /\ Answer(x, 400)
       \/ isAdmin[src[x]] /\ Goto(x, "read")
    /\ UNCHANGED <<nodeVars, isAdmin, fence, src, tgt, cur, promo>>

GetFenceToken(x) ==
    /\ pc[x] = "read"
    /\ \/ Answer(x, 500) /\ UNCHANGED cur
       \/ Goto(x, "write") /\ cur' = [cur EXCEPT ![x] = fence[src[x]]]
    /\ UNCHANGED <<nodeVars, isAdmin, fence, src, tgt, promo>>

WriteFence(x) ==
    /\ pc[x] = "write"
    /\ \/ Answer(x, 500) /\ UNCHANGED fence
       \/ Goto(x, "promote") /\ AtomicWrite(src[x], cur[x] + 1)
    /\ UNCHANGED <<nodeVars, isAdmin, src, tgt, cur, promo>>

Promote(x) ==
    /\ pc[x] = "promote"
    /\ Goto(x, "wait")
    /\ promo' = [promo EXCEPT ![x] = "sent"]
    /\ UNCHANGED <<nodeVars, isAdmin, fence, src, tgt, cur>>

(* The request does not reach the target, or the target died: an error.    *)
PromoteLost(x) ==
    /\ pc[x] = "wait"
    /\ promo[x] \in {"sent", "gone"}
    /\ promo' = [promo EXCEPT ![x] = "gone"]
    /\ Goto(x, "rollback")
    /\ UNCHANGED <<nodeVars, isAdmin, fence, src, tgt, cur>>

(* The connection breaks after the target has the request: an error too.   *)
ReplyLost(x) ==
    /\ pc[x] = "wait"
    /\ promo[x] \in {"sent", "written", "ok", "refused"}
    /\ Goto(x, "rollback")
    /\ UNCHANGED <<nodeVars, isAdmin, fence, src, tgt, cur, promo>>

PromoteReply(x) ==
    /\ pc[x] = "wait"
    /\ \/ promo[x] = "ok" /\ Goto(x, "stepdown")
       \/ promo[x] = "refused" /\ Goto(x, "rollback")
    /\ UNCHANGED <<nodeVars, isAdmin, fence, src, tgt, cur, promo>>

(* A failed transfer answered as a bad gateway.                            *)
MutantRollbackStatus(x) ==
    /\ pc[x] = "rollback"
    /\ fence' = [fence EXCEPT ![src[x]] = cur[x]] \/ UNCHANGED fence
    /\ Answer(x, 502)
    /\ UNCHANGED <<nodeVars, isAdmin, src, tgt, cur, promo>>

(* The fence is put back, or the write fails and is logged; 409 either way. *)
Rollback(x) ==
    /\ pc[x] = "rollback"
    /\ AtomicWrite(src[x], cur[x]) \/ UNCHANGED fence
    /\ Answer(x, 409)
    /\ UNCHANGED <<nodeVars, isAdmin, src, tgt, cur, promo>>

StepDown(x) ==
    /\ pc[x] = "stepdown"
    /\ SetAdmin(src[x], FALSE)
    /\ Answer(x, 200)
    /\ UNCHANGED <<nodeVars, fence, src, tgt, cur, promo>>

-----------------------------------------------------------------------------
(* A promotion that carries the old fence instead of the next one.         *)
MutantAcceptOldFence(x) ==
    /\ promo[x] = "sent"
    /\ node[tgt[x]] = "up"
    /\ \/ promo' = [promo EXCEPT ![x] = "refused"] /\ UNCHANGED fence
       \/ /\ promo' = [promo EXCEPT ![x] = "written"]
          /\ fence' = [fence EXCEPT ![tgt[x]] = cur[x]]
    /\ UNCHANGED <<nodeVars, isAdmin, pc, src, tgt, cur, status>>

(* acceptPromotion, at tgt[x]: the fence is written, then the flag is set. *)
AcceptWrite(x) ==
    /\ promo[x] = "sent"
    /\ node[tgt[x]] = "up"
    /\ \/ promo' = [promo EXCEPT ![x] = "refused"] /\ UNCHANGED fence
       \/ /\ promo' = [promo EXCEPT ![x] = "written"]
          /\ AtomicWrite(tgt[x], cur[x] + 1)
    /\ UNCHANGED <<nodeVars, isAdmin, pc, src, tgt, cur, status>>

(* A promotion that is answered before the flag is set, and then is not set. *)
MutantAcceptNoSet(x) ==
    /\ promo[x] = "written"
    /\ promo' = [promo EXCEPT ![x] = "ok"]
    /\ UNCHANGED <<nodeVars, isAdmin, fence, pc, src, tgt, cur, status>>

AcceptSet(x) ==
    /\ promo[x] = "written"
    /\ SetAdmin(tgt[x], TRUE)
    /\ promo' = [promo EXCEPT ![x] = "ok"]
    /\ UNCHANGED <<nodeVars, fence, pc, src, tgt, cur, status>>

Idle ==
    /\ Active = {}
    /\ \A n \in Nodes : node[n] = "up"
    /\ UNCHANGED vars

Boot(n) == Start(n) \/ Probe(n) \/ Elect(n)

Source(x) ==
    \/ CheckAdmin(x) \/ GetFenceToken(x) \/ WriteFence(x) \/ Promote(x)
    \/ PromoteLost(x) \/ ReplyLost(x) \/ PromoteReply(x) \/ Rollback(x) \/ StepDown(x)

Target(x) == AcceptWrite(x) \/ AcceptSet(x)

Next ==
    \/ \E n \in Nodes : Boot(n) \/ Crash(n)
    \/ \E x \in Xfers : Request(x) \/ Source(x) \/ Target(x)
    \/ Idle

Spec == Init /\ [][Next]_vars

(* Daemons are started and restarted by the service manager, and they run. *)
Fairness ==
    /\ \A n \in Nodes : WF_vars(Boot(n))
    /\ \A x \in Xfers : WF_vars(Source(x)) /\ WF_vars(Target(x))

FairSpec == Spec /\ Fairness

-----------------------------------------------------------------------------
(* The deployments that the theorems are about: every node has the nodes   *)
(* named before it among its peers; transfers do not overlap or name their *)
(* source, and no daemon dies.                                             *)
KnowSmaller == \A m, n \in Nodes : m < n => m \in Peers[n]

OneAtATime == MaxActive <= 1 /\ MaxCrashes = 0 /\ ~SelfTransfer

(* Only a daemon that listens is an admin, and without transfers only the  *)
(* node with the least name.                                               *)
RunningAdmins == \A n \in Nodes : isAdmin[n] => node[n] = "up"

OnlyLeast == \A n \in Nodes : isAdmin[n] => \A m \in Nodes : n <= m

(* What the promotion request and the answer of a transfer can be at each  *)
(* stage of it.                                                            *)
PromoAtStage(x) ==
    /\ pc[x] # "lost"
    /\ pc[x] \in {"idle", "check", "read", "write", "promote"} => promo[x] = "none"
    /\ pc[x] = "wait" => promo[x] \in {"sent", "written", "ok", "refused"}
    /\ pc[x] = "stepdown" => promo[x] = "ok"
    /\ pc[x] # "done" => status[x] = 0
    /\ pc[x] = "done" /\ promo[x] # "none" => status[x] \in {200, 409}
    /\ status[x] = 200 => promo[x] = "ok"

(* The target's handler ran on a daemon that listens, and the target has   *)
(* the role when the source comes to give it up.                           *)
TargetHolds(x) ==
    /\ promo[x] \in {"written", "ok"} => node[tgt[x]] = "up"
    /\ pc[x] \in {"wait", "stepdown"} /\ promo[x] = "ok" => isAdmin[tgt[x]]

HandoverInv ==
    /\ crashes = 0
    /\ RunningAdmins
    /\ \A x, y \in Active : x = y
    /\ \A x \in Xfers : src[x] # tgt[x] /\ PromoAtStage(x) /\ TargetHolds(x)

(* A promotion that the target carried out and the source takes for failed. *)
Forked(x) == (pc[x] = "rollback" \/ status[x] = 409) /\ promo[x] \in {"written", "ok"}

(* The role comes into being with the election of the least name, and then *)
(* stays.                                                                  *)
RoleBegins ==
    IF node[Least(Nodes)] = "up"
    THEN \E n \in Nodes : isAdmin[n]
    ELSE /\ \A n \in Nodes : ~isAdmin[n] /\ fence[n] = 0
         /\ \A x \in Xfers : pc[x] \in {"idle", "check", "done"} /\ promo[x] = "none"

(* The source of a transfer past its check is an admin, and two admins are *)
(* the source and the target of a hand-over.                               *)
SourceHolds(x) ==
    pc[x] \in {"read", "write", "promote", "wait", "rollback", "stepdown"} => isAdmin[src[x]]

TwoShareHandover ==
    \A m, n \in Nodes : isAdmin[m] /\ isAdmin[n] /\ m # n =>
        \E x \in Xfers : /\ pc[x] \in {"wait", "stepdown"} /\ promo[x] = "ok"
                         /\ {m, n} = {src[x], tgt[x]}

(* No fence is above an admin's, and where the fences of a transfer are.   *)
AdminFenceTop == \A m, n \in Nodes : isAdmin[m] => fence[n] <= fence[m]

FenceAtStage(x) ==
    /\ pc[x] = "write" => fence[src[x]] = cur[x]
    /\ pc[x] \in {"promote", "wait", "rollback", "stepdown"} => fence[src[x]] = cur[x] + 1
    /\ pc[x] \in {"promote", "wait", "rollback"} /\ promo[x] \notin {"written", "ok"} =>
            \A n \in Nodes \ {src[x]} : fence[n] <= cur[x]
    /\ pc[x] \in {"wait", "stepdown"} /\ promo[x] \in {"written", "ok"} =>
            fence[tgt[x]] = cur[x] + 1

UnforkedInv ==
    /\ TwoShareHandover
    /\ AdminFenceTop
    /\ \A x \in Xfers : SourceHolds(x) /\ FenceAtStage(x)

RoleInv == RoleBegins /\ ((\A x \in Xfers : ~Forked(x)) => UnforkedInv)

-----------------------------------------------------------------------------
(* No transfer is under way anywhere.                                      *)
Quiet == Active = {} /\ \A x \in Xfers : promo[x] \notin {"sent", "written"}

AtRest == Quiet /\ \A n \in Nodes : node[n] = "up"

(***************************************************************************)
(* When every daemon listens and no transfer is under way, exactly one     *)
(* node is the admin and no fence is above its own, whatever transfers     *)
(* came before: the fence grows with every hand-over and a failed one      *)
(* takes its increment back at the source.  The exception are transfers    *)
(* whose target had accepted and whose answer was lost: the source then    *)
(* stays the admin, and the target has become one.                         *)
(***************************************************************************)
OneAdminAtRest ==
    AtRest /\ (\A x \in Xfers : ~Forked(x)) =>
        \E a \in Nodes : Admins = {a} /\ \A n \in Nodes : fence[n] <= fence[a]

(***************************************************************************)
(* Between rests a hand-over never leaves the fleet without an admin: the  *)
(* target has the role before the source gives it up.                      *)
(***************************************************************************)
NoGap ==
    [][Admins # {} => Admins' # {}]_vars

(***************************************************************************)
(* The election alone: two daemons that started, restarted and probed each *)
(* other in any order never both hold the role.                            *)
(***************************************************************************)
AtMostOneAdmin == Cardinality(Admins) <= 1

(***************************************************************************)
(* Once no daemon crashes any more, the fleet has an admin for good.       *)
(***************************************************************************)
AdminEmerges == <>[](Admins # {})
=============================================================================
