-------------------------- MODULE SingleUseLedger --------------------------
(***************************************************************************)
(* What the invite endpoint promises, with no daemon, lock or file in it:  *)
(* a permanent ledger of claimed tokens, in which a request may win a      *)
(* token at most once and only by entering it in the ledger.  A token may  *)
(* be entered without a winner (its claimant was told of a failure); it    *)
(* can never be won afterwards.                                            *)
(***************************************************************************)
CONSTANTS
    Reqs,        \* the claim requests
    Tokens,      \* the invite tokens
    Grantee,     \* Grantee[t]: the identity token t was issued to
    Unclaimed,   \* the ledger's entry of a token nobody claimed
    NoReq        \* the winner of a token nobody won

VARIABLES
    ledger,      \* ledger[t]: who claimed t, or Unclaimed
    winner       \* winner[t]: the request that won t, or NoReq

vars == <<ledger, winner>>

Init ==
    /\ ledger = [t \in Tokens |-> Unclaimed]
    /\ winner = [t \in Tokens |-> NoReq]

(***************************************************************************)
(* Entries are only added, and only in the name of the token's grantee.    *)
(***************************************************************************)
Extends(new, old) ==
    \A t \in Tokens : new[t] = old[t] \/ (old[t] = Unclaimed /\ new[t] = Grantee[t])

Grant(r, t) ==
    /\ ledger[t] = Unclaimed
    /\ winner[t] = NoReq
    /\ winner' = [winner EXCEPT ![t] = r]
    /\ ledger' \in [Tokens -> {Unclaimed} \cup {Grantee[u] : u \in Tokens}]
    /\ Extends(ledger', ledger)
    /\ ledger'[t] = Grantee[t]

Next == \E r \in Reqs, t \in Tokens : Grant(r, t)

Spec == Init /\ [][Next]_vars
=============================================================================
