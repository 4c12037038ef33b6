--------------------------- MODULE MCInviteClaims ---------------------------
(* Three requests for two tokens of two users, one crash, one failing write. *)
EXTENDS InviteClaims, TLC

CONSTANTS r1, r2, r3, t1, t2, u1, u2

MCReqs == {r1, r2, r3}
MCTokens == {t1, t2}
MCUsers == {u1, u2}
MCGenuine == {t1, t2}
MCGrantee == (t1 :> u1) @@ (t2 :> u2)

ReqSymmetry == Permutations(MCReqs)
=============================================================================
