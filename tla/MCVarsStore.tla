---------------------------- MODULE MCVarsStore ----------------------------
(* One scope that may be read and written, two ordinary keys and a         *)
(* reserved one.                                                           *)
EXTENDS VarsStore

CONSTANTS scope, k1, k2, meta

MCOps ==
    [scope : Scopes, kind : {"set"}, key : {k1, k2, meta}]
    \cup [scope : Scopes, kind : {"get", "list", "delete", "deleteScope"}, key : {k1}]

MCAllow == [s \in Scopes |-> {"read", "write"}]
=============================================================================
