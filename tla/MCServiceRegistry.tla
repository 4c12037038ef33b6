-------------------------- MODULE MCServiceRegistry --------------------------
(* Two provisions of service a, which is new, and a push and a deletion of  *)
(* service b, whose file is there and is listed after that of a.            *)
EXTENDS ServiceRegistry

CONSTANTS a, b, push, del, prov, prov2, x, y, hand, tmp

MCNames == {a, b}
MCPosition == [n \in MCNames |-> IF n = a THEN 1 ELSE 2]
MCTarget == [r \in {push, del, prov, prov2} |-> IF r \in {push, del} THEN b ELSE a]
MCStagedPath == [r \in {prov, prov2} |-> tmp]
MCHash == [r \in {prov, prov2} |-> IF r = prov THEN x ELSE y]
=============================================================================
