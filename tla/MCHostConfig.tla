---------------------------- MODULE MCHostConfig ----------------------------
(* A fleet file of two entries, and one push or none.                      *)
EXTENDS HostConfig

CONSTANTS p1, c1, c2, self, peer

MCOnePush == {p1}
MCNames == {self, peer}
MCConfigs == {c1, c2}
=============================================================================
