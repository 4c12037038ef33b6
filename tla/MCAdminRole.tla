---------------------------- MODULE MCAdminRole ----------------------------
(* A fleet of three nodes that all have each other in hosts.toml.           *)
EXTENDS AdminRole

MCNodes == 1..3
MCPeers == [n \in MCNodes |-> MCNodes \ {n}]
=============================================================================
