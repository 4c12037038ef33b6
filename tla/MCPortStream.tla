---------------------------- MODULE MCPortStream ----------------------------
(* Two clients, and one port that two processes may listen on, each under   *)
(* an address of its own.                                                   *)
EXTENDS PortStream

CONSTANTS c1, c2, p1, p2

Listener(port, addr, pid) == [port |-> port, addr |-> addr, pid |-> pid]

MCListeners == {Listener(80, 1, p1), Listener(80, 2, p2)}
=============================================================================
