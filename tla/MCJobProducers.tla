--------------------------- MODULE MCJobProducers ---------------------------
(* Two unit operations that conflict, one each of the other kinds, under   *)
(* configurations that allow all, allow no single operation, or lack D-Bus *)
(* and Docker.                                                             *)
EXTENDS JobProducers

Op(f, v) == [family |-> f, verb |-> v]

UnitOps == {Op("unit", "start"), Op("unit", "stop")}

AnyOp == UnitOps \cup {Op("unit", "enable"), Op("container", "start"), Op("compose", "up"),
                       Op("image", "remove"), Op("container", "logs"), Op("unit", "other"), Op("image", "unnamed")}

MCOps == <<AnyOp, AnyOp>>

MCConfigs == {[on |-> Sections, allow |-> AllOps],
              [on |-> Sections, allow |-> {}],
              [on |-> {"systemd", "units"}, allow |-> AllOps]}
=============================================================================
