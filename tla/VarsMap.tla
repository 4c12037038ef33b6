------------------------------- MODULE VarsMap -------------------------------
(***************************************************************************)
(* What the vars store promises: every scope is a map that requests read   *)
(* and change at one instant between their arrival and their answer, or    *)
(* fail without a change.  A request that is lost in a crash has had its   *)
(* whole effect or none.                                                   *)
(***************************************************************************)
CONSTANTS
    Requests,
    Scopes,
    Keys,
    Ops,       \* [scope, kind, key]: what a request may ask for
    Missing,   \* no value
    Absent,    \* no file
    Unreadable, \* contents that no request can interpret
    Damaged    \* contents that no request can change, the unreadable among them

VARIABLES
    map,       \* map[s]: the values of scope s and who changed them last
    op,        \* op[r]: what r asks for
    stage,     \* stage[r]: "idle", "pending", "decided", "answered" or "lost"
    result     \* result[r]: what r is told

vars == <<map, op, stage, result>>

Nothing == [k \in Keys |-> Missing]

Told(status, values) == [status |-> status, values |-> values]

Values(c) == IF c \in {Absent} \cup Damaged THEN Nothing ELSE c.values

Init ==
    /\ map = [s \in Scopes |-> Absent]
    /\ op = [r \in Requests |-> Missing]
    /\ stage = [r \in Requests |-> "idle"]
    /\ result = [r \in Requests |-> Told("none", Nothing)]

Becomes(r, st) == stage' = [stage EXCEPT ![r] = st]

Begin(r, o) ==
    /\ stage[r] = "idle"
    /\ op' = [op EXCEPT ![r] = o]
    /\ Becomes(r, "pending")
    /\ UNCHANGED <<map, result>>

(* A request that the configuration or the key's form rules out.           *)
Refuse(r) ==
    /\ stage[r] = "idle"
    /\ Becomes(r, "answered")
    /\ result' = [result EXCEPT ![r] = Told("refused", Nothing)]
    /\ UNCHANGED <<map, op>>

Decide(r, c, res) ==
    /\ Becomes(r, "decided")
    /\ map' = [map EXCEPT ![op[r].scope] = c]
    /\ result' = [result EXCEPT ![r] = res]
    /\ UNCHANGED op

(* The instant at which r's operation takes place.                         *)
Effect(r) ==
    LET o == op[r]
        c == map[o.scope]
    IN
    /\ stage[r] = "pending"
    /\ \/ /\ o.kind = "list" /\ c \notin Unreadable
          /\ Decide(r, c, Told("ok", Values(c)))
       \/ /\ o.kind = "get" /\ c \notin Unreadable
          /\ Decide(r, c,
                IF Values(c)[o.key] = Missing
                THEN Told("missing", Nothing)
                ELSE Told("ok", [Nothing EXCEPT ![o.key] = Values(c)[o.key]]))
       \/ /\ o.kind = "set" /\ c \notin Damaged
          /\ Decide(r, [values |-> [Values(c) EXCEPT ![o.key] = r], by |-> r],
                    Told("ok", Nothing))
       \/ /\ o.kind = "delete" /\ c \notin Damaged
          /\ Decide(r, [values |-> [Values(c) EXCEPT ![o.key] = Missing], by |-> r],
                    Told("ok", Nothing))
       \/ /\ o.kind = "deleteScope"
          /\ Decide(r, Absent, Told("ok", Nothing))

Fail(r) ==
    /\ stage[r] = "pending"
    /\ Decide(r, map[op[r].scope], Told("error", Nothing))

Return(r) ==
    /\ stage[r] = "decided"
    /\ Becomes(r, "answered")
    /\ UNCHANGED <<map, op, result>>

Crash ==
    /\ stage' = [r \in Requests |->
                    IF stage[r] \in {"pending", "decided"} THEN "lost" ELSE stage[r]]
    /\ UNCHANGED <<map, op, result>>

(* Somebody damages a scope's file.                                        *)
Damage(s, d) ==
    /\ map' = [map EXCEPT ![s] = d]
    /\ UNCHANGED <<op, stage, result>>

Next ==
    \/ \E r \in Requests :
        \/ \E o \in Ops : Begin(r, o)
        \/ Refuse(r) \/ Effect(r) \/ Fail(r) \/ Return(r)
    \/ Crash
    \/ \E s \in Scopes, d \in Damaged : Damage(s, d)

Spec == Init /\ [][Next]_vars
=============================================================================
