-------------------------- MODULE VarsStoreProofs --------------------------
(***************************************************************************)
(* Proofs about VarsStore, for any scopes, keys and operations and any     *)
(* number of requests, faults and crashes: the inductive invariant         *)
(* StoreInv, and from it that the files implement the map of VarsMap.      *)
(***************************************************************************)
EXTENDS VarsStore, TLAPS

Values == [Keys -> Requests \cup {Missing}]

(* What a request finds when it reads a file that parses, what it prepares *)
(* and what it is told are of their types.                                 *)
LEMMA ReadType ==
    ASSUME TypeOK, NEW s \in Scopes, file[s] # Garbage
    PROVE  readScope(s) \in Contents /\ readScope(s).values \in Values
  <1>1. Empty \in Contents
    BY DEF Empty, Contents, Nothing
  <1>2. readScope(s) \in Contents
    BY <1>1 DEF TypeOK, readScope
  <1>3. QED
    BY <1>2 DEF Contents, Values

LEMMA NothingType == Nothing \in Values /\ Empty \in Contents
  BY DEF Nothing, Values, Empty, Contents

LEMMA OpType ==
    ASSUME NEW o \in Ops
    PROVE  o.scope \in Scopes /\ o.kind \in Kinds /\ o.key \in Keys
  BY VarsAssumption

LEMMA SettleType ==
    ASSUME TypeOK, NEW r \in Requests, NEW st \in {"refused", "ok", "missing", "error"},
           NEW v \in Values, Tell(r, st, v)
    PROVE  result' \in [Requests -> [status : {"none", "refused", "ok", "missing", "error"},
                                     values : [Keys -> Requests \cup {Missing}]]]
  BY DEF TypeOK, Tell, Told, Values

(* The store starts without files, locks and requests.                     *)
LEMMA InitStoreInv == Init => StoreInv
  <1> SUFFICES ASSUME Init
               PROVE  StoreInv
    OBVIOUS
  <1>1. TypeOK
    BY VarsAssumption, NothingType DEF Init, TypeOK, Told, Values
  <1>2. QED
    BY <1>1 DEF Init, StoreInv, RunningIsAsked, OnlyChangesWrite, WriterHoldsLock,
       PreparedIsCurrent

-----------------------------------------------------------------------------
(* Requests that arrive: they hold nothing yet.                            *)
LEMMA ArriveInv ==
    ASSUME StoreInv, NEW r \in Requests, NEW o \in Ops, Arrive(r, o)
    PROVE  StoreInv'
  <1> USE DEF Arrive, Goto, lockVars, boundVars
  <1>1. TypeOK'
    BY DEF StoreInv, TypeOK
  <1>2. \A q \in Requests : q # r => pc'[q] = pc[q] /\ op'[q] = op[q]
    BY DEF StoreInv, TypeOK
  <1>3. pc'[r] = "lock" /\ op'[r] = o
    BY DEF StoreInv, TypeOK
  <1>4. RunningIsAsked' /\ OnlyChangesWrite' /\ WriterHoldsLock'
    BY <1>2, <1>3 DEF StoreInv, RunningIsAsked, OnlyChangesWrite, WriterHoldsLock, IsRead, Scope
  <1>5. PreparedIsCurrent'
    BY <1>2, <1>3 DEF StoreInv, PreparedIsCurrent, Changed, readScope, Scope
  <1>6. QED
    BY <1>1, <1>4, <1>5 DEF StoreInv

LEMMA RefuseInv ==
    ASSUME StoreInv, NEW r \in Requests, NEW o \in Ops, NEW fits \in BOOLEAN, Refuse(r, o, fits)
    PROVE  StoreInv'
  <1> USE DEF Refuse, Goto, lockVars, boundVars
  <1>1. TypeOK'
    BY SettleType, NothingType DEF StoreInv, TypeOK
  <1>2. \A q \in Requests : q # r => pc'[q] = pc[q]
    BY DEF StoreInv, TypeOK
  <1>3. pc'[r] = "done"
    BY DEF StoreInv, TypeOK
  <1>4. RunningIsAsked' /\ OnlyChangesWrite' /\ WriterHoldsLock'
    BY <1>2, <1>3 DEF StoreInv, RunningIsAsked, OnlyChangesWrite, WriterHoldsLock, IsRead, Scope
  <1>5. PreparedIsCurrent'
    BY <1>2, <1>3 DEF StoreInv, PreparedIsCurrent, Changed, readScope, Scope
  <1>6. QED
    BY <1>1, <1>4, <1>5 DEF StoreInv

-----------------------------------------------------------------------------
(* The lock.  A writer that gets it finds it free, hence nobody else past  *)
(* it; a release touches no other holder's lock.                           *)
LEMMA LockInv ==
    ASSUME StoreInv, NEW r \in Requests, Lock(r) \/ RLock(r) \/ Unlock(r)
    PROVE  StoreInv'
  <1>1. /\ UNCHANGED <<file, op, data, result, faults, crashes>>
        /\ op[r] \in Ops /\ Scope(r) \in Scopes
        /\ pc[r] \in {"lock", "unlock"}
        /\ \E l \in {"read", "write", "done"} :
            /\ pc' = [pc EXCEPT ![r] = l]
            /\ l = "write" => op[r].kind = "deleteScope"
            /\ l = "done" <=> pc[r] = "unlock"
            /\ l # "done" /\ ~IsRead(r) => Lock(r)
    BY OpType DEF Lock, RLock, Unlock, Goto, boundVars, StoreInv, RunningIsAsked, Scope
  <1>2. TypeOK'
    <2>1. writer' \in [Scopes -> Requests \cup {Missing}]
      BY <1>1 DEF StoreInv, TypeOK, Lock, RLock, Unlock
    <2>2. readers' \in [Scopes -> SUBSET Requests]
      BY <1>1 DEF StoreInv, TypeOK, Lock, RLock, Unlock
    <2>3. QED
      BY <1>1, <2>1, <2>2 DEF StoreInv, TypeOK
  <1>3. \A q \in Requests : q # r => pc'[q] = pc[q] /\ op'[q] = op[q]
    BY <1>1 DEF StoreInv, TypeOK
  <1>4. RunningIsAsked' /\ OnlyChangesWrite'
    BY <1>1, <1>3 DEF StoreInv, TypeOK, RunningIsAsked, OnlyChangesWrite, IsRead, Reads
  <1>5. WriterHoldsLock'
    <2> SUFFICES ASSUME NEW q \in Requests,
                        pc'[q] \in {"read", "write", "unlock"}, ~IsRead(q)
                 PROVE  writer'[Scope(q)] = q
      BY <1>1 DEF WriterHoldsLock, IsRead, Scope
    <2>1. CASE q # r
      <3>1. writer[Scope(q)] = q /\ Scope(q) \in Scopes
        BY <1>3, <2>1, OpType DEF StoreInv, WriterHoldsLock, RunningIsAsked, Scope
      <3>2. writer[Scope(q)] # Missing
        BY <3>1, VarsAssumption
      <3>3. QED
        BY <1>1, <2>1, <3>1, <3>2 DEF Lock, RLock, Unlock, StoreInv, TypeOK
    <2>2. CASE q = r
      <3>1. Lock(r)
        BY <1>1, <2>2 DEF StoreInv, TypeOK
      <3>2. QED
        BY <1>1, <2>2, <3>1 DEF Lock, StoreInv, TypeOK
    <2>3. QED
      BY <2>1, <2>2
  <1>6. PreparedIsCurrent'
    BY <1>1, <1>3 DEF StoreInv, TypeOK, PreparedIsCurrent, Changed, readScope, Scope
  <1>7. QED
    BY <1>2, <1>4, <1>5, <1>6 DEF StoreInv

-----------------------------------------------------------------------------
(* A step that settles r's outcome without touching a file: List, Get, and *)
(* every way of failing.                                                   *)
LEMMA SettleInv ==
    ASSUME StoreInv, NEW r \in Requests, pc[r] \in {"read", "write"},
           NEW st \in {"refused", "ok", "missing", "error"}, NEW v \in Values,
           Settle(r, st, v), UNCHANGED <<file, writer, readers, op, crashes>>,
           data' = data \/ data' = [data EXCEPT ![r] = Empty],
           faults' \in 0..MaxFaults
    PROVE  StoreInv'
  <1> USE DEF Settle, Goto
  <1>1. TypeOK'
    BY SettleType, NothingType DEF StoreInv, TypeOK
  <1>2. \A q \in Requests : q # r => pc'[q] = pc[q] /\ data'[q] = data[q]
    BY DEF StoreInv, TypeOK
  <1>3. pc'[r] = "unlock"
    BY DEF StoreInv, TypeOK
  <1>4. RunningIsAsked' /\ OnlyChangesWrite' /\ WriterHoldsLock'
    BY <1>2, <1>3 DEF StoreInv, RunningIsAsked, OnlyChangesWrite, WriterHoldsLock, IsRead, Scope
  <1>5. PreparedIsCurrent'
    BY <1>2, <1>3 DEF StoreInv, PreparedIsCurrent, Changed, readScope, Scope
  <1>6. QED
    BY <1>1, <1>4, <1>5 DEF StoreInv

LEMMA FaultType ==
    ASSUME StoreInv, Fault
    PROVE  faults' \in 0..MaxFaults /\ crashes' = crashes
  BY VarsAssumption DEF StoreInv, TypeOK, Fault

(* What List and Get answer.                                               *)
LEMMA ReadsInv ==
    ASSUME StoreInv, NEW r \in Requests,
           List(r) \/ Get(r) \/ ReadRejected(r) \/ ReadFails(r) \/ WriteFails(r)
    PROVE  StoreInv'
  <1>1. /\ pc[r] \in {"read", "write"}
        /\ UNCHANGED <<file, writer, readers, op, crashes>>
        /\ data' = data \/ data' = [data EXCEPT ![r] = Empty]
        /\ faults' \in 0..MaxFaults
    BY FaultType DEF List, Get, ReadRejected, ReadFails, WriteFails, lockVars, boundVars,
       StoreInv, TypeOK
  <1>2. op[r] \in Ops /\ Scope(r) \in Scopes /\ op[r].key \in Keys
    BY <1>1, OpType DEF StoreInv, RunningIsAsked, Scope
  <1>3. ASSUME NEW st \in {"refused", "ok", "missing", "error"}, NEW v \in Values,
               Settle(r, st, v)
        PROVE  StoreInv'
    BY <1>1, <1>3, SettleInv
  <1>4. CASE List(r)
    <2>1. readScope(Scope(r)).values \in Values
      BY <1>2, <1>4, ReadType DEF List, StoreInv
    <2>2. QED
      BY <1>3, <1>4, <2>1 DEF List
  <1>5. CASE Get(r)
    <2> DEFINE v == readScope(Scope(r)).values[op[r].key]
    <2>1. readScope(Scope(r)).values \in Values
      BY <1>2, <1>5, ReadType DEF Get, StoreInv
    <2>2. v \in Requests \cup {Missing}
      BY <1>2, <2>1 DEF Values
    <2>3. [Nothing EXCEPT ![op[r].key] = v] \in Values
      BY <2>2, NothingType DEF Values
    <2>4. \/ Settle(r, "missing", Nothing)
          \/ Settle(r, "ok", [Nothing EXCEPT ![op[r].key] = v])
      BY <1>5 DEF Get
    <2> HIDE DEF v
    <2>5. QED
      BY <1>3, <2>3, <2>4, NothingType
  <1>6. CASE ReadRejected(r) \/ ReadFails(r) \/ WriteFails(r)
    <2>1. Settle(r, "error", Nothing)
      BY <1>6 DEF ReadRejected, ReadFails, WriteFails
    <2>2. QED
      BY <1>3, <2>1, NothingType
  <1>7. QED
    BY <1>4, <1>5, <1>6

-----------------------------------------------------------------------------
(* Set and Delete prepare the change of what they have just read, under    *)
(* the lock.                                                               *)
LEMMA PrepareInv ==
    ASSUME StoreInv, NEW r \in Requests, Set(r) \/ Delete(r)
    PROVE  StoreInv'
  <1>1. /\ pc[r] = "read" /\ op[r].kind \in {"set", "delete"}
        /\ file[Scope(r)] \notin {Garbage, Null}
        /\ data' = [data EXCEPT ![r] = Changed(r)]
        /\ pc' = [pc EXCEPT ![r] = "write"]
        /\ UNCHANGED <<file, writer, readers, op, result, faults, crashes>>
    BY DEF Set, Delete, Goto, lockVars, boundVars, Changed
  <1>2. op[r] \in Ops /\ Scope(r) \in Scopes /\ op[r].key \in Keys
    BY <1>1, OpType DEF StoreInv, RunningIsAsked, Scope
  <1>3. Changed(r) \in Contents
    <2>1. readScope(Scope(r)).values \in Values
      BY <1>1, <1>2, ReadType DEF StoreInv
    <2> DEFINE w == IF op[r].kind = "set" THEN r ELSE Missing
    <2>2. w \in Requests \cup {Missing}
      OBVIOUS
    <2>3. [readScope(Scope(r)).values EXCEPT ![op[r].key] = w] \in Values
      BY <2>1, <2>2 DEF Values
    <2>4. QED
      BY <2>3 DEF Changed, Contents, Values
  <1>4. TypeOK'
    BY <1>1, <1>3 DEF StoreInv, TypeOK
  <1>5. \A q \in Requests : q # r => pc'[q] = pc[q] /\ data'[q] = data[q]
    BY <1>1 DEF StoreInv, TypeOK
  <1>6. pc'[r] = "write" /\ data'[r] = Changed(r)
    BY <1>1 DEF StoreInv, TypeOK
  <1>7. RunningIsAsked' /\ OnlyChangesWrite' /\ WriterHoldsLock'
    BY <1>1, <1>5, <1>6
    DEF StoreInv, RunningIsAsked, OnlyChangesWrite, WriterHoldsLock, IsRead, Reads, Scope
  <1>8. PreparedIsCurrent'
    BY <1>1, <1>5, <1>6 DEF StoreInv, PreparedIsCurrent, Changed, readScope, Scope
  <1>9. QED
    BY <1>4, <1>7, <1>8 DEF StoreInv

(* A file changes under the lock only, or by hand while nobody holds it:   *)
(* what the other writers have prepared is of other files.                 *)
LEMMA FileChangeInv ==
    ASSUME StoreInv, NEW s \in Scopes, NEW c \in Contents \cup {Absent, Garbage, Null},
           file' = [file EXCEPT ![s] = c],
           UNCHANGED op,
           \A q \in Requests : pc'[q] = "write" =>
                writer[s] # q /\ pc[q] = "write" /\ data'[q] = data[q]
    PROVE  PreparedIsCurrent'
  <1> SUFFICES ASSUME NEW q \in Requests, pc'[q] = "write", op[q].kind # "deleteScope"
               PROVE  /\ file'[Scope(q)] \notin {Garbage, Null}
                      /\ data'[q] = Changed(q)'
    BY DEF PreparedIsCurrent, Scope
  <1>1. pc[q] = "write" /\ data'[q] = data[q] /\ writer[s] # q
    OBVIOUS
  <1>2. writer[Scope(q)] = q
    BY <1>1 DEF StoreInv, OnlyChangesWrite, WriterHoldsLock
  <1>3. file'[Scope(q)] = file[Scope(q)]
    BY <1>1, <1>2 DEF StoreInv, TypeOK
  <1>4. Changed(q)' = Changed(q)
    BY <1>3 DEF Changed, readScope, Scope
  <1>5. QED
    BY <1>1, <1>3, <1>4 DEF StoreInv, PreparedIsCurrent

LEMMA WriteInv ==
    ASSUME StoreInv, NEW r \in Requests, writeScope(r) \/ DeleteScope(r)
    PROVE  StoreInv'
  <1>1. /\ pc[r] = "write" /\ pc' = [pc EXCEPT ![r] = "unlock"]
        /\ Tell(r, "ok", Nothing)
        /\ data' = data \/ data' = [data EXCEPT ![r] = Empty]
        /\ UNCHANGED <<writer, readers, op, faults, crashes>>
    BY DEF writeScope, DeleteScope, Settle, Goto, lockVars, boundVars
  <1>2. op[r] \in Ops /\ Scope(r) \in Scopes
    BY <1>1, OpType DEF StoreInv, RunningIsAsked, Scope
  <1>3. PICK c \in Contents \cup {Absent, Garbage, Null} : file' = [file EXCEPT ![Scope(r)] = c]
    BY DEF writeScope, DeleteScope, StoreInv, TypeOK
  <1>4. TypeOK'
    BY <1>1, <1>2, <1>3, SettleType, NothingType DEF StoreInv, TypeOK
  <1>5. \A q \in Requests : q # r => pc'[q] = pc[q] /\ data'[q] = data[q]
    BY <1>1 DEF StoreInv, TypeOK
  <1>6. pc'[r] = "unlock"
    BY <1>1 DEF StoreInv, TypeOK
  <1>7. RunningIsAsked' /\ OnlyChangesWrite' /\ WriterHoldsLock'
    BY <1>1, <1>5, <1>6
    DEF StoreInv, RunningIsAsked, OnlyChangesWrite, WriterHoldsLock, IsRead, Scope
  <1>8. writer[Scope(r)] = r
    BY <1>1 DEF StoreInv, OnlyChangesWrite, WriterHoldsLock
  <1>9. PreparedIsCurrent'
    BY <1>1, <1>2, <1>3, <1>5, <1>6, <1>8, FileChangeInv
  <1>10. QED
    BY <1>4, <1>7, <1>9 DEF StoreInv

-----------------------------------------------------------------------------
LEMMA DamageInv ==
    ASSUME StoreInv, NEW s \in Scopes, NEW c \in {Garbage, Null}, Damage(s, c)
    PROVE  StoreInv'
  <1> USE DEF Damage, lockVars
  <1>1. TypeOK'
    BY FaultType DEF StoreInv, TypeOK
  <1>2. RunningIsAsked' /\ OnlyChangesWrite' /\ WriterHoldsLock'
    BY DEF StoreInv, RunningIsAsked, OnlyChangesWrite, WriterHoldsLock, IsRead, Scope
  <1>3. \A q \in Requests : writer[s] # q
    BY VarsAssumption
  <1>4. PreparedIsCurrent'
    BY <1>3, FileChangeInv
  <1>5. QED
    BY <1>1, <1>2, <1>4 DEF StoreInv

LEMMA CrashInv ==
    ASSUME StoreInv, Crash
    PROVE  StoreInv'
  <1> USE DEF Crash
  <1>1. TypeOK'
    BY VarsAssumption, NothingType DEF StoreInv, TypeOK
  <1>2. \A q \in Requests : pc'[q] \in {"idle", "done", "lost"}
    OBVIOUS
  <1>3. QED
    BY <1>1, <1>2
    DEF StoreInv, RunningIsAsked, OnlyChangesWrite, WriterHoldsLock, PreparedIsCurrent

LEMMA StutterInv ==
    ASSUME StoreInv, UNCHANGED vars
    PROVE  StoreInv'
  BY DEF StoreInv, vars, TypeOK, RunningIsAsked, OnlyChangesWrite, WriterHoldsLock,
     PreparedIsCurrent, Changed, readScope, IsRead, Scope

(* The inductive invariant of the store: whoever is about to write a scope *)
(* holds its lock, and has prepared the change of what its file holds now. *)
THEOREM StoreInvariant == Spec => []StoreInv
  <1>1. StoreInv /\ [Next]_vars => StoreInv'
    <2> SUFFICES ASSUME StoreInv, [Next]_vars
                 PROVE  StoreInv'
      OBVIOUS
    <2>1. ASSUME NEW r \in Requests, NEW o \in Ops, Arrive(r, o)
          PROVE  StoreInv'
      BY <2>1, ArriveInv
    <2>2. ASSUME NEW r \in Requests, NEW o \in Ops, NEW fits \in BOOLEAN, Refuse(r, o, fits)
          PROVE  StoreInv'
      BY <2>2, RefuseInv
    <2>3. ASSUME NEW r \in Requests, Step(r) \/ ReadFails(r) \/ WriteFails(r)
          PROVE  StoreInv'
      BY <2>3, LockInv, ReadsInv, PrepareInv, WriteInv DEF Step
    <2>4. ASSUME NEW s \in Scopes, NEW c \in {Garbage, Null}, Damage(s, c)
          PROVE  StoreInv'
      BY <2>4, DamageInv
    <2>5. QED
      BY <2>1, <2>2, <2>3, <2>4, CrashInv, StutterInv DEF Next
  <1>2. QED
    BY InitStoreInv, <1>1, PTL DEF Spec

(* Type correctness of the vars store.                                     *)
THEOREM VarsTypeCorrect == Spec => []TypeOK
  <1>1. StoreInv => TypeOK
    BY DEF StoreInv
  <1>2. QED
    BY <1>1, StoreInvariant, PTL

-----------------------------------------------------------------------------
(* The stage of a request is that of its label.                            *)
StageOf(label) ==
    CASE label = "idle"   -> "idle"
      [] label = "unlock" -> "decided"
      [] label = "done"   -> "answered"
      [] label = "lost"   -> "lost"
      [] OTHER            -> "pending"

(* A request that moves to a label moves to the label's stage.             *)
LEMMA StageMoves ==
    ASSUME TypeOK, NEW r \in Requests,
           NEW label \in {"idle", "lock", "read", "write", "unlock", "done", "lost"},
           Goto(r, label)
    PROVE  [q \in Requests |-> Stage(q)]' = [[q \in Requests |-> Stage(q)] EXCEPT ![r] = StageOf(label)]
  <1>1. ASSUME NEW q \in Requests
        PROVE  Stage(q)' = IF q = r THEN StageOf(label) ELSE Stage(q)
    <2>1. pc'[q] = IF q = r THEN label ELSE pc[q]
      BY DEF Goto, TypeOK
    <2>2. CASE q = r
      BY <2>1, <2>2 DEF Stage, StageOf
    <2>3. CASE q # r
      BY <2>1, <2>3 DEF Stage
    <2>4. QED
      BY <2>2, <2>3
  <1>2. QED
    BY <1>1

LEMMA StageIs ==
    ASSUME TypeOK, NEW r \in Requests
    PROVE  /\ pc[r] = "idle" => Stage(r) = "idle"
           /\ pc[r] \in {"lock", "read", "write"} => Stage(r) = "pending"
           /\ pc[r] = "unlock" => Stage(r) = "decided"
           /\ Stage(r) \in {"pending", "decided"} <=> pc[r] \in {"lock", "read", "write", "unlock"}
  BY DEF TypeOK, Stage

(* The waiting, the preparing and the handing over of a lock are invisible. *)
LEMMA InvisibleStep ==
    ASSUME StoreInv, NEW r \in Requests, Lock(r) \/ RLock(r) \/ Set(r) \/ Delete(r)
    PROVE  UNCHANGED Abstract!vars
  <1>1. PICK label \in {"read", "write"} : Goto(r, label)
    BY DEF Lock, RLock, Set, Delete
  <1>2. pc[r] \in {"lock", "read"} /\ UNCHANGED <<file, op, result>>
    BY DEF Lock, RLock, Set, Delete
  <1>3. Stage(r) = "pending" /\ StageOf(label) = "pending"
    BY <1>2, StageIs DEF StoreInv, StageOf
  <1>4. [q \in Requests |-> Stage(q)]' = [[q \in Requests |-> Stage(q)] EXCEPT ![r] = "pending"]
    BY <1>1, <1>3, StageMoves DEF StoreInv
  <1>5. [[q \in Requests |-> Stage(q)] EXCEPT ![r] = "pending"] = [q \in Requests |-> Stage(q)]
    BY <1>3
  <1>6. QED
    BY <1>2, <1>4, <1>5 DEF Abstract!vars

(* The values that a reader finds are those of the map.                    *)
LEMMA ValuesRead ==
    ASSUME TypeOK, NEW s \in Scopes, file[s] # Garbage
    PROVE  Abstract!Values(file[s]) = readScope(s).values
  BY DEF Abstract!Values, Abstract!Nothing, readScope, Empty, Nothing

(* A step that settles the outcome of r decides it in the map.             *)
LEMMA SettleDecides ==
    ASSUME StoreInv, NEW r \in Requests, pc[r] \in {"read", "write"},
           NEW st, NEW v, NEW c, Settle(r, st, v), UNCHANGED op,
           file' = [file EXCEPT ![op[r].scope] = c]
    PROVE  Abstract!Decide(r, c, [status |-> st, values |-> v])
  <1>1. [q \in Requests |-> Stage(q)]' = [[q \in Requests |-> Stage(q)] EXCEPT ![r] = "decided"]
    <2>1. StageOf("unlock") = "decided"
      BY DEF StageOf
    <2>2. QED
      BY <2>1, StageMoves DEF StoreInv, Settle
  <1>2. QED
    BY <1>1 DEF Abstract!Decide, Abstract!Becomes, Settle, Tell, Told

LEMMA UnchangedFile ==
    ASSUME TypeOK, NEW s \in Scopes, file' = file
    PROVE  file' = [file EXCEPT ![s] = file[s]]
  BY DEF TypeOK

(* The steps at which an operation takes place or fails.                   *)
LEMMA EffectStep ==
    ASSUME StoreInv, NEW r \in Requests,
           List(r) \/ Get(r) \/ writeScope(r) \/ DeleteScope(r)
    PROVE  Abstract!Effect(r)
  <1>0. Nothing = Abstract!Nothing
    BY DEF Nothing, Abstract!Nothing
  <1>1. /\ pc[r] \in {"read", "write"} /\ op[r] \in Ops /\ op' = op
        /\ op[r].scope \in Scopes /\ op[r].key \in Keys
        /\ [q \in Requests |-> Stage(q)][r] = "pending"
    <2>1. pc[r] \in {"read", "write"} /\ op' = op
      BY DEF List, Get, writeScope, DeleteScope
    <2>2. QED
      BY <2>1, OpType, StageIs DEF StoreInv, RunningIsAsked
  <1>2. CASE List(r)
    <2>1. /\ op[r].kind = "list" /\ file[op[r].scope] # Garbage /\ file' = file
          /\ Settle(r, "ok", readScope(op[r].scope).values)
      BY <1>2 DEF List, Scope
    <2>2. file' = [file EXCEPT ![op[r].scope] = file[op[r].scope]]
      BY <1>1, <2>1, UnchangedFile DEF StoreInv
    <2>3. Abstract!Decide(r, file[op[r].scope],
                          [status |-> "ok", values |-> readScope(op[r].scope).values])
      BY <1>1, <2>1, <2>2, SettleDecides
    <2>4. Abstract!Values(file[op[r].scope]) = readScope(op[r].scope).values
      BY <1>1, <2>1, ValuesRead DEF StoreInv
    <2>5. QED
      BY <1>1, <2>1, <2>3, <2>4 DEF Abstract!Effect, Abstract!Told
  <1>3. CASE Get(r)
    <2> DEFINE v == readScope(op[r].scope).values[op[r].key]
               st == IF v = Missing THEN "missing" ELSE "ok"
               w == IF v = Missing THEN Nothing ELSE [Nothing EXCEPT ![op[r].key] = v]
    <2>1. op[r].kind = "get" /\ file[op[r].scope] # Garbage /\ file' = file
      BY <1>3 DEF Get, Scope
    <2>2. Settle(r, st, w)
      BY <1>3 DEF Get, Scope
    <2>3. file' = [file EXCEPT ![op[r].scope] = file[op[r].scope]]
      BY <1>1, <2>1, UnchangedFile DEF StoreInv
    <2>4. Abstract!Decide(r, file[op[r].scope], [status |-> st, values |-> w])
      <3> HIDE DEF st, w
      <3>1. QED
        BY <1>1, <2>2, <2>3, SettleDecides
    <2>5. Abstract!Values(file[op[r].scope])[op[r].key] = v
      BY <1>1, <2>1, ValuesRead DEF StoreInv
    <2>6. [status |-> st, values |-> w] =
            IF v = Missing
            THEN Abstract!Told("missing", Abstract!Nothing)
            ELSE Abstract!Told("ok", [Abstract!Nothing EXCEPT ![op[r].key] = v])
      BY <1>0 DEF Abstract!Told
    <2> HIDE DEF v, st, w
    <2>7. QED
      BY <1>1, <2>1, <2>4, <2>5, <2>6 DEF Abstract!Effect
  <1>4. CASE writeScope(r)
    <2>1. /\ pc[r] = "write" /\ op[r].kind # "deleteScope"
          /\ file' = [file EXCEPT ![op[r].scope] = data[r]]
          /\ Settle(r, "ok", Nothing)
      BY <1>4 DEF writeScope, Scope
    <2>2. op[r].kind \in {"set", "delete"}
      BY <1>1, <2>1, OpType DEF StoreInv, OnlyChangesWrite, IsRead, Kinds, Reads
    <2>3. file[op[r].scope] \notin {Garbage, Null} /\ data[r] = Changed(r)
      BY <2>1 DEF StoreInv, PreparedIsCurrent, Scope
    <2>4. Abstract!Values(file[op[r].scope]) = readScope(op[r].scope).values
      BY <1>1, <2>3, ValuesRead DEF StoreInv
    <2>5. Abstract!Decide(r, Changed(r), Abstract!Told("ok", Abstract!Nothing))
      BY <1>0, <1>1, <2>1, <2>3, SettleDecides DEF Abstract!Told
    <2>6. CASE op[r].kind = "set"
      <3>1. Changed(r) = [values |-> [Abstract!Values(file[op[r].scope]) EXCEPT ![op[r].key] = r],
                          by |-> r]
        BY <2>4, <2>6 DEF Changed, Scope
      <3>2. QED
        BY <1>1, <2>3, <2>5, <2>6, <3>1 DEF Abstract!Effect
    <2>7. CASE op[r].kind = "delete"
      <3>1. Changed(r) = [values |-> [Abstract!Values(file[op[r].scope]) EXCEPT ![op[r].key] = Missing],
                          by |-> r]
        BY <2>4, <2>7 DEF Changed, Scope
      <3>2. QED
        BY <1>1, <2>3, <2>5, <2>7, <3>1 DEF Abstract!Effect
    <2>8. QED
      BY <2>2, <2>6, <2>7
  <1>5. CASE DeleteScope(r)
    <2>1. /\ op[r].kind = "deleteScope" /\ Settle(r, "ok", Nothing)
          /\ file' = [file EXCEPT ![op[r].scope] = Absent]
      BY <1>5 DEF DeleteScope, Scope
    <2>2. Abstract!Decide(r, Absent, Abstract!Told("ok", Abstract!Nothing))
      BY <1>0, <1>1, <2>1, SettleDecides DEF Abstract!Told
    <2>3. QED
      BY <1>1, <2>1, <2>2 DEF Abstract!Effect
  <1>6. QED
    BY <1>2, <1>3, <1>4, <1>5

LEMMA FailStep ==
    ASSUME StoreInv, NEW r \in Requests, ReadRejected(r) \/ ReadFails(r) \/ WriteFails(r)
    PROVE  Abstract!Fail(r)
  <1>1. /\ pc[r] \in {"read", "write"} /\ op' = op /\ file' = file
        /\ Settle(r, "error", Nothing)
    BY DEF ReadRejected, ReadFails, WriteFails
  <1>2. op[r].scope \in Scopes /\ [q \in Requests |-> Stage(q)][r] = "pending"
    BY <1>1, OpType, StageIs DEF StoreInv, RunningIsAsked
  <1>3. file' = [file EXCEPT ![op[r].scope] = file[op[r].scope]]
    BY <1>1, <1>2, UnchangedFile DEF StoreInv
  <1>4. Abstract!Decide(r, file[op[r].scope], [status |-> "error", values |-> Nothing])
    BY <1>1, <1>3, SettleDecides
  <1>5. QED
    BY <1>2, <1>4 DEF Abstract!Fail, Abstract!Told, Abstract!Nothing, Nothing

(* Arrival, refusal and answer.                                            *)
LEMMA EndsStep ==
    ASSUME StoreInv, NEW r \in Requests
    PROVE  /\ \A o \in Ops : Arrive(r, o) => Abstract!Begin(r, o)
           /\ \A o \in Ops, fits \in BOOLEAN : Refuse(r, o, fits) => Abstract!Refuse(r)
           /\ Unlock(r) => Abstract!Return(r)
  <1> DEFINE stages == [q \in Requests |-> Stage(q)]
  <1>1. StageOf("lock") = "pending" /\ StageOf("done") = "answered"
    BY DEF StageOf
  <1>2. /\ Goto(r, "lock") => stages' = [stages EXCEPT ![r] = "pending"]
        /\ Goto(r, "done") => stages' = [stages EXCEPT ![r] = "answered"]
    BY <1>1, StageMoves DEF StoreInv
  <1>3. /\ pc[r] = "idle" => stages[r] = "idle"
        /\ pc[r] = "unlock" => stages[r] = "decided"
    BY StageIs DEF StoreInv
  <1>4. ASSUME NEW o \in Ops, Arrive(r, o)
        PROVE  Abstract!Begin(r, o)
    <2>1. pc[r] = "idle" /\ Goto(r, "lock") /\ op' = [op EXCEPT ![r] = o]
          /\ UNCHANGED <<file, result>>
      BY <1>4 DEF Arrive, Arrives
    <2>2. QED
      BY <1>2, <1>3, <2>1 DEF Abstract!Begin, Abstract!Becomes
  <1>5. ASSUME NEW o \in Ops, NEW fits \in BOOLEAN, Refuse(r, o, fits)
        PROVE  Abstract!Refuse(r)
    <2>1. pc[r] = "idle" /\ Goto(r, "done") /\ UNCHANGED <<file, op>>
          /\ result' = [result EXCEPT ![r] = Abstract!Told("refused", Abstract!Nothing)]
      BY <1>5 DEF Refuse, Arrives, Tell, Told, Nothing, Abstract!Told, Abstract!Nothing
    <2>2. QED
      BY <1>2, <1>3, <2>1 DEF Abstract!Refuse, Abstract!Becomes
  <1>6. ASSUME Unlock(r)
        PROVE  Abstract!Return(r)
    <2>1. pc[r] = "unlock" /\ Goto(r, "done") /\ UNCHANGED <<file, op, result>>
      BY <1>6 DEF Unlock
    <2>2. QED
      BY <1>2, <1>3, <2>1 DEF Abstract!Return, Abstract!Becomes
  <1>7. QED
    BY <1>4, <1>5, <1>6

LEMMA CrashStep ==
    ASSUME StoreInv, Crash
    PROVE  Abstract!Crash
  <1> DEFINE stages == [q \in Requests |-> Stage(q)]
  <1>1. ASSUME NEW q \in Requests
        PROVE  Stage(q)' = IF Stage(q) \in {"pending", "decided"} THEN "lost" ELSE Stage(q)
    <2>1. pc[q] \in {"idle", "lock", "read", "write", "unlock", "done", "lost"}
          /\ pc'[q] = IF pc[q] \in {"idle", "done"} THEN pc[q] ELSE "lost"
      BY DEF StoreInv, TypeOK, Crash
    <2>2. QED
      BY <2>1 DEF Stage
  <1>2. stages' = [q \in Requests |->
                    IF stages[q] \in {"pending", "decided"} THEN "lost" ELSE stages[q]]
    BY <1>1
  <1>3. QED
    BY <1>2 DEF Abstract!Crash, Crash

(***************************************************************************)
(* The files implement the map: every step of the store takes effect at    *)
(* one instant, fails without an effect, or is invisible.  Concurrent      *)
(* changes of one scope are all kept, a reader is told one state of the    *)
(* scope, and a crash leaves a change done or not done.                    *)
(***************************************************************************)
THEOREM VarsRefinement == Spec => ImplementsMap
  <1>1. Init => Abstract!Init
    <2> SUFFICES ASSUME Init
                 PROVE  Abstract!Init
      OBVIOUS
    <2>1. \A q \in Requests : Stage(q) = "idle"
      BY DEF Init, Stage
    <2>2. QED
      BY <2>1 DEF Init, Abstract!Init, Abstract!Told, Abstract!Nothing, Told, Nothing
  <1>2. StoreInv /\ [Next]_vars => [Abstract!Next]_(Abstract!vars)
    <2> SUFFICES ASSUME StoreInv, [Next]_vars
                 PROVE  Abstract!Next \/ UNCHANGED Abstract!vars
      OBVIOUS
    <2>1. ASSUME NEW r \in Requests, NEW o \in Ops,
                 Arrive(r, o) \/ \E fits \in BOOLEAN : Refuse(r, o, fits)
          PROVE  Abstract!Next
      BY <2>1, EndsStep DEF Abstract!Next
    <2>2. ASSUME NEW r \in Requests, Step(r) \/ ReadFails(r) \/ WriteFails(r)
          PROVE  Abstract!Next \/ UNCHANGED Abstract!vars
      <3>1. CASE Lock(r) \/ RLock(r) \/ Set(r) \/ Delete(r)
        BY <3>1, InvisibleStep
      <3>2. CASE List(r) \/ Get(r) \/ writeScope(r) \/ DeleteScope(r)
        BY <3>2, EffectStep DEF Abstract!Next
      <3>3. CASE ReadRejected(r) \/ ReadFails(r) \/ WriteFails(r)
        BY <3>3, FailStep DEF Abstract!Next
      <3>4. CASE Unlock(r)
        BY <3>4, EndsStep DEF Abstract!Next
      <3>5. QED
        BY <2>2, <3>1, <3>2, <3>3, <3>4 DEF Step
    <2>3. ASSUME NEW s \in Scopes, NEW c \in {Garbage, Null}, Damage(s, c)
          PROVE  Abstract!Next
      <3>1. \A q \in Requests : Stage(q)' = Stage(q)
        BY <2>3 DEF Damage, Stage
      <3>2. Abstract!Damage(s, c)
        BY <2>3, <3>1 DEF Damage, Abstract!Damage
      <3>3. QED
        BY <3>2 DEF Abstract!Next
    <2>4. CASE Crash
      BY <2>4, CrashStep DEF Abstract!Next
    <2>5. CASE UNCHANGED vars
      <3>1. \A q \in Requests : Stage(q)' = Stage(q)
        BY <2>5 DEF vars, Stage
      <3>2. QED
        BY <2>5, <3>1 DEF vars, Abstract!vars
    <2>6. QED
      BY <2>1, <2>2, <2>3, <2>4, <2>5 DEF Next
  <1>3. QED
    BY <1>1, <1>2, StoreInvariant, PTL DEF Spec, ImplementsMap, Abstract!Spec
=============================================================================
