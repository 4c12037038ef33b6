------------------------ MODULE ServiceRegistryProofs ------------------------
(***************************************************************************)
(* Proofs about ServiceRegistry, for any services, any number of requests, *)
(* edits, failures and restarts.                                           *)
(***************************************************************************)
EXTENDS ServiceRegistry, FiniteSetTheorems, WellFoundedInduction, TLAPS

-----------------------------------------------------------------------------
(* The order of the files.                                                 *)
LEMMA HasMin ==
    ASSUME NEW S \in SUBSET Nat, S # {}
    PROVE  \E m \in S : \A k \in S : m <= k
  <1>1. PICK m \in S : \A k \in S : ~ (<<k, m>> \in OpToRel(<, Nat))
    BY NatLessThanWellFounded, WFMin
  <1>2. \A k \in S : ~ (k < m)
    BY <1>1 DEF OpToRel
  <1>3. QED
    BY <1>2

LEMMA PositionType ==
    /\ Cardinality(Names) \in Nat
    /\ \A n \in Names : Position[n] \in 1..Cardinality(Names)
    /\ \A m, n \in Names : Position[m] = Position[n] => m = n
  BY RegistryAssumption, FS_CardinalityType

(* The first of some files is one of them, and no other comes before it.   *)
LEMMA FirstIn ==
    ASSUME NEW S \in SUBSET Names, S # {}
    PROVE  First(S) \in S /\ \A g \in S : Position[First(S)] <= Position[g]
  <1> DEFINE P == {Position[g] : g \in S}
  <1>1. P \in SUBSET Nat
    BY PositionType
  <1>2. P # {}
    OBVIOUS
  <1>3. PICK m \in P : \A k \in P : m <= k
    <2> HIDE DEF P
    <2>1. QED
      BY <1>1, <1>2, HasMin
  <1>4. PICK f \in S : Position[f] = m
    OBVIOUS
  <1>5. \A g \in S : Position[f] <= Position[g]
    BY <1>3, <1>4
  <1>6. QED
    BY <1>5 DEF First

LEMMA LastIn ==
    ASSUME NEW S \in SUBSET Names, S # {}
    PROVE  Last(S) \in S /\ \A g \in S : Position[g] <= Position[Last(S)]
  <1> DEFINE N == Cardinality(Names)
             P == {k \in 0..N : \E g \in S : k = N - Position[g]}
  <1>1. N \in Nat /\ \A g \in S : Position[g] \in 1..N
    BY PositionType
  <1> HIDE DEF N
  <1>2. \A g \in S : N - Position[g] \in P
    BY <1>1
  <1>3. P \in SUBSET Nat
    BY <1>1
  <1>4. P # {}
    BY <1>2
  <1>5. PICK m \in P : \A k \in P : m <= k
    <2> HIDE DEF P
    <2>1. QED
      BY <1>3, <1>4, HasMin
  <1>6. PICK f \in S : m = N - Position[f]
    OBVIOUS
  <1>7. \A g \in S : Position[g] <= Position[f]
    BY <1>1, <1>2, <1>5, <1>6
  <1>8. QED
    BY <1>7 DEF Last

(* There is one last file only.                                            *)
LEMMA LastIs ==
    ASSUME NEW S \in SUBSET Names, NEW f \in S, \A g \in S : Position[g] <= Position[f]
    PROVE  Last(S) = f
  <1>1. Last(S) \in S /\ \A g \in S : Position[g] <= Position[Last(S)]
    BY LastIn
  <1>2. Position[Last(S)] = Position[f]
    BY <1>1, PositionType
  <1>3. QED
    BY <1>1, <1>2, PositionType

-----------------------------------------------------------------------------
(* What LoadDir returns.                                                   *)
Contents == Valid \cup {None, Broken}

LEMMA FinishType ==
    ASSUME NEW d \in [Names -> Contents], NEW m \in [Names -> Configs \cup {None}],
           NEW t \in SUBSET Names
    PROVE  Finish(m, t, d) \in [Names -> Configs \cup {None}]
  <1>1. SUFFICES ASSUME NEW n \in Names, Definers(d, n) \cap t # {}
                 PROVE  d[Last(Definers(d, n) \cap t)].config \in Configs
    BY DEF Finish
  <1>2. Last(Definers(d, n) \cap t) \in Definers(d, n)
    BY <1>1, LastIn DEF Definers
  <1>3. QED
    BY <1>2 DEF Definers, Valid

(* A listed service comes from a file that defines it.                     *)
LEMMA FinishFrom ==
    ASSUME NEW d, NEW m, NEW t \in SUBSET Names, NEW n \in Names
    PROVE  \/ Finish(m, t, d)[n] = m[n]
           \/ \E f \in Definers(d, n) : Finish(m, t, d)[n] = d[f].config
  <1>1. CASE Definers(d, n) \cap t = {}
    BY <1>1 DEF Finish
  <1>2. CASE Definers(d, n) \cap t # {}
    <2>1. Last(Definers(d, n) \cap t) \in Definers(d, n)
      BY <1>2, LastIn DEF Definers
    <2>2. QED
      BY <1>2, <2>1 DEF Finish
  <1>3. QED
    BY <1>1, <1>2

(* With no file left to open the map is complete.                          *)
LEMMA FinishNone ==
    ASSUME NEW d, NEW m \in [Names -> Configs \cup {None}]
    PROVE  Finish(m, {}, d) = m
  BY DEF Finish

(* Files that are not there define nothing.                                *)
LEMMA FinishListed ==
    ASSUME NEW d
    PROVE  Finish(Empty, {f \in Names : d[f] # None}, d) = LoadDir(d)
  <1>1. \A n \in Names :
            Definers(d, n) \cap {f \in Names : d[f] # None} = Definers(d, n) \cap Names
    BY RegistryAssumption DEF Definers
  <1>2. QED
    BY <1>1 DEF Finish, LoadDir

(* To open the first of the files that are left does not change the end.   *)
LEMMA FinishStep ==
    ASSUME NEW d \in [Names -> Contents], NEW m \in [Names -> Configs \cup {None}],
           NEW t \in SUBSET Names, t # {},
           NEW k, k = IF d[First(t)] \in Valid
                      THEN [m EXCEPT ![d[First(t)].name] = d[First(t)].config] ELSE m
    PROVE  Finish(k, t \ {First(t)}, d) = Finish(m, t, d)
  <1> DEFINE f == First(t)
  <1>1. f \in t /\ \A g \in t : Position[f] <= Position[g]
    BY FirstIn
  <1> HIDE DEF f
  <1>2. SUFFICES ASSUME NEW n \in Names
                 PROVE  Finish(k, t \ {f}, d)[n] = Finish(m, t, d)[n]
    BY DEF Finish, f
  <1> DEFINE D == Definers(d, n) \cap t
             E == Definers(d, n) \cap (t \ {f})
  <1>3. k = IF d[f] \in Valid THEN [m EXCEPT ![d[f].name] = d[f].config] ELSE m
    BY DEF f
  <1>4. CASE E # {}
    <2>1. Last(E) \in E /\ \A g \in E : Position[g] <= Position[Last(E)]
      BY <1>4, LastIn
    <2>2. Last(E) \in D /\ \A g \in D : Position[g] <= Position[Last(E)]
      BY <1>1, <2>1
    <2>3. Last(D) = Last(E)
      BY <2>2, LastIs
    <2>4. QED
      BY <1>4, <2>2, <2>3 DEF Finish
  <1>5. CASE E = {} /\ f \in Definers(d, n)
    <2>1. D = {f}
      BY <1>1, <1>5
    <2>2. Last(D) = f
      BY <1>1, <2>1, LastIs, PositionType
    <2>3. Finish(m, t, d)[n] = d[f].config
      BY <2>1, <2>2 DEF Finish
    <2>4. Finish(k, t \ {f}, d)[n] = k[n]
      BY <1>5 DEF Finish
    <2>5. d[f] \in Valid /\ d[f].name = n
      BY <1>5 DEF Definers
    <2>6. QED
      BY <1>3, <2>3, <2>4, <2>5
  <1>6. CASE E = {} /\ f \notin Definers(d, n)
    <2>1. D = {}
      BY <1>6
    <2>2. Finish(m, t, d)[n] = m[n] /\ Finish(k, t \ {f}, d)[n] = k[n]
      BY <1>6, <2>1 DEF Finish
    <2>3. d[f] \in Valid => d[f].name # n
      BY <1>1, <1>6 DEF Definers
    <2>4. k[n] = m[n]
      BY <1>3, <2>3
    <2>5. QED
      BY <2>2, <2>4
  <1>7. QED
    BY <1>4, <1>5, <1>6

-----------------------------------------------------------------------------
(* Types.                                                                  *)
LEMMA ConstantTypes ==
    /\ \A r \in Requests : Target[r] \in Names
    /\ \A r \in Provisions : StagedPath[r] \in Paths /\ Hash[r] \in Artifacts
    /\ Requests \subseteq Loaders /\ watcher \in Loaders /\ watcher \notin Requests
    /\ Provisions \subseteq Requests
    /\ Empty \in [Names -> Configs \cup {None}]
    /\ Empty \in [Names -> Artifacts \cup {None}]
    /\ 0 \in 0..MaxTroubles
  BY RegistryAssumption DEF Requests, Loaders, Empty

LEMMA LoadDirType ==
    ASSUME TypeOK
    PROVE  LoadDir(dir) \in [Names -> Configs \cup {None}]
  BY FinishType, ConstantTypes DEF TypeOK, LoadDir, Contents

LEMMA TroubleType ==
    ASSUME TypeOK, Trouble
    PROVE  troubles' \in 0..MaxTroubles
  BY RegistryAssumption DEF TypeOK, Trouble

LEMMA InitType == Init => TypeOK
  <1> SUFFICES ASSUME Init
               PROVE  TypeOK
    OBVIOUS
  <1>1. dir \in [Names -> Valid \cup {None, Broken}]
    BY DEF Init, Valid, Configs
  <1>2. LoadDir(dir) \in [Names -> Configs \cup {None}]
    BY <1>1, FinishType, ConstantTypes DEF LoadDir, Contents
  <1>3. /\ pc \in [Loaders -> {"idle", "done", "lost", "select"} \cup Running]
        /\ pc[watcher] \in {"select"} \cup Reloading
    BY ConstantTypes DEF Init
  <1>4. /\ todo \in [Loaders -> SUBSET Names]
        /\ loaded \in [Loaders -> [Names -> Configs \cup {None}]]
    BY ConstantTypes DEF Init
  <1>5. /\ staged \in [Paths -> Artifacts \cup {None}]
        /\ artifact \in [Names -> Artifacts \cup {None}]
        /\ meta \in [Names -> Artifacts \cup {None}]
    BY ConstantTypes DEF Init
  <1>6. /\ held \in [Provisions -> Artifacts \cup {None}]
        /\ status \in [Requests -> {0, 200, 204, 400, 404, 409, 500}]
        /\ disturbed \in [Requests -> BOOLEAN]
        /\ behind \in [Requests -> SUBSET Loaders]
    BY DEF Init
  <1>7. QED
    BY <1>1, <1>2, <1>3, <1>4, <1>5, <1>6, ConstantTypes DEF Init, TypeOK

(* The operator, the senders, and the watcher up to its reload.            *)
LEMMA OutsideType ==
    ASSUME TypeOK,
           \/ \E n \in Names, c \in {None, Broken} \cup {v \in Valid : v.config \in HandMade} : Edit(n, c)
           \/ \E p \in Paths, a \in Artifacts \cup {None} : Stage(p, a)
           \/ TakeEvent \/ TakeTimer \/ Fire \/ Restart
    PROVE  TypeOK'
  <1>1. ASSUME NEW n \in Names, NEW c \in Contents, Edit(n, c)
        PROVE  TypeOK'
    BY <1>1, TroubleType DEF Edit, FileBecomes, TypeOK, diskVars, Contents
  <1>2. ASSUME NEW p \in Paths, NEW a \in Artifacts \cup {None}, Stage(p, a)
        PROVE  TypeOK'
    BY <1>2, TroubleType DEF Stage, TypeOK
  <1>3. CASE TakeEvent
    BY <1>3 DEF TakeEvent, TypeOK, diskVars, reqVars
  <1>4. CASE TakeTimer
    BY <1>4, ConstantTypes
       DEF TakeTimer, Goto, TypeOK, diskVars, reqVars, Running, Written, Reloading
  <1>5. CASE Fire
    BY <1>5 DEF Fire, TypeOK, diskVars, reqVars
  <1>6. CASE Restart
    <2>1. /\ pc' \in [Loaders -> {"idle", "done", "lost", "select"} \cup Running]
          /\ pc'[watcher] \in {"select"} \cup Reloading
      BY <1>6, ConstantTypes DEF Restart, TypeOK
    <2>2. /\ todo' \in [Loaders -> SUBSET Names]
          /\ loaded' \in [Loaders -> [Names -> Configs \cup {None}]]
          /\ behind' \in [Requests -> SUBSET Loaders]
      BY <1>6, ConstantTypes DEF Restart
    <2>3. QED
      BY <1>6, <2>1, <2>2, LoadDirType, TroubleType DEF Restart, TypeOK, diskVars
  <1>7. QED
    BY <1>1, <1>2, <1>3, <1>4, <1>5, <1>6 DEF Contents

LEMMA ReloadType ==
    ASSUME TypeOK, NEW l \in Loaders, Reload(l)
    PROVE  TypeOK'
  <1>1. \A label \in {"files", "select", "answer"} :
            /\ Goto(l, label)
            /\ l = watcher => label # "answer"
            /\ l # watcher => label # "select"
            =>
                /\ pc' \in [Loaders -> {"idle", "done", "lost", "select"} \cup Running]
                /\ pc'[watcher] \in {"select"} \cup Reloading
    BY ConstantTypes DEF TypeOK, Goto, Running, Written, Reloading
  <1>2. \A code \in {500} :
            Answer(l, code) /\ l # watcher =>
                /\ pc' \in [Loaders -> {"idle", "done", "lost", "select"} \cup Running]
                /\ pc'[watcher] \in {"select"} \cup Reloading
                /\ status' \in [Requests -> {0, 200, 204, 400, 404, 409, 500}]
    BY ConstantTypes DEF TypeOK, Goto, Answer, Loaders
  <1>3. CASE ListFiles(l)
    BY <1>1, <1>3 DEF ListFiles, TypeOK, diskVars, reqVars
  <1>4. CASE ListFails(l)
    <2>1. /\ pc' \in [Loaders -> {"idle", "done", "lost", "select"} \cup Running]
          /\ pc'[watcher] \in {"select"} \cup Reloading
          /\ status' \in [Requests -> {0, 200, 204, 400, 404, 409, 500}]
          /\ missed' \in BOOLEAN
      <3>1. CASE l = watcher
        BY <1>1, <1>4, <3>1 DEF ListFails, TypeOK
      <3>2. CASE l # watcher
        BY <1>2, <1>4, <3>2 DEF ListFails, TypeOK
      <3>3. QED
        BY <3>1, <3>2
    <2>2. QED
      BY <1>4, <2>1, TroubleType DEF ListFails, TypeOK, diskVars
  <1>5. CASE LoadOne(l)
    <2>1. First(todo[l]) \in Names
      <3>1. todo[l] \subseteq Names
        BY DEF TypeOK
      <3>2. todo[l] # {}
        BY <1>5 DEF LoadOne
      <3>3. QED
        BY <3>1, <3>2, FirstIn
    <2>2. dir[First(todo[l])] \in Valid =>
              /\ dir[First(todo[l])].name \in Names
              /\ dir[First(todo[l])].config \in Configs \cup {None}
      BY DEF Valid
    <2>3. loaded' \in [Loaders -> [Names -> Configs \cup {None}]]
      <3>1. loaded \in [Loaders -> [Names -> Configs \cup {None}]]
        BY DEF TypeOK
      <3>2. ASSUME NEW n \in Names, NEW c \in Configs \cup {None}
            PROVE  [loaded EXCEPT ![l][n] = c] \in [Loaders -> [Names -> Configs \cup {None}]]
        BY <3>1
      <3>3. CASE dir[First(todo[l])] \in Valid
        BY <1>5, <2>2, <3>2, <3>3 DEF LoadOne
      <3>4. CASE dir[First(todo[l])] \notin Valid
        BY <1>5, <3>1, <3>4 DEF LoadOne
      <3>5. QED
        BY <3>3, <3>4
    <2>4. todo' \in [Loaders -> SUBSET Names]
      BY <1>5 DEF LoadOne, TypeOK
    <2>5. QED
      BY <1>5, <2>3, <2>4 DEF LoadOne, TypeOK, diskVars, reqVars
  <1>6. CASE Assign(l)
    <2>1. /\ pc' \in [Loaders -> {"idle", "done", "lost", "select"} \cup Running]
          /\ pc'[watcher] \in {"select"} \cup Reloading
      <3>1. CASE l = watcher
        BY <1>1, <1>6, <3>1 DEF Assign
      <3>2. CASE l # watcher
        BY <1>1, <1>6, <3>2 DEF Assign
      <3>3. QED
        BY <3>1, <3>2
    <2>2. /\ loaded' \in [Loaders -> [Names -> Configs \cup {None}]]
          /\ services' \in [Names -> Configs \cup {None}]
          /\ missed' \in BOOLEAN
      BY <1>6, ConstantTypes DEF Assign, TypeOK
    <2>3. /\ disturbed' \in [Requests -> BOOLEAN]
          /\ behind' \in [Requests -> SUBSET Loaders]
      BY <1>6 DEF Assign, TypeOK
    <2>4. QED
      BY <1>6, <2>1, <2>2, <2>3 DEF Assign, TypeOK, diskVars
  <1>7. QED
    BY <1>3, <1>4, <1>5, <1>6 DEF Reload

LEMMA HandlerType ==
    ASSUME TypeOK, NEW r \in Requests, Handler(r)
    PROVE  TypeOK'
  <1> DEFINE PcType == /\ pc' \in [Loaders -> {"idle", "done", "lost", "select"} \cup Running]
                       /\ pc'[watcher] \in {"select"} \cup Reloading
             StatusType == status' \in [Requests -> {0, 200, 204, 400, 404, 409, 500}]
  <1>1. ASSUME NEW label \in Running, Proceed(r, label)
        PROVE  PcType /\ StatusType
    BY <1>1, ConstantTypes DEF TypeOK, Goto, Proceed
  <1>2. ASSUME NEW code \in {200, 204, 400, 404, 409, 500}, Answer(r, code)
        PROVE  PcType /\ StatusType
    BY <1>2, ConstantTypes DEF TypeOK, Goto, Answer
  <1>3. ASSUME NEW n \in Names, Disturb(r, n)
        PROVE  disturbed' \in [Requests -> BOOLEAN]
    BY <1>3 DEF Disturb, TypeOK
  <1> DEFINE BehindType == behind' \in [Requests -> SUBSET Loaders]
  <1>3a. LeaveBehind(r) \/ UNCHANGED behind => BehindType
    BY DEF LeaveBehind, TypeOK
  <1>4. CASE Begin(r)
    <2>1. FirstStep(r) \in Running
      BY DEF FirstStep, Running
    <2>2. PcType /\ StatusType
      BY <1>1, <1>2, <1>4, <2>1 DEF Begin
    <2>3. QED
      BY <1>4, <2>2 DEF Begin, TypeOK, diskVars
  <1>5. ASSUME r \in Provisions, Provision(r)
        PROVE  TypeOK'
    <2>1. CASE VerifyArtifact(r)
      <3>1. PcType /\ StatusType
        BY <1>1, <1>2, <2>1 DEF VerifyArtifact, Running
      <3>2. QED
        BY <2>1, <3>1 DEF VerifyArtifact, TypeOK, diskVars
    <2>2. CASE ReadStaged(r)
      <3>1. PcType /\ StatusType
        BY <1>1, <1>2, <2>2 DEF ReadStaged, Running
      <3>2. held' \in [Provisions -> Artifacts \cup {None}]
        <4>1. staged[StagedPath[r]] \in Artifacts \cup {None}
          BY <1>5, ConstantTypes DEF TypeOK
        <4>2. QED
          BY <1>5, <2>2, <4>1 DEF ReadStaged, TypeOK
      <3>3. QED
        BY <2>2, <3>1, <3>2 DEF ReadStaged, TypeOK, diskVars
    <2>3. CASE WriteArtifact(r)
      <3>1. PcType /\ StatusType
        BY <1>1, <1>2, <2>3 DEF WriteArtifact, Running
      <3>2. disturbed' \in [Requests -> BOOLEAN]
        BY <1>3, <2>3, ConstantTypes DEF WriteArtifact, TypeOK
      <3>3. /\ held' \in [Provisions -> Artifacts \cup {None}]
            /\ artifact' \in [Names -> Artifacts \cup {None}]
        <4>1. held[r] \in Artifacts \cup {None} /\ Target[r] \in Names
          BY <1>5, ConstantTypes DEF TypeOK
        <4>2. QED
          BY <1>5, <2>3, <4>1 DEF WriteArtifact, TypeOK
      <3>4. QED
        BY <2>3, <3>1, <3>2, <3>3 DEF WriteArtifact, TypeOK
    <2>4. CASE WriteMeta(r)
      <3>1. PcType /\ StatusType
        BY <1>1, <1>2, <2>4 DEF WriteMeta, Running
      <3>2. disturbed' \in [Requests -> BOOLEAN]
        BY <1>3, <2>4, ConstantTypes DEF WriteMeta, TypeOK
      <3>3. meta' \in [Names -> Artifacts \cup {None}]
        <4>1. meta \in [Names -> Artifacts \cup {None}] /\ Hash[r] \in Artifacts
          BY <1>5, ConstantTypes DEF TypeOK
        <4>2. QED
          BY <2>4, <4>1 DEF WriteMeta
      <3>4. QED
        BY <2>4, <3>1, <3>2, <3>3 DEF WriteMeta, TypeOK
    <2>5. QED
      BY <1>5, <2>1, <2>2, <2>3, <2>4 DEF Provision
  <1>6. ASSUME r \in Pushes \cup Provisions, WriteService(r)
        PROVE  TypeOK'
    <2>1. PcType /\ StatusType /\ BehindType
      BY <1>1, <1>2, <1>6, <1>3a DEF WriteService, WriteFailure, Running, Written, Reloading
    <2>2. disturbed' \in [Requests -> BOOLEAN]
      BY <1>3, <1>6, ConstantTypes DEF WriteService, TypeOK
    <2>3. [name |-> Target[r], config |-> r] \in Valid
      BY <1>6, ConstantTypes DEF Valid, Configs
    <2>4. dir' \in [Names -> Valid \cup {None, Broken}] /\ events' \in Nat
      <3>1. ASSUME NEW c \in Valid, FileBecomes(Target[r], c)
            PROVE  dir' \in [Names -> Valid \cup {None, Broken}] /\ events' \in Nat
        <4>1. dir \in [Names -> Valid \cup {None, Broken}] /\ events \in Nat
          BY DEF TypeOK
        <4>2. QED
          BY <3>1, <4>1, ConstantTypes DEF FileBecomes
      <3>2. QED
        BY <1>6, <2>3, <3>1 DEF WriteService, TypeOK
    <2>5. QED
      BY <1>6, <2>1, <2>2, <2>4 DEF WriteService, TypeOK, diskVars
  <1>7. CASE RemoveFile(r)
    <2>1. PcType /\ StatusType /\ BehindType
      BY <1>1, <1>2, <1>7, <1>3a DEF RemoveFile, Running, Written, Reloading
    <2>2. disturbed' \in [Requests -> BOOLEAN]
      BY <1>3, <1>7, ConstantTypes DEF RemoveFile, TypeOK
    <2>3. dir' \in [Names -> Valid \cup {None, Broken}] /\ events' \in Nat
      <3>1. CASE FileBecomes(Target[r], None)
        <4>1. dir \in [Names -> Valid \cup {None, Broken}] /\ events \in Nat
          BY DEF TypeOK
        <4>2. QED
          BY <3>1, <4>1, ConstantTypes DEF FileBecomes
      <3>2. CASE UNCHANGED <<dir, events>>
        BY <3>2 DEF TypeOK
      <3>3. QED
        BY <1>7, <3>1, <3>2 DEF RemoveFile
    <2>4. QED
      BY <1>7, <2>1, <2>2, <2>3 DEF RemoveFile, TypeOK, diskVars
  <1>8. CASE AnswerSuccess(r)
    <2>1. PcType /\ StatusType
      BY <1>2, <1>8 DEF AnswerSuccess
    <2>2. QED
      BY <1>8, <2>1 DEF AnswerSuccess, TypeOK, diskVars
  <1>9. QED
    BY <1>4, <1>5, <1>6, <1>7, <1>8, ReloadType, ConstantTypes DEF Handler

-----------------------------------------------------------------------------
(* Every step of Next, and stuttering, keeps the types.                    *)
LEMMA NextType ==
    ASSUME TypeOK, [Next]_vars
    PROVE  TypeOK'
  <1>1. CASE UNCHANGED vars
    BY <1>1 DEF vars, TypeOK
  <1>2. CASE Idle
    BY <1>1, <1>2 DEF Idle
  <1>3. CASE Watcher
    BY <1>3, OutsideType, ReloadType, ConstantTypes DEF Watcher
  <1>4. QED
    BY <1>1, <1>2, <1>3, OutsideType, HandlerType DEF Next

(***************************************************************************)
(* Type correctness of the registry and of the requests, for any number of *)
(* services and requests.                                                  *)
(***************************************************************************)
THEOREM RegistryTypeCorrect == Spec => []TypeOK
  <1>1. Init => TypeOK
    BY InitType
  <1>2. TypeOK /\ [Next]_vars => TypeOK'
    BY NextType
  <1>3. QED
    BY <1>1, <1>2, PTL DEF Spec

-----------------------------------------------------------------------------
(* An artifact or metadata once written is replaced but never taken away.  *)
LEMMA Kept ==
    ASSUME TypeOK, WritesInOrder, [Next]_vars, NEW n \in Names
    PROVE  /\ artifact[n] # None => artifact'[n] # None
           /\ meta[n] # None => meta'[n] # None
  <1>1. CASE UNCHANGED <<artifact, meta>>
    BY <1>1
  <1>2. ASSUME NEW r \in Provisions, WriteArtifact(r)
        PROVE  /\ artifact[n] # None => artifact'[n] # None
               /\ UNCHANGED meta
    BY <1>2 DEF WriteArtifact, WritesInOrder, TypeOK
  <1>3. ASSUME NEW r \in Provisions, WriteMeta(r)
        PROVE  /\ meta[n] # None => meta'[n] # None
               /\ UNCHANGED artifact
    BY <1>3, ConstantTypes, RegistryAssumption DEF WriteMeta, TypeOK
  <1>4. \A l \in Loaders : Reload(l) => UNCHANGED <<artifact, meta>>
    BY DEF Reload, ListFiles, ListFails, LoadOne, Assign, diskVars
  <1>5. ASSUME NEW r \in Requests, Handler(r)
        PROVE  \/ UNCHANGED <<artifact, meta>>
               \/ r \in Provisions /\ (WriteArtifact(r) \/ WriteMeta(r))
    BY <1>4, <1>5, ConstantTypes
       DEF Handler, Provision, Begin, WriteService, RemoveFile, VerifyArtifact, ReadStaged,
           AnswerSuccess, diskVars
  <1>6. Watcher \/ Fire \/ Restart \/ Idle \/ UNCHANGED vars => UNCHANGED <<artifact, meta>>
    BY <1>4, ConstantTypes DEF Watcher, TakeEvent, TakeTimer, Fire, Restart, Idle, diskVars, vars
  <1>7. QED
    BY <1>1, <1>2, <1>3, <1>5, <1>6 DEF Next, Edit, Stage, diskVars

(* What LoadDir makes of files that are backed is backed.                  *)
LEMMA LoadDirBacked ==
    ASSUME TypeOK, FilesBacked, NEW n \in Names, LoadDir(dir)[n] \in Provisions
    PROVE  Backed(n)
  <1>1. None \notin Provisions
    BY RegistryAssumption DEF Configs
  <1>2. Empty[n] = None
    BY DEF Empty
  <1>3. PICK f \in Definers(dir, n) : LoadDir(dir)[n] = dir[f].config
    BY <1>1, <1>2, FinishFrom DEF LoadDir
  <1>4. QED
    BY <1>3 DEF FilesBacked, Definers

LEMMA InitBacked == Init => BackedInv
  <1> SUFFICES ASSUME Init
               PROVE  BackedInv
    OBVIOUS
  <1>1. TypeOK
    BY InitType
  <1>2. WritesInOrder
    BY ConstantTypes DEF Init, WritesInOrder
  <1>3. FilesBacked
    <2>1. \A f \in Names : dir[f] = None \/ dir[f].config \in HandMade
      BY DEF Init
    <2>2. None \notin Valid /\ HandMade \cap Provisions = {}
      BY RegistryAssumption DEF Requests
    <2>3. QED
      BY <2>1, <2>2 DEF FilesBacked
  <1>4. LoadedBacked
    <2>1. \A n \in Names : services[n] \in Provisions => Backed(n)
      BY <1>1, <1>3, LoadDirBacked DEF Init
    <2>2. \A n \in Names, l \in Loaders : loaded[l][n] \notin Provisions
      BY RegistryAssumption DEF Init, Empty, Configs
    <2>3. QED
      BY <2>1, <2>2 DEF LoadedBacked
  <1>5. QED
    BY <1>1, <1>2, <1>3, <1>4 DEF BackedInv

(* The requests proceed from write to write only when the last was done.   *)
LEMMA WritesInOrderKept ==
    ASSUME BackedInv, Next, TypeOK'
    PROVE  WritesInOrder'
  <1> USE DEF BackedInv
  <1>1. \A n \in Names : /\ artifact[n] # None => artifact'[n] # None
                         /\ meta[n] # None => meta'[n] # None
    BY Kept
  <1>2. ASSUME NEW l \in Loaders, NEW label, Goto(l, label), UNCHANGED held,
               l \in Provisions => label \notin {"artifact", "meta", "write"}
        PROVE  WritesInOrder'
    BY <1>1, <1>2, ConstantTypes DEF Goto, WritesInOrder, Backed, TypeOK
  <1>3. CASE UNCHANGED <<pc, held>>
    BY <1>1, <1>3, ConstantTypes DEF WritesInOrder, Backed
  <1>4. ASSUME NEW l \in Loaders, Reload(l)
        PROVE  WritesInOrder'
    BY <1>2, <1>3, <1>4
       DEF Reload, ListFiles, ListFails, LoadOne, Assign, reqVars, Answer
  <1>5. ASSUME NEW r \in Requests, Begin(r)
        PROVE  WritesInOrder'
    <2>1. r \in Provisions => FirstStep(r) = "verify"
      BY RegistryAssumption DEF FirstStep
    <2>2. QED
      BY <1>2, <1>5, <2>1, ConstantTypes DEF Begin, Answer, Proceed
  <1>6. ASSUME NEW r \in Requests, WriteService(r) \/ RemoveFile(r) \/ AnswerSuccess(r)
        PROVE  WritesInOrder'
    BY <1>2, <1>6, ConstantTypes DEF WriteService, RemoveFile, AnswerSuccess, Answer, Proceed
  <1>7. ASSUME NEW r \in Provisions, VerifyArtifact(r)
        PROVE  WritesInOrder'
    BY <1>2, <1>7, ConstantTypes DEF VerifyArtifact, Answer, Proceed
  <1>8. ASSUME NEW r \in Provisions, NEW label, Goto(r, label),
               \A q \in Provisions : q # r => held'[q] = held[q],
               label = "artifact" => held'[r] # None,
               label = "meta" => artifact'[Target[r]] # None,
               label = "write" => Backed(Target[r])'
        PROVE  WritesInOrder'
    BY <1>1, <1>8, ConstantTypes DEF Goto, WritesInOrder, Backed, TypeOK
  <1>9. ASSUME NEW r \in Provisions, ReadStaged(r)
        PROVE  WritesInOrder'
    <2>1. \A q \in Provisions : q # r => held'[q] = held[q]
      BY <1>9 DEF ReadStaged, TypeOK
    <2>2. CASE Answer(r, 400)
      <3>1. Goto(r, "done")
        BY <2>2 DEF Answer
      <3>2. QED
        BY <1>8, <2>1, <3>1
    <2>3. CASE Proceed(r, "artifact") /\ held'[r] # None
      <3>1. Goto(r, "artifact")
        BY <2>3 DEF Proceed
      <3>2. QED
        BY <1>8, <2>1, <2>3, <3>1
    <2>4. QED
      BY <1>9, <2>2, <2>3 DEF ReadStaged, TypeOK
  <1>10. ASSUME NEW r \in Provisions, WriteArtifact(r)
         PROVE  WritesInOrder'
    <2>1. \A q \in Provisions : q # r => held'[q] = held[q]
      BY <1>10 DEF WriteArtifact, TypeOK
    <2>2. CASE Answer(r, 400)
      <3>1. Goto(r, "done")
        BY <2>2 DEF Answer
      <3>2. QED
        BY <1>8, <2>1, <3>1
    <2>3. CASE Proceed(r, "meta") /\ artifact' = [artifact EXCEPT ![Target[r]] = held[r]]
      <3>1. Goto(r, "meta")
        BY <2>3 DEF Proceed
      <3>2. artifact'[Target[r]] # None
        BY <1>10, <2>3, ConstantTypes DEF WriteArtifact, WritesInOrder, TypeOK
      <3>3. QED
        BY <1>8, <2>1, <3>1, <3>2
    <2>4. QED
      BY <1>10, <2>2, <2>3 DEF WriteArtifact
  <1>11. ASSUME NEW r \in Provisions, WriteMeta(r)
         PROVE  WritesInOrder'
    <2>1. \A q \in Provisions : q # r => held'[q] = held[q]
      BY <1>11 DEF WriteMeta
    <2>2. CASE Answer(r, 400)
      <3>1. Goto(r, "done")
        BY <2>2 DEF Answer
      <3>2. QED
        BY <1>8, <2>1, <3>1
    <2>3. CASE Proceed(r, "write") /\ meta' = [meta EXCEPT ![Target[r]] = Hash[r]]
      <3>1. Goto(r, "write")
        BY <2>3 DEF Proceed
      <3>2. artifact'[Target[r]] # None
        BY <1>1, <1>11, ConstantTypes DEF WriteMeta, WritesInOrder
      <3>3. meta'[Target[r]] # None
        BY <2>3, ConstantTypes, RegistryAssumption DEF TypeOK
      <3>4. QED
        BY <1>8, <2>1, <3>1, <3>2, <3>3 DEF Backed
    <2>4. QED
      BY <1>11, <2>2, <2>3 DEF WriteMeta
  <1>12. CASE Watcher
    BY <1>2, <1>3, <1>4, <1>12, ConstantTypes, RegistryAssumption DEF Watcher, TakeEvent, TakeTimer, reqVars
  <1>13. CASE Restart
    BY <1>13, ConstantTypes DEF Restart, WritesInOrder, Running
  <1>14. CASE Fire \/ Idle
    BY <1>3, <1>14 DEF Fire, Idle, vars, reqVars
  <1>15. ASSUME NEW r \in Requests, Handler(r)
         PROVE  WritesInOrder'
    BY <1>4, <1>5, <1>6, <1>7, <1>9, <1>10, <1>11, <1>15, ConstantTypes DEF Handler, Provision
  <1>16. QED
    BY <1>3, <1>12, <1>13, <1>14, <1>15 DEF Next, Edit, Stage

(* A service file is only written by who may.                              *)
LEMMA FilesBackedKept ==
    ASSUME BackedInv, Next
    PROVE  FilesBacked'
  <1> USE DEF BackedInv
  <1>1. \A n \in Names : Backed(n) => Backed(n)'
    BY Kept DEF Backed
  <1>2. CASE UNCHANGED dir
    BY <1>1, <1>2 DEF FilesBacked
  <1>3. ASSUME NEW n \in Names, NEW c, FileBecomes(n, c),
               c \in Valid /\ c.config \in Provisions => c.name = n /\ Backed(n)
        PROVE  FilesBacked'
    BY <1>1, <1>3 DEF FileBecomes, FilesBacked, TypeOK
  <1>4. ASSUME NEW n \in Names, NEW c \in {None, Broken} \cup {v \in Valid : v.config \in HandMade},
               Edit(n, c)
        PROVE  FilesBacked'
    <2>1. ~ (c \in Valid /\ c.config \in Provisions)
      BY RegistryAssumption DEF Requests
    <2>2. QED
      BY <1>3, <1>4, <2>1 DEF Edit
  <1>5. \A l \in Loaders : Reload(l) => UNCHANGED dir
    BY DEF Reload, ListFiles, ListFails, LoadOne, Assign
  <1>6. ASSUME NEW r \in Requests, WriteService(r)
        PROVE  FilesBacked'
    <2>1. r \in Provisions => Backed(Target[r])
      BY <1>6 DEF WriteService, WritesInOrder
    <2>2. QED
      BY <1>2, <1>3, <1>6, <2>1, ConstantTypes DEF WriteService
  <1>7. ASSUME NEW r \in Requests, RemoveFile(r)
        PROVE  FilesBacked'
    BY <1>2, <1>3, <1>7, ConstantTypes, RegistryAssumption DEF RemoveFile
  <1>8. ASSUME NEW r \in Requests, Handler(r)
        PROVE  FilesBacked'
    BY <1>2, <1>5, <1>6, <1>7, <1>8, ConstantTypes
       DEF Handler, Begin, Provision, VerifyArtifact, ReadStaged, WriteArtifact, WriteMeta,
           AnswerSuccess
  <1>9. CASE Watcher \/ Fire \/ Restart \/ Idle
    BY <1>2, <1>5, <1>9, ConstantTypes DEF Watcher, TakeEvent, TakeTimer, Fire, Restart, Idle, vars
  <1>10. QED
    BY <1>2, <1>4, <1>8, <1>9 DEF Next, Stage

(* A reload takes over what the files define.                              *)
LEMMA LoadedBackedKept ==
    ASSUME BackedInv, Next
    PROVE  LoadedBacked'
  <1> USE DEF BackedInv
  <1>1. \A n \in Names : Backed(n) => Backed(n)'
    BY Kept DEF Backed
  <1>2. CASE UNCHANGED <<services, loaded>>
    BY <1>1, <1>2 DEF LoadedBacked
  <1>3. \A n \in Names : Empty[n] \notin Provisions
    BY RegistryAssumption DEF Empty, Configs
  <1>4. ASSUME NEW l \in Loaders, LoadOne(l)
        PROVE  LoadedBacked'
    <2> DEFINE f == First(todo[l])
    <2>1. f \in Names
      BY <1>4, FirstIn DEF LoadOne, TypeOK
    <2> HIDE DEF f
    <2>2. CASE dir[f] \in Valid
      <3>1. loaded' = [loaded EXCEPT ![l][dir[f].name] = dir[f].config]
        BY <1>4, <2>2 DEF LoadOne, f
      <3>2. dir[f].config \in Provisions => Backed(dir[f].name)
        BY <2>1, <2>2 DEF FilesBacked
      <3>3. ASSUME NEW n \in Names, NEW k \in Loaders, loaded'[k][n] \in Provisions
            PROVE  Backed(n)
        <4>1. CASE k = l /\ n = dir[f].name
          BY <3>1, <3>2, <3>3, <4>1 DEF TypeOK
        <4>2. CASE ~ (k = l /\ n = dir[f].name)
          BY <3>1, <3>3, <4>2 DEF TypeOK, LoadedBacked
        <4>3. QED
          BY <4>1, <4>2
      <3>4. QED
        BY <1>1, <1>4, <3>3 DEF LoadedBacked, LoadOne
    <2>3. CASE dir[f] \notin Valid
      BY <1>2, <1>4, <2>3 DEF LoadOne, f
    <2>4. QED
      BY <2>2, <2>3
  <1>5. ASSUME NEW l \in Loaders, Assign(l)
        PROVE  LoadedBacked'
    BY <1>1, <1>3, <1>5 DEF Assign, LoadedBacked, TypeOK
  <1>6. ASSUME NEW l \in Loaders, Reload(l)
        PROVE  LoadedBacked'
    BY <1>2, <1>4, <1>5, <1>6 DEF Reload, ListFiles, ListFails
  <1>7. CASE Restart
    <2>1. \A n \in Names : services'[n] \in Provisions => Backed(n)
      BY <1>7, LoadDirBacked DEF Restart
    <2>2. QED
      BY <1>1, <1>3, <1>7, <2>1 DEF Restart, LoadedBacked
  <1>8. ASSUME NEW r \in Requests, Handler(r)
        PROVE  LoadedBacked'
    BY <1>2, <1>6, <1>8, ConstantTypes
       DEF Handler, Begin, Provision, VerifyArtifact, ReadStaged, WriteArtifact, WriteMeta,
           WriteService, RemoveFile, AnswerSuccess
  <1>9. CASE Watcher \/ Fire \/ Idle
    BY <1>2, <1>6, <1>9, ConstantTypes DEF Watcher, TakeEvent, TakeTimer, Fire, Idle, vars
  <1>10. QED
    BY <1>2, <1>7, <1>8, <1>9 DEF Next, Edit, Stage

(***************************************************************************)
(* A provisioned service is defined in services.d, or listed, only when    *)
(* its artifact and metadata are on disk, whatever fails, wherever the     *)
(* daemon dies and however the requests and reloads interleave.            *)
(***************************************************************************)
THEOREM ProvisionedBackedHolds == Spec => []ProvisionedBacked
  <1>1. Init => BackedInv
    BY InitBacked
  <1>2. BackedInv /\ [Next]_vars => BackedInv'
    <2> SUFFICES ASSUME BackedInv, [Next]_vars
                 PROVE  BackedInv'
      OBVIOUS
    <2>1. TypeOK'
      BY NextType DEF BackedInv
    <2>2. CASE Next
      BY <2>1, <2>2, WritesInOrderKept, FilesBackedKept, LoadedBackedKept DEF BackedInv
    <2>3. CASE UNCHANGED vars
      BY <2>1, <2>3 DEF vars, BackedInv, WritesInOrder, FilesBacked, LoadedBacked, Backed
    <2>4. QED
      BY <2>2, <2>3
  <1>3. BackedInv => ProvisionedBacked
    BY DEF BackedInv, FilesBacked, LoadedBacked, ProvisionedBacked
  <1>4. QED
    BY <1>1, <1>2, <1>3, PTL DEF Spec

-----------------------------------------------------------------------------
(* Whoever changes the directory leaves an event.                          *)
LEMMA ChangeFresh ==
    ASSUME FreshInv, TypeOK', events' = events + 1,
           UNCHANGED <<timer, loaded, todo>>, pc'[watcher] = pc[watcher]
    PROVE  FreshInv'
  <1>1. events' > 0
    BY DEF FreshInv, TypeOK
  <1>2. QED
    BY <1>1 DEF FreshInv, ChangesOnTheirWay, OnItsWay, StaleReadFollowed

(* Who changes nothing of the registry keeps the invariant.                *)
LEMMA UnchangedFresh ==
    ASSUME FreshInv, TypeOK',
           UNCHANGED <<dir, services, events, timer, missed>>,
           pc'[watcher] = pc[watcher],
           loaded'[watcher] = loaded[watcher], todo'[watcher] = todo[watcher]
    PROVE  FreshInv'
  BY DEF FreshInv, ChangesOnTheirWay, OnItsWay, StaleReadFollowed

(* The watcher goroutine: an event becomes an armed timer, the timer a     *)
(* reload, and the reload, unless it is followed, what LoadDir returns.    *)
LEMMA WatcherFresh ==
    ASSUME FreshInv, TypeOK', Watcher \/ Fire
    PROVE  FreshInv'
  <1> USE DEF FreshInv
  <1>1. CASE TakeEvent \/ Fire
    BY <1>1 DEF TakeEvent, Fire, ChangesOnTheirWay, OnItsWay, StaleReadFollowed
  <1>2. CASE TakeTimer
    <2>1. pc'[watcher] = "list"
      BY <1>2, ConstantTypes DEF TakeTimer, Goto, TypeOK
    <2>2. QED
      BY <1>2, <2>1 DEF TakeTimer, ChangesOnTheirWay, OnItsWay, StaleReadFollowed
  <1>3. CASE ListFiles(watcher)
    <2>1. /\ pc'[watcher] = "files"
          /\ todo'[watcher] = {f \in Names : dir[f] # None}
          /\ loaded'[watcher] = Empty
      BY <1>3, ConstantTypes DEF ListFiles, Goto, TypeOK, StaleReadFollowed
    <2>2. Finish(Empty, {f \in Names : dir[f] # None}, dir) = LoadDir(dir)
      BY FinishListed
    <2>3. QED
      BY <1>3, <2>1, <2>2 DEF ListFiles, ChangesOnTheirWay, OnItsWay, StaleReadFollowed
  <1>4. CASE ListFails(watcher)
    <2>1. pc'[watcher] = "select" /\ missed'
      BY <1>4, ConstantTypes DEF ListFails, Goto, TypeOK
    <2>2. QED
      BY <1>4, <2>1 DEF ListFails, ChangesOnTheirWay, StaleReadFollowed
  <1>5. CASE LoadOne(watcher)
    <2> DEFINE t == todo[watcher]
               m == loaded[watcher]
               k == IF dir[First(t)] \in Valid
                    THEN [m EXCEPT ![dir[First(t)].name] = dir[First(t)].config] ELSE m
    <2>1. loaded'[watcher] = k /\ todo'[watcher] = t \ {First(t)}
      BY <1>5, ConstantTypes DEF LoadOne, TypeOK
    <2>2. t \in SUBSET Names /\ m \in [Names -> Configs \cup {None}] /\ dir \in [Names -> Contents]
      BY ConstantTypes DEF TypeOK, Contents
    <2>3. t # {}
      BY <1>5 DEF LoadOne
    <2>4. Finish(k, t \ {First(t)}, dir) = Finish(m, t, dir)
      <3> HIDE DEF t, m
      <3>1. QED
        BY <2>2, <2>3, FinishStep
    <2>5. QED
      BY <1>5, <2>1, <2>4 DEF LoadOne, ChangesOnTheirWay, OnItsWay, StaleReadFollowed
  <1>6. CASE Assign(watcher)
    <2>1. pc'[watcher] = "select" /\ loaded'[watcher] = Empty
      BY <1>6, ConstantTypes DEF Assign, Goto, TypeOK
    <2>2. Finish(loaded[watcher], todo[watcher], dir) = loaded[watcher]
      BY <1>6, FinishNone, ConstantTypes DEF Assign, TypeOK
    <2>3. services' = LoadDir(dir) \/ events' > 0 \/ timer' # "off"
      BY <1>6, <2>2 DEF Assign, StaleReadFollowed, TypeOK
    <2>4. QED
      BY <1>6, <2>1, <2>3 DEF Assign, ChangesOnTheirWay, OnItsWay, StaleReadFollowed
  <1>7. QED
    BY <1>1, <1>2, <1>3, <1>4, <1>5, <1>6 DEF Watcher, Reload

(* The requests: their writes leave events, and their reloads either       *)
(* assign what the directory holds or count as missed.                     *)
LEMMA HandlerFresh ==
    ASSUME FreshInv, TypeOK', NEW r \in Requests, Handler(r)
    PROVE  FreshInv'
  <1> USE DEF FreshInv
  <1>1. r \in Loaders /\ r # watcher
    BY ConstantTypes
  <1>2. \A label : Goto(r, label) => pc'[watcher] = pc[watcher]
    BY <1>1, ConstantTypes DEF Goto, TypeOK
  <1>3. CASE Begin(r) \/ (r \in Provisions /\ Provision(r)) \/ AnswerSuccess(r)
    BY <1>2, <1>3, UnchangedFresh
       DEF Begin, Provision, VerifyArtifact, ReadStaged, WriteArtifact, WriteMeta, AnswerSuccess,
           Answer, Proceed
  <1>4. CASE WriteService(r) \/ RemoveFile(r)
    <2>1. pc'[watcher] = pc[watcher]
      BY <1>2, <1>4 DEF WriteService, RemoveFile, Answer, Proceed
    <2>2. CASE events' = events + 1
      BY <1>4, <2>1, <2>2, ChangeFresh DEF WriteService, RemoveFile
    <2>3. CASE UNCHANGED <<dir, events>>
      BY <1>4, <2>1, <2>3, UnchangedFresh DEF WriteService, RemoveFile
    <2>4. QED
      BY <1>4, <2>2, <2>3 DEF WriteService, RemoveFile, FileBecomes
  <1>5. CASE ListFiles(r) \/ ListFails(r) \/ LoadOne(r)
    <2>1. pc'[watcher] = pc[watcher]
      BY <1>1, <1>2, <1>5 DEF ListFiles, ListFails, LoadOne, Answer
    <2>2. loaded'[watcher] = loaded[watcher] /\ todo'[watcher] = todo[watcher]
      BY <1>1, <1>5, ConstantTypes DEF ListFiles, ListFails, LoadOne, TypeOK
    <2>3. QED
      BY <1>1, <1>5, <2>1, <2>2, UnchangedFresh DEF ListFiles, ListFails, LoadOne
  <1>6. CASE Assign(r)
    <2>1. pc'[watcher] = pc[watcher]
      BY <1>1, <1>2, <1>6 DEF Assign, Answer
    <2>2. loaded'[watcher] = loaded[watcher]
      BY <1>1, <1>6, ConstantTypes DEF Assign, TypeOK
    <2>3. ~missed' => services' = LoadDir(dir)
      BY <1>1, <1>6 DEF Assign
    <2>4. QED
      BY <1>6, <2>1, <2>2, <2>3 DEF Assign, ChangesOnTheirWay, OnItsWay, StaleReadFollowed
  <1>7. QED
    BY <1>3, <1>4, <1>5, <1>6 DEF Handler, Reload

(***************************************************************************)
(* No change of services.d is forgotten, however reloads, writes and       *)
(* restarts interleave: the map is what LoadDir makes of the directory or  *)
(* the watcher will reload, unless the last reload was missed.             *)
(***************************************************************************)
THEOREM ChangesOnTheirWayHolds == Spec => []ChangesOnTheirWay
  <1>1. Init => FreshInv
    <2> SUFFICES ASSUME Init
                 PROVE  FreshInv
      OBVIOUS
    <2>1. TypeOK
      BY InitType
    <2>2. services = LoadDir(dir)
      BY DEF Init
    <2>3. pc[watcher] = "select" /\ loaded[watcher] = Empty
      BY ConstantTypes DEF Init
    <2>4. QED
      BY <2>1, <2>2, <2>3 DEF FreshInv, ChangesOnTheirWay, StaleReadFollowed
  <1>2. FreshInv /\ [Next]_vars => FreshInv'
    <2> SUFFICES ASSUME FreshInv, [Next]_vars
                 PROVE  FreshInv'
      OBVIOUS
    <2>1. TypeOK'
      BY NextType DEF FreshInv
    <2>2. ASSUME NEW n, NEW c, Edit(n, c)
          PROVE  FreshInv'
      BY <2>1, <2>2, ChangeFresh DEF Edit, FileBecomes
    <2>3. ASSUME NEW p, NEW a, Stage(p, a)
          PROVE  FreshInv'
      BY <2>1, <2>3, UnchangedFresh DEF Stage
    <2>4. CASE UNCHANGED vars
      BY <2>1, <2>4, UnchangedFresh DEF vars
    <2>5. CASE Restart
      <3>1. pc'[watcher] = "select" /\ loaded'[watcher] = Empty
        BY <2>5, ConstantTypes DEF Restart
      <3>2. services' = LoadDir(dir)' /\ UNCHANGED dir
        BY <2>5 DEF Restart
      <3>3. QED
        BY <2>1, <3>1, <3>2 DEF FreshInv, ChangesOnTheirWay, StaleReadFollowed
    <2>6. QED
      BY <2>1, <2>2, <2>3, <2>4, <2>5, WatcherFresh, HandlerFresh DEF Next, Idle
  <1>3. FreshInv => ChangesOnTheirWay
    BY DEF FreshInv
  <1>4. QED
    BY <1>1, <1>2, <1>3, PTL DEF Spec

-----------------------------------------------------------------------------
(* The end of a reload depends on the files that define the service only.  *)
LEMMA FinishSame ==
    ASSUME NEW c, NEW d, NEW m, NEW t \in SUBSET Names, NEW n \in Names,
           Definers(c, n) = Definers(d, n),
           \A f \in Definers(d, n) : c[f] = d[f]
    PROVE  Finish(m, t, c)[n] = Finish(m, t, d)[n]
  <1>1. CASE Definers(d, n) \cap t = {}
    BY <1>1 DEF Finish
  <1>2. CASE Definers(d, n) \cap t # {}
    <2>1. Last(Definers(d, n) \cap t) \in Definers(d, n)
      BY <1>2, LastIn DEF Definers
    <2>2. QED
      BY <1>2, <2>1 DEF Finish
  <1>3. QED
    BY <1>1, <1>2

(* What may not change under a request that is not disturbed.              *)
SameWork(r) ==
    /\ dir'[Target[r]] = dir[Target[r]]
    /\ Definers(dir', Target[r]) = Definers(dir, Target[r])
    /\ \A f \in Definers(dir, Target[r]) : dir'[f] = dir[f]
    /\ r \in Provisions =>
           /\ staged'[StagedPath[r]] = staged[StagedPath[r]]
           /\ artifact'[Target[r]] = artifact[Target[r]]
           /\ meta'[Target[r]] = meta[Target[r]]

(* A request that takes no step, while nobody's reload does.               *)
LEMMA OthersServed ==
    ASSUME ServedInv, NEW r \in Requests,
           pc'[r] = pc[r], UNCHANGED <<loaded, todo, services>>,
           \A l \in Loaders : pc'[l] = "files" => pc[l] = "files",
           behind'[r] = behind[r],
           r \in Provisions => held'[r] = held[r],
           disturbed[r] => disturbed'[r],
           ~disturbed'[r] /\ pc[r] \in Running => SameWork(r)
    PROVE  Undisturbed(r)'
  <1>1. Target[r] \in Names /\ \A l \in Loaders : todo[l] \in SUBSET Names
    BY ConstantTypes DEF ServedInv, TypeOK
  <1>2. Undisturbed(r)
    BY DEF ServedInv
  <1>3. CASE disturbed'[r] \/ pc[r] \notin Running
    BY <1>2, <1>3 DEF Undisturbed, WorkKept, WillBeServed, Running, Written, Reloading
  <1>4. CASE ~disturbed'[r] /\ pc[r] \in Running
    <2>1. SameWork(r) /\ WorkKept(r) /\ WillBeServed(r)
      BY <1>2, <1>4 DEF Undisturbed
    <2>2. WorkKept(r)'
      BY <2>1 DEF WorkKept, SameWork, MadeOf
    <2>3. ASSUME NEW l \in Loaders, FindsIt(l, r)
          PROVE  FindsIt(l, r)'
      <3>1. Finish(loaded[l], todo[l], dir')[Target[r]] = Finish(loaded[l], todo[l], dir)[Target[r]]
        BY <1>1, <2>1, <2>3, FinishSame DEF SameWork
      <3>2. QED
        BY <2>3, <3>1 DEF FindsIt, Meant
    <2>4. WillBeServed(r)'
      BY <2>1, <2>3 DEF WillBeServed, SameWork, Meant
    <2>5. QED
      BY <2>2, <2>4 DEF Undisturbed
  <1>5. QED
    BY <1>3, <1>4

(* A request that is answered or lost works on nothing any more.           *)
LEMMA EndedServed ==
    ASSUME NEW r \in Requests, pc'[r] \notin Running
    PROVE  Undisturbed(r)'
  BY DEF Undisturbed, WorkKept, WillBeServed, Running, Written, Reloading

(* Another request's file, under the name that it asked for.               *)
LEMMA OtherFileSame ==
    ASSUME ServedInv, NEW q \in Requests, NEW r \in Requests, r # q,
           FileBecomes(Target[q], MadeOf(q)), Disturb(q, Target[q]),
           UNCHANGED <<staged, artifact, meta>>,
           ~disturbed'[r], pc[r] \in Running
    PROVE  SameWork(r)
  <1> DEFINE m == Target[q]
             n == Target[r]
  <1>1. m \in Names /\ n \in Names
    BY ConstantTypes
  <1>2. m # n /\ m \notin Definers(dir, n)
    BY DEF Disturb
  <1>3. dir' = [dir EXCEPT ![m] = MadeOf(q)] /\ dir \in [Names -> Contents]
    BY DEF FileBecomes, ServedInv, TypeOK, Contents
  <1>4. MadeOf(q) \in Valid => MadeOf(q).name = m
    BY RegistryAssumption DEF MadeOf
  <1> HIDE DEF m, n
  <1>5. \A f \in Names : f # m => dir'[f] = dir[f]
    BY <1>3
  <1>6. dir'[m] = MadeOf(q)
    BY <1>1, <1>3
  <1>7. Definers(dir', n) = Definers(dir, n)
    BY <1>1, <1>2, <1>4, <1>5, <1>6 DEF Definers
  <1>8. \A f \in Definers(dir, n) : dir'[f] = dir[f]
    BY <1>2, <1>5 DEF Definers
  <1>9. dir'[n] = dir[n]
    BY <1>1, <1>2, <1>5
  <1>10. QED
    BY <1>7, <1>8, <1>9 DEF SameWork, n

(* Edits, restagings, and the watcher outside its reload.                  *)
LEMMA OutsideServed ==
    ASSUME ServedInv, NEW r \in Requests
    PROVE  /\ \A n, c : Edit(n, c) => Undisturbed(r)'
           /\ \A p \in Paths : \A a : Stage(p, a) => Undisturbed(r)'
           /\ TakeEvent \/ TakeTimer \/ Fire \/ UNCHANGED vars => Undisturbed(r)'
  <1>1. r \in Loaders /\ r # watcher /\ TypeOK
    BY ConstantTypes DEF ServedInv
  <1>2. ASSUME NEW n, NEW c, Edit(n, c)
        PROVE  Undisturbed(r)'
    <2>1. disturbed'[r] \/ (pc[r] \notin Running /\ disturbed'[r] = disturbed[r])
      BY <1>1, <1>2 DEF Edit, TypeOK
    <2>2. disturbed[r] => disturbed'[r]
      BY <1>2 DEF Edit
    <2>3. QED
      BY <1>2, <2>1, <2>2, OthersServed DEF Edit
  <1>3. ASSUME NEW p \in Paths, NEW a, Stage(p, a)
        PROVE  Undisturbed(r)'
    <2>1. disturbed[r] => disturbed'[r]
      BY <1>3 DEF Stage
    <2>2. ASSUME ~disturbed'[r], pc[r] \in Running
          PROVE  SameWork(r)
      <3>1. r \in Provisions => StagedPath[r] # p
        BY <1>3, <2>2 DEF Stage
      <3>2. r \in Provisions => staged'[StagedPath[r]] = staged[StagedPath[r]]
        BY <1>1, <1>3, <3>1, ConstantTypes DEF Stage, TypeOK
      <3>3. QED
        BY <1>3, <3>2 DEF Stage, SameWork
    <2>3. QED
      BY <1>3, <2>1, <2>2, OthersServed DEF Stage
  <1>4. CASE TakeEvent \/ TakeTimer \/ Fire \/ UNCHANGED vars
    <2>1. UNCHANGED <<dir, staged, artifact, meta, services, todo, loaded, held, disturbed, behind>>
      BY <1>4 DEF TakeEvent, TakeTimer, Fire, vars, diskVars, reqVars
    <2>2. pc'[r] = pc[r] /\ \A l \in Loaders : pc'[l] = "files" => pc[l] = "files"
      BY <1>1, <1>4, ConstantTypes DEF TakeEvent, TakeTimer, Fire, vars, Goto, TypeOK
    <2>3. SameWork(r)
      BY <2>1 DEF SameWork
    <2>4. QED
      BY <2>1, <2>2, <2>3, OthersServed
  <1>5. QED
    BY <1>2, <1>3, <1>4

(* What a handler does besides its reload.                                 *)
Work(q) ==
    \/ Begin(q)
    \/ q \in Provisions /\ Provision(q)
    \/ q \in Pushes \cup Provisions /\ WriteService(q)
    \/ q \in Deletes /\ RemoveFile(q)
    \/ AnswerSuccess(q)

(* Such a step begins no reading and leaves the map and the readings of    *)
(* everybody as they are.                                                  *)
LEMMA WorkReadsNothing ==
    ASSUME TypeOK, NEW q \in Requests, Work(q)
    PROVE  /\ UNCHANGED <<loaded, todo, services>>
           /\ \A l \in Loaders : l # q => pc'[l] = pc[l]
           /\ pc[q] # "files" /\ pc'[q] # "files"
  <1>1. q \in Loaders
    BY ConstantTypes
  <1>2. \A label : Goto(q, label) => pc'[q] = label /\ \A l \in Loaders : l # q => pc'[l] = pc[l]
    BY <1>1 DEF Goto, TypeOK
  <1>3. FirstStep(q) # "files"
    BY DEF FirstStep
  <1>4. UNCHANGED <<loaded, todo, services>>
    BY DEF Work, Begin, Provision, VerifyArtifact, ReadStaged, WriteArtifact, WriteMeta,
           WriteService, RemoveFile, AnswerSuccess
  <1>5. pc[q] # "files" /\ \E label : label # "files" /\ Goto(q, label)
    <2>1. CASE Begin(q)
      BY <1>3, <2>1 DEF Begin, Answer, Proceed
    <2>2. CASE q \in Provisions /\ Provision(q)
      BY <2>2 DEF Provision, VerifyArtifact, ReadStaged, WriteArtifact, WriteMeta, Answer, Proceed
    <2>3. CASE WriteService(q) \/ RemoveFile(q) \/ AnswerSuccess(q)
      BY <2>3 DEF WriteService, RemoveFile, AnswerSuccess, Answer, Proceed
    <2>4. QED
      BY <2>1, <2>2, <2>3 DEF Work
  <1>6. QED
    BY <1>2, <1>4, <1>5

(* The work of another request.                                            *)
LEMMA OtherWorkServed ==
    ASSUME ServedInv, NEW q \in Requests, NEW r \in Requests, r # q, Work(q)
    PROVE  Undisturbed(r)'
  <1>1. TypeOK /\ q \in Loaders /\ r \in Loaders /\ q # watcher /\ Target[q] \in Names
    BY ConstantTypes DEF ServedInv
  <1>2. /\ UNCHANGED <<loaded, todo, services>> /\ pc'[r] = pc[r]
        /\ \A l \in Loaders : pc'[l] = "files" => pc[l] = "files"
    BY <1>1, WorkReadsNothing
  <1>3. behind'[r] = behind[r]
    BY <1>1
       DEF Work, Begin, Provision, VerifyArtifact, ReadStaged, WriteArtifact, WriteMeta,
           WriteService, RemoveFile, AnswerSuccess, LeaveBehind, TypeOK
  <1>4. r \in Provisions => held'[r] = held[r]
    BY <1>1
       DEF Work, Begin, Provision, VerifyArtifact, ReadStaged, WriteArtifact, WriteMeta,
           WriteService, RemoveFile, AnswerSuccess, TypeOK
  <1>5. disturbed[r] => disturbed'[r]
    <2>1. CASE UNCHANGED disturbed
      BY <2>1
    <2>2. CASE Disturb(q, Target[q])
      BY <2>2 DEF Disturb
    <2>3. QED
      BY <2>1, <2>2
         DEF Work, Begin, Provision, VerifyArtifact, ReadStaged, WriteArtifact, WriteMeta,
             WriteService, RemoveFile, AnswerSuccess
  <1>6. ASSUME ~disturbed'[r], pc[r] \in Running
        PROVE  SameWork(r)
    <2>1. CASE UNCHANGED <<dir, staged, artifact, meta>>
      BY <2>1 DEF SameWork
    <2>2. ASSUME UNCHANGED <<dir, staged>>, Disturb(q, Target[q]),
                 \A n \in Names : n # Target[q] =>
                     artifact'[n] = artifact[n] /\ meta'[n] = meta[n]
          PROVE  SameWork(r)
      <3>1. Target[r] # Target[q] /\ Target[r] \in Names
        BY <1>6, <2>2, ConstantTypes DEF Disturb
      <3>2. QED
        BY <2>2, <3>1 DEF SameWork
    <2>3. ASSUME FileBecomes(Target[q], MadeOf(q)), Disturb(q, Target[q]),
                 UNCHANGED <<staged, artifact, meta>>
          PROVE  SameWork(r)
      BY <1>6, <2>3, OtherFileSame
    <2>4. CASE WriteArtifact(q) \/ WriteMeta(q)
      <3>1. CASE UNCHANGED disturbed /\ UNCHANGED <<artifact, meta>>
        BY <2>1, <2>4, <3>1 DEF WriteArtifact, WriteMeta
      <3>2. CASE Disturb(q, Target[q])
        BY <1>1, <2>1, <2>2, <2>4, <3>2 DEF WriteArtifact, WriteMeta, TypeOK
      <3>3. QED
        BY <2>4, <3>1, <3>2 DEF WriteArtifact, WriteMeta
    <2>5. CASE q \in Pushes \cup Provisions /\ WriteService(q)
      <3>1. MadeOf(q) = [name |-> Target[q], config |-> q]
        BY <2>5, RegistryAssumption DEF MadeOf
      <3>2. QED
        BY <2>1, <2>3, <2>5, <3>1 DEF WriteService, diskVars
    <2>6. CASE q \in Deletes /\ RemoveFile(q)
      BY <2>1, <2>3, <2>6 DEF RemoveFile, MadeOf, diskVars
    <2>7. CASE Begin(q) \/ VerifyArtifact(q) \/ ReadStaged(q) \/ AnswerSuccess(q)
      BY <2>1, <2>7 DEF Begin, VerifyArtifact, ReadStaged, AnswerSuccess, diskVars
    <2>8. QED
      BY <2>4, <2>5, <2>6, <2>7 DEF Work, Provision
  <1>7. QED
    BY <1>2, <1>3, <1>4, <1>5, <1>6, OthersServed

(* The steps of the request itself, up to its reload.                      *)
LEMMA OwnWorkServed ==
    ASSUME ServedInv, NEW r \in Requests, Work(r)
    PROVE  Undisturbed(r)'
  <1>1. TypeOK /\ Undisturbed(r) /\ r \in Loaders /\ Target[r] \in Names
    BY ConstantTypes DEF ServedInv
  <1>2. \A label : Goto(r, label) => pc'[r] = label
    BY <1>1 DEF Goto, TypeOK
  <1>3. pc[r] # "files" /\ \A l \in Loaders : pc'[l] = "files" => pc[l] = "files"
    BY <1>1, WorkReadsNothing
  <1>4. ASSUME pc'[r] \notin Written, ~disturbed'[r] => WorkKept(r)'
        PROVE  Undisturbed(r)'
    BY <1>4 DEF Undisturbed, WillBeServed
  <1>5. ASSUME NEW code, Answer(r, code)
        PROVE  Undisturbed(r)'
    BY <1>2, <1>5, EndedServed DEF Answer, Running, Written, Reloading
  <1>6. CASE Begin(r)
    <2>1. ASSUME Proceed(r, FirstStep(r))
          PROVE  Undisturbed(r)'
      <3>1. pc'[r] \in {"write", "remove", "verify"} /\ (r \in Provisions => pc'[r] = "verify")
        BY <1>2, <2>1, RegistryAssumption DEF Proceed, FirstStep
      <3>2. QED
        BY <1>4, <3>1 DEF Undisturbed, WorkKept, Written, Reloading
    <2>2. QED
      BY <1>5, <1>6, <2>1 DEF Begin
  <1>7. CASE r \in Provisions /\ VerifyArtifact(r)
    <2>1. ASSUME staged[StagedPath[r]] = Hash[r], Proceed(r, "copy")
          PROVE  Undisturbed(r)'
      <3>1. pc'[r] = "copy" /\ UNCHANGED staged
        BY <1>2, <1>7, <2>1 DEF Proceed, VerifyArtifact, diskVars
      <3>2. QED
        BY <1>4, <2>1, <3>1 DEF Undisturbed, WorkKept, Written, Reloading
    <2>2. QED
      BY <1>5, <1>7, <2>1 DEF VerifyArtifact
  <1>8. CASE r \in Provisions /\ ReadStaged(r)
    <2>1. ASSUME Proceed(r, "artifact"), held' = [held EXCEPT ![r] = staged[StagedPath[r]]]
          PROVE  Undisturbed(r)'
      <3>1. pc'[r] = "artifact" /\ UNCHANGED disturbed /\ pc[r] = "copy"
        BY <1>2, <1>8, <2>1 DEF Proceed, ReadStaged
      <3>2. held'[r] = staged[StagedPath[r]]
        BY <1>1, <1>8, <2>1 DEF TypeOK
      <3>3. QED
        BY <1>1, <1>4, <1>8, <3>1, <3>2 DEF Undisturbed, WorkKept, Written, Reloading
    <2>2. QED
      BY <1>5, <1>8, <2>1 DEF ReadStaged
  <1>9. \A n : Disturb(r, n) => (disturbed[r] => disturbed'[r])
    BY DEF Disturb
  <1>10. CASE r \in Provisions /\ WriteArtifact(r)
    <2>1. ASSUME Proceed(r, "meta"), artifact' = [artifact EXCEPT ![Target[r]] = held[r]],
                 Disturb(r, Target[r])
          PROVE  Undisturbed(r)'
      <3>1. pc'[r] = "meta" /\ (disturbed[r] => disturbed'[r]) /\ pc[r] = "artifact"
        BY <1>2, <1>9, <1>10, <2>1 DEF Proceed, WriteArtifact
      <3>2. artifact'[Target[r]] = held[r]
        BY <1>1, <2>1 DEF TypeOK
      <3>3. QED
        BY <1>1, <1>4, <1>10, <3>1, <3>2 DEF Undisturbed, WorkKept, Written, Reloading
    <2>2. QED
      BY <1>5, <1>10, <2>1 DEF WriteArtifact
  <1>11. CASE r \in Provisions /\ WriteMeta(r)
    <2>1. ASSUME Proceed(r, "write"), meta' = [meta EXCEPT ![Target[r]] = Hash[r]],
                 Disturb(r, Target[r])
          PROVE  Undisturbed(r)'
      <3>1. /\ pc'[r] = "write" /\ (disturbed[r] => disturbed'[r]) /\ pc[r] = "meta"
            /\ UNCHANGED artifact
        BY <1>2, <1>9, <1>11, <2>1 DEF Proceed, WriteMeta
      <3>2. meta'[Target[r]] = Hash[r]
        BY <1>1, <2>1 DEF TypeOK
      <3>3. QED
        BY <1>1, <1>4, <1>11, <3>1, <3>2 DEF Undisturbed, WorkKept, Written, Reloading
    <2>2. QED
      BY <1>5, <1>11, <2>1 DEF WriteMeta
  <1>12. ASSUME Proceed(r, "list"), FileBecomes(Target[r], MadeOf(r)), Disturb(r, Target[r]),
                LeaveBehind(r), UNCHANGED <<artifact, meta>>, r \in Provisions => pc[r] = "write"
         PROVE  Undisturbed(r)'
    <2>1. pc'[r] = "list" /\ (disturbed[r] => disturbed'[r])
      BY <1>2, <1>9, <1>12 DEF Proceed
    <2>2. dir'[Target[r]] = MadeOf(r)
      BY <1>1, <1>12 DEF FileBecomes, TypeOK
    <2>3. ~disturbed'[r] => WorkKept(r)'
      BY <1>1, <1>12, <2>1, <2>2 DEF Undisturbed, WorkKept, Written, Reloading, MadeOf
    <2>4. behind'[r] = {l \in Loaders : pc[l] = "files"}
      BY <1>1, <1>12 DEF LeaveBehind, TypeOK
    <2>5. WillBeServed(r)'
      BY <1>3, <2>1, <2>4 DEF WillBeServed, FindsIt
    <2>6. QED
      BY <2>3, <2>5 DEF Undisturbed
  <1>13. CASE r \in Pushes \cup Provisions /\ WriteService(r)
    <2>1. MadeOf(r) = [name |-> Target[r], config |-> r]
      BY <1>13, RegistryAssumption DEF MadeOf
    <2>2. QED
      BY <1>5, <1>12, <1>13, <2>1 DEF WriteService, diskVars
  <1>14. CASE r \in Deletes /\ RemoveFile(r)
    BY <1>5, <1>12, <1>14, RegistryAssumption DEF RemoveFile, MadeOf, diskVars
  <1>15. CASE AnswerSuccess(r)
    BY <1>5, <1>15 DEF AnswerSuccess
  <1>16. QED
    BY <1>6, <1>7, <1>8, <1>10, <1>11, <1>13, <1>14, <1>15 DEF Work, Provision

(* A whole reading of the directory as the request has left it.            *)
LEMMA ListingFindsIt ==
    ASSUME ServedInv, NEW r \in Requests, ~disturbed[r], pc[r] \in Written,
           Definers(dir, Target[r]) \subseteq {Target[r]}
    PROVE  Finish(Empty, {f \in Names : dir[f] # None}, dir)[Target[r]] = Meant(r)
  <1> DEFINE n == Target[r]
             T == {f \in Names : dir[f] # None}
  <1>1. n \in Names /\ dir[n] = MadeOf(r)
    BY ConstantTypes DEF ServedInv, Undisturbed, WorkKept
  <1>2. CASE r \in Deletes
    <2>1. n \notin T
      BY <1>1, <1>2 DEF MadeOf
    <2>2. Definers(dir, n) \cap T = {}
      BY <2>1
    <2>3. QED
      BY <1>1, <1>2, <2>2 DEF Finish, Meant, Empty
  <1>3. CASE r \notin Deletes
    <2>1. dir[n] \in Valid /\ dir[n].name = n /\ dir[n].config = r
      BY <1>1, <1>3 DEF MadeOf, Valid, Configs, Requests
    <2>2. n \in Definers(dir, n) /\ n \in T
      BY <1>1, <2>1, RegistryAssumption DEF Definers
    <2>3. Definers(dir, n) \cap T = {n}
      BY <2>2
    <2>4. Last({n}) = n
      BY <1>1, LastIs, PositionType
    <2>5. QED
      BY <1>1, <1>3, <2>1, <2>3, <2>4 DEF Finish, Meant
  <1>4. QED
    BY <1>2, <1>3

(* A step of a reload changes nothing that a request works on.  The reload *)
(* of whom the request did not leave behind finds what the request made,   *)
(* and the map that it assigns has it.                                     *)
LEMMA ReloadServed ==
    ASSUME ServedInv, NEW l \in Loaders, NEW r \in Requests, Reload(l)
    PROVE  Undisturbed(r)'
  <1> DEFINE n == Target[r]
  <1>1. /\ TypeOK /\ EmptyBetween /\ Undisturbed(r) /\ r \in Loaders /\ n \in Names
        /\ todo[l] \in SUBSET Names /\ loaded[l] \in [Names -> Configs \cup {None}]
        /\ dir \in [Names -> Contents]
    BY ConstantTypes DEF ServedInv, TypeOK, Contents
  <1>2. \A label : Goto(l, label) =>
            pc'[l] = label /\ \A k \in Loaders : k # l => pc'[k] = pc[k]
    BY <1>1 DEF Goto, TypeOK
  <1>3. UNCHANGED <<dir, staged, artifact, meta, held>>
    BY DEF Reload, ListFiles, ListFails, LoadOne, Assign, diskVars, reqVars
  <1>4. disturbed[r] => disturbed'[r]
    BY DEF Reload, ListFiles, ListFails, LoadOne, Assign, reqVars
  <1>5. \/ pc'[r] = pc[r]
        \/ pc[r] \in Written /\ pc'[r] \in Written
        \/ pc'[r] \notin Running
    <2>1. CASE l # r
      BY <1>1, <1>2, <2>1 DEF Reload, ListFiles, ListFails, LoadOne, Assign, Answer
    <2>2. CASE l = r
      <3>1. l # watcher /\ pc[r] \in Written
        BY <2>2, ConstantTypes
           DEF Reload, ListFiles, ListFails, LoadOne, Assign, Written, Reloading
      <3>2. pc'[r] \in {"files", "done", "answer", pc[r]}
        BY <1>2, <2>2, <3>1 DEF Reload, ListFiles, ListFails, LoadOne, Assign, Answer
      <3>3. QED
        BY <3>1, <3>2 DEF Running, Written, Reloading
    <2>3. QED
      BY <2>1, <2>2
  <1>6. CASE pc'[r] \notin Running
    BY <1>6, EndedServed
  <1>7. CASE disturbed'[r]
    BY <1>7 DEF Undisturbed
  <1>8. ASSUME pc'[r] \in Running, ~disturbed'[r]
        PROVE  WorkKept(r)'
    <2>1. WorkKept(r)
      BY <1>1, <1>4, <1>8 DEF Undisturbed
    <2>2. CASE pc'[r] = pc[r]
      BY <1>3, <2>1, <2>2 DEF WorkKept, MadeOf
    <2>3. CASE pc[r] \in Written /\ pc'[r] \in Written
      BY <1>3, <2>1, <2>3 DEF WorkKept, MadeOf, Written, Reloading
    <2>4. QED
      BY <1>5, <1>8, <2>2, <2>3
  <1>9. ASSUME pc'[r] \in Written, ~disturbed'[r], Definers(dir, n) \subseteq {n}
        PROVE  /\ \A k \in Loaders \ behind'[r] : FindsIt(k, r)'
               /\ r \notin behind'[r]
               /\ pc'[r] = "answer" => services'[n] = Meant(r)
    <2>1. pc'[r] \in Running
      BY <1>9 DEF Running
    <2>2. /\ pc[r] \in Written /\ ~disturbed[r]
          /\ \A k \in Loaders \ behind[r] : FindsIt(k, r)
          /\ r \notin behind[r]
          /\ pc[r] = "answer" => services[n] = Meant(r)
      <3>1. pc[r] \in Written /\ ~disturbed[r]
        BY <1>4, <1>5, <1>9, <2>1
      <3>2. QED
        BY <1>1, <1>9, <3>1 DEF Undisturbed, WillBeServed
    <2>3. ASSUME NEW k \in Loaders \ behind[r], pc'[k] = pc[k], loaded'[k] = loaded[k],
                 todo'[k] = todo[k]
          PROVE  FindsIt(k, r)'
      BY <1>3, <2>2, <2>3 DEF FindsIt, Meant
    <2>4. ASSUME pc'[l] # "files"
          PROVE  FindsIt(l, r)'
      BY <2>4 DEF FindsIt
    <2>5. CASE ListFiles(l)
      <3>1. /\ pc'[l] = "files" /\ pc[l] = "list"
            /\ \A k \in Loaders : k # l => pc'[k] = pc[k] /\ todo'[k] = todo[k]
            /\ todo'[l] = {f \in Names : dir[f] # None}
            /\ UNCHANGED <<loaded, behind, services>>
        BY <1>1, <1>2, <2>5 DEF ListFiles, reqVars, TypeOK
      <3>2. loaded'[l] = Empty
        BY <1>1, <3>1 DEF EmptyBetween
      <3>3. FindsIt(l, r)'
        BY <1>3, <1>9, <2>2, <3>1, <3>2, ListingFindsIt DEF FindsIt, Meant
      <3>4. pc'[r] = "answer" => pc[r] = "answer"
        BY <1>1, <3>1
      <3>5. QED
        BY <2>2, <2>3, <3>1, <3>3, <3>4
    <2>6. CASE ListFails(l)
      <3>1. /\ pc'[l] \in {"select", "done"}
            /\ \A k \in Loaders : k # l => pc'[k] = pc[k]
            /\ UNCHANGED <<loaded, todo, behind, services>>
        BY <1>2, <2>6 DEF ListFails, Answer
      <3>2. pc'[r] = "answer" => pc[r] = "answer"
        BY <1>1, <3>1
      <3>3. QED
        BY <2>2, <2>3, <2>4, <3>1, <3>2
    <2>7. CASE LoadOne(l)
      <3> DEFINE t == todo[l]
                 m == loaded[l]
                 c == IF dir[First(t)] \in Valid
                      THEN [m EXCEPT ![dir[First(t)].name] = dir[First(t)].config] ELSE m
      <3>1. /\ loaded'[l] = c /\ todo'[l] = t \ {First(t)} /\ pc[l] = "files" /\ UNCHANGED pc
            /\ \A k \in Loaders : k # l => loaded'[k] = loaded[k] /\ todo'[k] = todo[k]
            /\ UNCHANGED <<behind, services>>
        BY <1>1, <2>7 DEF LoadOne, reqVars, TypeOK
      <3>2. t # {}
        BY <2>7 DEF LoadOne
      <3>3. Finish(c, t \ {First(t)}, dir) = Finish(m, t, dir)
        <4>1. t \in SUBSET Names /\ m \in [Names -> Configs \cup {None}] /\ dir \in [Names -> Contents]
          BY <1>1
        <4> HIDE DEF t, m
        <4>2. QED
          BY <3>2, <4>1, FinishStep
      <3> HIDE DEF c
      <3>4. l \notin behind[r] => FindsIt(l, r)'
        BY <1>3, <2>2, <3>1, <3>3 DEF FindsIt, Meant
      <3>5. QED
        BY <2>2, <2>3, <3>1, <3>4
    <2>8. CASE Assign(l)
      <3>1. /\ pc'[l] \in {"select", "answer"} /\ pc[l] = "files" /\ todo[l] = {}
            /\ \A k \in Loaders : k # l => pc'[k] = pc[k] /\ loaded'[k] = loaded[k]
            /\ services' = loaded[l] /\ UNCHANGED todo
        BY <1>1, <1>2, <2>8 DEF Assign, TypeOK
      <3>2. behind'[r] = behind[r] \ {l} /\ (pc[r] = "answer" => l \notin behind[r])
        BY <1>9, <2>8 DEF Assign
      <3>3. \A k \in Loaders \ behind'[r] : FindsIt(k, r)'
        <4> SUFFICES ASSUME NEW k \in Loaders \ behind'[r]
                     PROVE  FindsIt(k, r)'
          OBVIOUS
        <4>1. CASE k = l
          BY <2>4, <3>1, <4>1
        <4>2. CASE k # l
          BY <2>3, <3>1, <3>2, <4>2
        <4>3. QED
          BY <4>1, <4>2
      <3>4. ASSUME pc'[r] = "answer"
            PROVE  services'[n] = Meant(r)
        <4>1. l \notin behind[r]
          <5>1. CASE l = r
            BY <2>2, <5>1
          <5>2. CASE l # r
            BY <1>1, <3>1, <3>2, <3>4, <5>2
          <5>3. QED
            BY <5>1, <5>2
        <4>2. Finish(loaded[l], todo[l], dir)[n] = Meant(r)
          BY <2>2, <3>1, <4>1 DEF FindsIt
        <4>3. Finish(loaded[l], todo[l], dir) = loaded[l]
          BY <1>1, <3>1, FinishNone
        <4>4. QED
          BY <3>1, <4>2, <4>3
      <3>5. QED
        BY <2>2, <3>2, <3>3, <3>4
    <2>9. QED
      BY <2>5, <2>6, <2>7, <2>8 DEF Reload
  <1>10. CASE pc'[r] \in Running /\ ~disturbed'[r]
    <2>1. WillBeServed(r)'
      BY <1>3, <1>9, <1>10 DEF WillBeServed, Meant
    <2>2. QED
      BY <1>8, <1>10, <2>1 DEF Undisturbed
  <1>11. QED
    BY <1>6, <1>7, <1>10

(* Maps are built while files are opened only.                             *)
LEMMA EmptyBetweenKept ==
    ASSUME TypeOK, EmptyBetween, [Next]_vars
    PROVE  EmptyBetween'
  <1>1. CASE UNCHANGED loaded /\ \A l \in Loaders : pc[l] = "files" => pc'[l] = "files"
    BY <1>1 DEF EmptyBetween
  <1>2. ASSUME NEW l \in Loaders, Reload(l)
        PROVE  EmptyBetween'
    <2>1. \A label : Goto(l, label) =>
              pc'[l] = label /\ \A k \in Loaders : k # l => pc'[k] = pc[k]
      BY <1>2 DEF Goto, TypeOK
    <2>2. CASE ListFiles(l)
      BY <1>1, <2>1, <2>2 DEF ListFiles
    <2>3. CASE ListFails(l)
      BY <1>2, <2>1, <2>3 DEF ListFails, Answer, EmptyBetween
    <2>4. CASE LoadOne(l)
      BY <1>2, <2>4 DEF LoadOne, EmptyBetween, TypeOK
    <2>5. CASE Assign(l)
      BY <1>2, <2>1, <2>5 DEF Assign, EmptyBetween, TypeOK
    <2>6. QED
      BY <1>2, <2>2, <2>3, <2>4, <2>5 DEF Reload
  <1>3. ASSUME NEW q \in Requests, Work(q)
        PROVE  EmptyBetween'
    BY <1>1, <1>3, WorkReadsNothing DEF EmptyBetween
  <1>4. CASE TakeTimer
    BY <1>1, <1>4, ConstantTypes DEF TakeTimer, Goto, TypeOK
  <1>5. CASE Restart
    BY <1>5 DEF Restart, EmptyBetween
  <1>6. QED
    BY <1>1, <1>2, <1>3, <1>4, <1>5, ConstantTypes
       DEF Next, Edit, Stage, Watcher, TakeEvent, Fire, Handler, Work, Idle, vars

(* The step that answers a success.                                        *)
LEMMA SuccessStep ==
    ASSUME ServedInv, NEW r \in Requests, [Next]_vars, Succeeds(r), ~disturbed[r]
    PROVE  /\ Definers(dir, Target[r]) \subseteq {Target[r]} => services[Target[r]] = Meant(r)
           /\ r \in Provisions => artifact[Target[r]] = Hash[r] /\ meta[Target[r]] = Hash[r]
  <1>1. TypeOK /\ WorkKept(r) /\ WillBeServed(r)
    BY DEF ServedInv, Undisturbed
  <1>2. status'[r] # status[r] /\ status'[r] \in {200, 204}
    BY DEF Succeeds
  <1>3. \A q \in Requests : \A code : Answer(q, code) => (q = r /\ code \in {200, 204})
    BY <1>1, <1>2 DEF Answer, TypeOK
  <1>4. ~UNCHANGED status
    BY <1>2
  <1>5. ASSUME NEW l \in Loaders
        PROVE  ~Reload(l)
    <2>1. l # watcher => ~Answer(l, 500)
      BY <1>3, <1>5 DEF Loaders
    <2>2. QED
      BY <1>4, <2>1 DEF Reload, ListFiles, ListFails, LoadOne, Assign, reqVars
  <1>6. ASSUME NEW q \in Requests, Handler(q)
        PROVE  AnswerSuccess(q)
    <2>1. q \in Loaders /\ \A code \in {400, 404, 409, 500} : ~Answer(q, code)
      BY <1>3, <1>6, ConstantTypes
    <2>2. ~Begin(q) /\ ~Provision(q) /\ ~WriteService(q) /\ ~RemoveFile(q)
      BY <1>4, <2>1 DEF Begin, Provision, VerifyArtifact, ReadStaged, WriteArtifact, WriteMeta,
                        WriteService, RemoveFile, WriteFailure, Proceed
    <2>3. QED
      BY <1>5, <1>6, <2>1, <2>2 DEF Handler
  <1>7. PICK q \in Requests : AnswerSuccess(q)
    BY <1>4, <1>5, <1>6, ConstantTypes
       DEF Next, Watcher, TakeEvent, TakeTimer, Edit, Stage, Fire, Restart, Idle, vars, reqVars
  <1>8. q = r
    BY <1>3, <1>7 DEF AnswerSuccess
  <1>9. pc[r] = "answer"
    BY <1>7, <1>8 DEF AnswerSuccess
  <1>10. QED
    BY <1>1, <1>9 DEF WorkKept, WillBeServed, Written

(***************************************************************************)
(* A success means what it says, for any services and requests: when push, *)
(* delete or provision is answered 2xx and nobody disturbed it, the map    *)
(* has the service as the request meant it, also if other reloads were     *)
(* assigned between its own and its answer, unless they had begun before   *)
(* it changed its file; and a provision's artifact and metadata have the   *)
(* declared hash.                                                          *)
(***************************************************************************)
THEOREM SuccessIsServedHolds == Spec => SuccessIsServed
  <1>1. Init => ServedInv
    <2> SUFFICES ASSUME Init
                 PROVE  ServedInv
      OBVIOUS
    <2>1. /\ \A r \in Requests : pc[r] = "idle"
          /\ \A l \in Loaders : loaded[l] = Empty
      BY ConstantTypes DEF Init
    <2>2. QED
      BY <2>1, InitType
         DEF ServedInv, EmptyBetween, Undisturbed, WorkKept, WillBeServed, Written, Reloading
  <1>2. ServedInv /\ [Next]_vars => ServedInv'
    <2> SUFFICES ASSUME ServedInv, [Next]_vars, NEW r \in Requests
                 PROVE  Undisturbed(r)'
      BY NextType, EmptyBetweenKept DEF ServedInv
    <2>1. ASSUME NEW q \in Requests, Work(q)
          PROVE  Undisturbed(r)'
      BY <2>1, OwnWorkServed, OtherWorkServed
    <2>2. ASSUME NEW l \in Loaders, Reload(l)
          PROVE  Undisturbed(r)'
      BY <2>2, ReloadServed
    <2>3. CASE Restart
      <3>1. pc'[r] \notin Running
        BY <2>3, ConstantTypes DEF Restart, Running, Written, Reloading
      <3>2. QED
        BY <3>1, EndedServed
    <2>4. ASSUME NEW q \in Requests, Handler(q)
          PROVE  Undisturbed(r)'
      BY <2>1, <2>2, <2>4, ConstantTypes DEF Handler, Work
    <2>5. CASE Watcher
      BY <2>2, <2>5, OutsideServed, ConstantTypes DEF Watcher
    <2>6. QED
      BY <2>3, <2>4, <2>5, OutsideServed DEF Next, Idle
  <1>3. ServedInv /\ [Next]_vars =>
            [\A r \in Requests :
                Succeeds(r) /\ ~disturbed[r] =>
                    /\ Definers(dir, Target[r]) \subseteq {Target[r]} =>
                           services[Target[r]] = Meant(r)
                    /\ r \in Provisions =>
                           artifact[Target[r]] = Hash[r] /\ meta[Target[r]] = Hash[r]]_vars
    BY SuccessStep
  <1>4. QED
    BY <1>1, <1>2, <1>3, PTL DEF Spec, SuccessIsServed
=============================================================================
