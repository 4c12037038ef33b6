----------------------------- MODULE HostProofs -----------------------------
(***************************************************************************)
(* Proofs about what a node tells of its host.  HostConfig: for any fleet, *)
(* any entries, any number of pushes, edits and restarts.  PortStream: for *)
(* any clients and listeners, any number of requests, changes and failing  *)
(* samples.                                                                *)
(***************************************************************************)
EXTENDS HostConfig, PortStream, WellFoundedInduction, TLAPS

(* The contents the daemon may serve are the files that load.              *)
LEMMA LoadableGood ==
    /\ Good \subseteq Files
    /\ \A f \in Files : Loadable(f) <=> f \in Good
  BY HostAssumption DEF Files, Loadable, Good

(* Before the first start.                                                 *)
LEMMA InitHostInv == Init => HostInv
  <1> SUFFICES ASSUME Init
               PROVE  HostInv
    OBVIOUS
  <1>1. TypeOK
    <2>1. file \in Files /\ hosts \in Good /\ read \in Good /\ past \subseteq Files
      BY LoadableGood DEF Init
    <2>2. /\ pc \in [Pushes -> {"idle", "done", "lost"} \cup Running]
          /\ local \in [Pushes -> Good]
          /\ status \in [Pushes -> {0, 200, 400, 409, 500}]
      BY <2>1 DEF Init
    <2>3. events \in Nat /\ edits \in 0..MaxEdits /\ restarts \in 0..MaxRestarts
      BY HostAssumption DEF Init
    <2>4. QED
      BY <2>1, <2>2, <2>3 DEF Init, TypeOK
  <1>2. ServesWholeFile
    BY <1>1, LoadableGood DEF Init, TypeOK, ServesWholeFile
  <1>3. NothingForgotten /\ HeldWasFile /\ StaleReadFollowed
    BY DEF Init, Serving, NothingForgotten, HeldWasFile, StaleReadFollowed
  <1>4. QED
    BY <1>1, <1>2, <1>3 DEF HostInv

-----------------------------------------------------------------------------
(* A daemon that serves hears of every new content.                        *)
LEMMA ChangeIsReported ==
    ASSUME TypeOK, NEW f, FileBecomes(f)
    PROVE  events' \in Nat /\ (Serving => events' > 0)
  BY DEF TypeOK, FileBecomes

(* Edits by hand: whatever was read before, the new event follows it.      *)
LEMMA EditInv ==
    ASSUME HostInv, NEW f \in Files, Edit(f)
    PROVE  HostInv'
  <1> USE DEF HostInv, Edit, watchVars, pushVars
  <1>1. events' \in Nat /\ (Serving => events' > 0)
    BY ChangeIsReported
  <1>2. TypeOK'
    BY <1>1, HostAssumption DEF TypeOK, FileBecomes
  <1>3. ServesWholeFile' /\ HeldWasFile'
    BY DEF ServesWholeFile, HeldWasFile, Loadable, FileBecomes
  <1>4. NothingForgotten' /\ StaleReadFollowed'
    BY <1>1 DEF Serving, NothingForgotten, OnItsWay, StaleReadFollowed
  <1>5. QED
    BY <1>2, <1>3, <1>4

-----------------------------------------------------------------------------
(* The watcher goroutine and its timer: an event turns into an armed       *)
(* timer, the timer into a reload, and the reload into the file.           *)
LEMMA WatcherInv ==
    ASSUME HostInv, Watcher \/ Fire
    PROVE  HostInv'
  <1> USE DEF HostInv, Serving, pushVars, boundVars
  <1>1. CASE TakeEvent
    BY <1>1 DEF TakeEvent, TypeOK, ServesWholeFile, HeldWasFile, Loadable, NothingForgotten,
       OnItsWay, StaleReadFollowed
  <1>2. CASE Fire
    BY <1>2 DEF Fire, TypeOK, ServesWholeFile, HeldWasFile, Loadable, NothingForgotten,
       OnItsWay, StaleReadFollowed
  <1>3. CASE TakeTimer
    BY <1>3 DEF TakeTimer, TypeOK, ServesWholeFile, HeldWasFile, Loadable, NothingForgotten,
       OnItsWay, StaleReadFollowed
  <1>4. CASE WatchLoad
    <2> USE <1>4 DEF WatchLoad
    <2>1. TypeOK'
      BY LoadableGood DEF TypeOK
    <2>2. HeldWasFile' /\ ServesWholeFile'
      BY DEF HeldWasFile, ServesWholeFile, Loadable
    <2>3. NothingForgotten' /\ StaleReadFollowed'
      BY DEF NothingForgotten, OnItsWay, StaleReadFollowed, Loadable
    <2>4. QED
      BY <2>1, <2>2, <2>3
  <1>5. CASE WatchAssign
    <2> USE <1>5 DEF WatchAssign
    <2>1. TypeOK'
      BY DEF TypeOK
    <2>2. Loadable(read)
      BY LoadableGood DEF TypeOK
    <2>3. ServesWholeFile' /\ HeldWasFile'
      BY <2>2 DEF ServesWholeFile, HeldWasFile, Loadable
    <2>4. NothingForgotten' /\ StaleReadFollowed'
      BY DEF NothingForgotten, OnItsWay, StaleReadFollowed, Loadable
    <2>5. QED
      BY <2>1, <2>3, <2>4
  <1>6. QED
    BY <1>1, <1>2, <1>3, <1>4, <1>5 DEF Watcher

-----------------------------------------------------------------------------
(* The handler of a push: its write is followed by an event, and its       *)
(* assignment is flagged when the file has been replaced since it read it. *)
LEMMA PushInv ==
    ASSUME HostInv, NEW p \in Pushes, Push(p)
    PROVE  HostInv'
  <1> USE DEF HostInv, Serving, watchVars, boundVars, Goto, Answer
  <1>1. CASE Decode(p)
    <2>1. TypeOK'
      BY <1>1 DEF Decode, TypeOK, Running
    <2>2. QED
      BY <1>1, <2>1 DEF Decode, TypeOK, ServesWholeFile, HeldWasFile, Loadable,
         NothingForgotten, OnItsWay, StaleReadFollowed
  <1>2. CASE All(p)
    <2>1. [hosts EXCEPT ![Self] = config[p]] \in Good
      BY HostAssumption DEF TypeOK, Good
    <2>2. TypeOK'
      BY <1>2, <2>1 DEF All, TypeOK, Running
    <2>3. QED
      BY <1>2, <2>2 DEF All, TypeOK, ServesWholeFile, HeldWasFile, Loadable,
         NothingForgotten, OnItsWay, StaleReadFollowed
  <1>3. CASE WriteHostFile(p)
    <2>1. CASE Goto(p, "load") /\ FileBecomes(local[p])
      <3> USE <1>3, <2>1 DEF WriteHostFile
      <3>1. TypeOK'
        BY LoadableGood DEF TypeOK, Running, FileBecomes
      <3>2. ServesWholeFile' /\ HeldWasFile'
        BY DEF TypeOK, ServesWholeFile, HeldWasFile, Loadable, FileBecomes
      <3>3. Serving => events' > 0
        BY ChangeIsReported
      <3>4. NothingForgotten' /\ StaleReadFollowed'
        BY <3>3 DEF NothingForgotten, OnItsWay, StaleReadFollowed
      <3>5. QED
        BY <3>1, <3>2, <3>4
    <2>2. CASE Answer(p, 409) /\ UNCHANGED <<file, past, events>>
      <3>1. TypeOK'
        BY <1>3, <2>2 DEF WriteHostFile, TypeOK, Running
      <3>2. QED
        BY <1>3, <2>2, <3>1 DEF WriteHostFile, TypeOK, ServesWholeFile, HeldWasFile, Loadable,
           NothingForgotten, OnItsWay, StaleReadFollowed
    <2>3. QED
      BY <1>3, <2>1, <2>2 DEF WriteHostFile
  <1>4. CASE ReloadLoad(p)
    <2>1. TypeOK'
      BY <1>4, LoadableGood DEF ReloadLoad, TypeOK, Running
    <2>2. QED
      BY <1>4, <2>1 DEF ReloadLoad, TypeOK, ServesWholeFile, HeldWasFile, Loadable,
         NothingForgotten, OnItsWay, StaleReadFollowed
  <1>5. CASE ReloadAssign(p)
    <2> USE <1>5 DEF ReloadAssign
    <2>1. TypeOK'
      BY DEF TypeOK, Running
    <2>2. Loadable(local[p])
      BY LoadableGood DEF TypeOK
    <2>3. ServesWholeFile' /\ HeldWasFile'
      BY <2>2 DEF TypeOK, ServesWholeFile, HeldWasFile, Loadable
    <2>4. NothingForgotten' /\ StaleReadFollowed'
      BY DEF NothingForgotten, OnItsWay, StaleReadFollowed, Loadable
    <2>5. QED
      BY <2>1, <2>3, <2>4
  <1>6. QED
    BY <1>1, <1>2, <1>3, <1>4, <1>5 DEF Push

-----------------------------------------------------------------------------
(* A daemon that has died serves nothing.                                  *)
LEMMA DieInv ==
    ASSUME HostInv, Die
    PROVE  HostInv'
  <1> USE DEF HostInv, Die
  <1>1. TypeOK'
    <2>1. pc' \in [Pushes -> {"idle", "done", "lost"} \cup Running]
      BY DEF TypeOK
    <2>2. restarts' \in 0..MaxRestarts /\ events' \in Nat
      BY HostAssumption DEF TypeOK
    <2>3. QED
      BY <2>1, <2>2 DEF TypeOK
  <1>2. ServesWholeFile' /\ HeldWasFile'
    BY DEF TypeOK, ServesWholeFile, HeldWasFile, Loadable
  <1>3. NothingForgotten' /\ StaleReadFollowed'
    BY DEF Serving, NothingForgotten, StaleReadFollowed
  <1>4. QED
    BY <1>1, <1>2, <1>3

(* A start takes the copy from the file, or makes the file, and flags a    *)
(* file that was replaced before the watch was on.                         *)
LEMMA NewHostManagerInv ==
    ASSUME HostInv, NewHostManager
    PROVE  HostInv'
  <1> USE DEF HostInv, pushVars, boundVars
  <1>1. Generated \in Good
    BY HostAssumption DEF Generated, Good
  <1>2. CASE EnsureHostConfig
    <2>1. watch = "down" /\ watch' = "start"
      BY <1>2 DEF EnsureHostConfig
    <2>2. /\ hosts' \in Good /\ hosts' = file'
          /\ past' = past \cup {file'}
          /\ events' = events
      BY <1>1, <1>2, <2>1, LoadableGood
         DEF EnsureHostConfig, FileBecomes, Serving, TypeOK, HeldWasFile
    <2>3. TypeOK'
      BY <1>2, <2>1, <2>2, LoadableGood DEF EnsureHostConfig, TypeOK
    <2>4. ServesWholeFile'
      <3>1. Loadable(hosts')
        BY <2>2, LoadableGood
      <3>2. QED
        BY <2>2, <3>1 DEF ServesWholeFile, Loadable
    <2>5. HeldWasFile'
      BY <1>2, <2>2 DEF EnsureHostConfig, HeldWasFile
    <2>6. NothingForgotten' /\ StaleReadFollowed'
      BY <2>1 DEF Serving, NothingForgotten, StaleReadFollowed
    <2>7. QED
      BY <2>3, <2>4, <2>5, <2>6
  <1>3. CASE AddWatch
    BY <1>3 DEF AddWatch, TypeOK, ServesWholeFile, HeldWasFile, Loadable,
       NothingForgotten, OnItsWay, StaleReadFollowed
  <1>4. QED
    BY <1>2, <1>3 DEF NewHostManager

(* A step that changes nothing keeps the invariant.                        *)
LEMMA StutterInv ==
    ASSUME HostInv, UNCHANGED vars
    PROVE  HostInv'
  BY DEF HostInv, vars, TypeOK, ServesWholeFile, NothingForgotten, OnItsWay, HeldWasFile,
     StaleReadFollowed, Loadable, Serving

(* The inductive invariant of hosts.toml, its copy and its watcher.        *)
THEOREM HostInvariant == Spec => []HostInv
  <1>1. HostInv /\ [Next]_vars => HostInv'
    <2> SUFFICES ASSUME HostInv, [Next]_vars
                 PROVE  HostInv'
      OBVIOUS
    <2>1. ASSUME NEW f \in Files, Edit(f)
          PROVE  HostInv'
      BY <2>1, EditInv
    <2>2. CASE Watcher \/ Fire
      BY <2>2, WatcherInv
    <2>3. ASSUME NEW p \in Pushes, Push(p)
          PROVE  HostInv'
      BY <2>3, PushInv
    <2>4. CASE Die
      BY <2>4, DieInv
    <2>5. CASE NewHostManager
      BY <2>5, NewHostManagerInv
    <2>6. CASE Idle \/ UNCHANGED vars
      BY <2>6, StutterInv DEF Idle
    <2>7. QED
      BY <2>1, <2>2, <2>3, <2>4, <2>5, <2>6 DEF Next
  <1>2. QED
    BY InitHostInv, <1>1, PTL DEF Spec

(* Type correctness of hosts.toml, the copy in memory and the pushes.  It  *)
(* is not hollow: TypeOK says of the copy, of the watcher's reading and of *)
(* every push's that they have the local peer's entry.                     *)
THEOREM HostTypeCorrect == Spec => []TypeOK
  <1>1. HostInv => TypeOK
    BY DEF HostInv
  <1>2. QED
    BY <1>1, HostInvariant, PTL

(* The daemon serves a whole content of hosts.toml that has the local      *)
(* peer's entry, whatever is saved and however reloads overlap.            *)
THEOREM ServesWholeFileHolds == Spec => []ServesWholeFile
  <1>1. HostInv => ServesWholeFile
    BY DEF HostInv
  <1>2. QED
    BY <1>1, HostInvariant, PTL

(* The watch loop forgets no change of hosts.toml: only a push that was    *)
(* overtaken, or a start whose file was replaced between its load and its  *)
(* watch, can leave an old content in memory.                              *)
THEOREM NothingForgottenHolds == Spec => []NothingForgotten
  <1>1. HostInv => NothingForgotten
    BY DEF HostInv
  <1>2. QED
    BY <1>1, HostInvariant, PTL

-----------------------------------------------------------------------------
(* A nonempty set of numbers has a least one, and Min is it.               *)
LEMMA MinIsMember ==
    ASSUME NEW S \in SUBSET Nat, S # {}
    PROVE  Min(S) \in S
  <1>1. PICK m \in S : \A k \in S : ~ (<<k, m>> \in OpToRel(<, Nat))
    BY NatLessThanWellFounded, WFMin
  <1>2. \A k \in S : ~ (k < m)
    BY <1>1 DEF OpToRel
  <1>3. \A k \in S : m =< k
    BY <1>2
  <1>4. QED
    BY <1>3 DEF Min

(* A sample has the rows it was built from, each with an address that a    *)
(* socket of its port has, or with none.                                   *)
LEMMA SampleTyped ==
    ASSUME PortsTypeOK, NEW c \in Clients, NEW rows \in SUBSET Rows
    PROVE  buildSnapshot(c, rows) \in SUBSET Entries
  <1> SUFFICES ASSUME NEW w \in rows
               PROVE  [row |-> w, addr |-> selectSocketAddr(c, w.port)] \in Entries
    BY DEF buildSnapshot
  <1> DEFINE found == {l.addr : l \in {s \in sockets[c] : s.port = w.port}}
  <1>1. sockets[c] \subseteq Listeners
    BY DEF PortsTypeOK
  <1>2. /\ found \subseteq {l.addr : l \in Listeners}
        /\ found \in SUBSET Nat
    BY <1>1, PortsAssumption
  <1>3. selectSocketAddr(c, w.port) = IF found = {} THEN NoAddr ELSE Min(found)
    BY DEF selectSocketAddr
  <1> HIDE DEF found
  <1>4. selectSocketAddr(c, w.port) \in {NoAddr} \cup {l.addr : l \in Listeners}
    BY <1>2, <1>3, MinIsMember
  <1>5. QED
    BY <1>4 DEF Entries

(* What events tell of entries is a port and an address.                   *)
LEMMA PlacesTyped ==
    ASSUME NEW S \in SUBSET Entries
    PROVE  Places(S) \in SUBSET [port : {l.port : l \in Listeners}, addr : Nat]
  <1> SUFFICES ASSUME NEW e \in S
               PROVE  Place(e) \in [port : {l.port : l \in Listeners}, addr : Nat]
    BY DEF Places
  <1>1. e.row.port \in {l.port : l \in Listeners}
    BY DEF Entries, Rows
  <1>2. e.addr \in Nat
    BY PortsAssumption DEF Entries, NoAddr
  <1>3. QED
    BY <1>1, <1>2 DEF Place

(* diffPorts leaves entries out and adds none.                             *)
LEMMA DiffTyped ==
    ASSUME NEW before, NEW after
    PROVE  diffPorts(before, after) \subseteq after
  BY DEF diffPorts

(* What events tell of a diff are the ports of the one sample that are not *)
(* among the other's, because the diff goes by what events tell.           *)
LEMMA DiffIsDifference ==
    ASSUME NEW before, NEW after
    PROVE  Places(diffPorts(before, after)) = Places(after) \ Places(before)
  <1>1. {portIdentity(b) : b \in before} = Places(before)
    BY DEF Places, portIdentity
  <1>2. ASSUME NEW x \in Places(diffPorts(before, after))
        PROVE  x \in Places(after) \ Places(before)
    <2>1. PICK e \in diffPorts(before, after) : x = Place(e)
      BY <1>2 DEF Places
    <2>2. e \in after /\ portIdentity(e) \notin Places(before)
      BY <1>1, <2>1 DEF diffPorts
    <2>3. QED
      BY <2>1, <2>2 DEF Places, portIdentity
  <1>3. ASSUME NEW x \in Places(after) \ Places(before)
        PROVE  x \in Places(diffPorts(before, after))
    <2>1. PICK e \in after : x = Place(e)
      BY <1>3 DEF Places
    <2>2. e \in diffPorts(before, after)
      BY <1>1, <1>3, <2>1 DEF diffPorts, portIdentity
    <2>3. QED
      BY <2>1, <2>2 DEF Places
  <1>4. QED
    BY <1>2, <1>3

(* The two diffs of a tick are complete: whoever knew the ports of the     *)
(* sample before, and applies them, knows the ports of the sample after.   *)
LEMMA DiffsAddUp ==
    ASSUME NEW before, NEW after
    PROVE  (Places(before) \cup Places(diffPorts(before, after)))
               \ Places(diffPorts(after, before)) = Places(after)
  <1>1. Places(diffPorts(before, after)) = Places(after) \ Places(before)
    BY DiffIsDifference
  <1>2. Places(diffPorts(after, before)) = Places(before) \ Places(after)
    BY DiffIsDifference
  <1>3. \A P, Q : (P \cup (Q \ P)) \ (P \ Q) = Q
    OBVIOUS
  <1>4. QED
    BY <1>1, <1>2, <1>3

(* What a goroutine may find in the array are rows.                        *)
LEMMA ContentsTyped ==
    ASSUME PortsTypeOK, NEW c \in Clients
    PROVE  /\ Contents(c) \subseteq SUBSET Rows
           /\ BeingWritten(c) \in SUBSET Rows
           /\ Scan \in SUBSET Rows
  <1>1. Contents(c) \subseteq SUBSET Rows
    BY DEF PortsTypeOK, Contents
  <1>2. BeingWritten(c) \in SUBSET Rows
    BY DEF PortsTypeOK, BeingWritten, Others
  <1>3. Scan \in SUBSET Rows
    BY DEF PortsTypeOK, Scan, Rows
  <1>4. QED
    BY <1>1, <1>2, <1>3

-----------------------------------------------------------------------------
(* Type correctness, action by action.                                     *)
LEMMA PortsTypeStep ==
    ASSUME PortsTypeOK, [PortsNext]_portsVars
    PROVE  PortsTypeOK'
  <1>1. ASSUME NEW l \in Listeners, Change(l)
        PROVE  PortsTypeOK'
    BY <1>1, PortsAssumption DEF Change, PortsTypeOK, sampleVars, streamVars
  <1>2. ASSUME NEW c \in Clients, NEW kind \in {"no", "first"}, Connect(c, kind)
        PROVE  PortsTypeOK'
    <2>1. connects' \in 0..MaxConnects
      BY <1>2, PortsAssumption DEF Connect, PortsTypeOK
    <2>2. /\ at' \in [Clients -> {"idle", "start", "poll", "assign", "take", "build", "tick"}]
          /\ streaming' \in [Clients -> {"no", "first", "yes"}]
      BY <1>2 DEF Connect, MoveTo, PortsTypeOK
    <2>3. QED
      BY <1>2, <2>1, <2>2 DEF Connect, PortsTypeOK, osVars, sampleVars, streamVars
  <1>3. ASSUME NEW c \in Clients, readSockets(c)
        PROVE  PortsTypeOK'
    BY <1>3 DEF readSockets, MoveTo, PortsTypeOK, osVars, streamVars
  <1>4. ASSUME NEW c \in Clients, Poll(c)
        PROVE  PortsTypeOK'
    <2>1. /\ at' \in [Clients -> {"idle", "start", "poll", "assign", "take", "build", "tick"}]
          /\ overlapped' \in BOOLEAN
      BY <1>4 DEF Poll, MoveTo, PortsTypeOK
    <2>2. /\ prev' \subseteq Rows
          /\ list' \in [Clients -> SUBSET Rows]
      BY <1>4, ContentsTyped DEF Poll, PortsTypeOK
    <2>3. mixed' \in [Clients -> SUBSET Rows]
      BY <1>4, ContentsTyped DEF Poll, PortsTypeOK, Others
    <2>4. QED
      BY <1>4, <2>1, <2>2, <2>3 DEF Poll, PortsTypeOK, osVars, streamVars
  <1>5. ASSUME NEW c \in Clients, Assign(c)
        PROVE  PortsTypeOK'
    BY <1>5, ContentsTyped DEF Assign, Keep, MoveTo, PortsTypeOK, osVars, streamVars
  <1>6. ASSUME NEW c \in Clients, Take(c)
        PROVE  PortsTypeOK'
    BY <1>6, ContentsTyped DEF Take, MoveTo, PortsTypeOK, osVars, streamVars
  <1>7. ASSUME NEW c \in Clients, Build(c)
        PROVE  PortsTypeOK'
    <2>1. PICK rows \in Contents(c) :
            LET sample == buildSnapshot(c, rows) IN
            \/ /\ streaming[c] = "no"
               /\ MoveTo(c, "idle")
               /\ UNCHANGED <<streaming, streamVars>>
            \/ /\ streaming[c] # "no"
               /\ IF streaming[c] = "first" THEN SendSnapshot(c, sample)
                                            ELSE SendChanges(c, sample)
               /\ previous' = [previous EXCEPT ![c] = sample]
               /\ MoveTo(c, "tick")
      BY <1>7 DEF Build
    <2> DEFINE sample == buildSnapshot(c, rows)
    <2>2. sample \in SUBSET Entries
      BY <1>7, <2>1, ContentsTyped, SampleTyped
    <2>3. /\ Places(sample) \in SUBSET [port : {l.port : l \in Listeners}, addr : Nat]
          /\ Places(diffPorts(previous[c], sample))
                \in SUBSET [port : {l.port : l \in Listeners}, addr : Nat]
      BY <2>2, PlacesTyped, DiffTyped
    <2> HIDE DEF sample
    <2>4. /\ at' \in [Clients -> {"idle", "start", "poll", "assign", "take", "build", "tick"}]
          /\ streaming' \in [Clients -> {"no", "first", "yes"}]
      BY <1>7, <2>1 DEF MoveTo, SendSnapshot, SendChanges, PortsTypeOK
    <2>5. previous' \in [Clients -> SUBSET Entries]
      BY <1>7, <2>1, <2>2 DEF sample, streamVars, PortsTypeOK
    <2>6. view' \in [Clients -> SUBSET [port : {l.port : l \in Listeners}, addr : Nat]]
      BY <1>7, <2>1, <2>3 DEF sample, SendSnapshot, SendChanges, streamVars, PortsTypeOK
    <2>7. /\ sockets' \in [Clients -> SUBSET Listeners]
          /\ list' \in [Clients -> SUBSET Rows]
          /\ mixed' \in [Clients -> SUBSET Rows]
      BY <1>7 DEF Build, PortsTypeOK
    <2>8. QED
      BY <1>7, <2>4, <2>5, <2>6, <2>7 DEF Build, PortsTypeOK, osVars
  <1>8. ASSUME NEW c \in Clients, ClientGone(c)
        PROVE  PortsTypeOK'
    BY <1>8 DEF ClientGone, End, MoveTo, PortsTypeOK, osVars, sampleVars
  <1>9. ASSUME NEW c \in Clients, SampleFails(c)
        PROVE  PortsTypeOK'
    <2>1. faults' \in 0..MaxFaults
      BY <1>9, PortsAssumption DEF SampleFails, PortsTypeOK
    <2>2. QED
      BY <1>9, <2>1 DEF SampleFails, End, MoveTo, PortsTypeOK, osVars
  <1>10. CASE UNCHANGED portsVars
    BY <1>10 DEF portsVars, PortsTypeOK
  <1>11. QED
    BY <1>1, <1>2, <1>3, <1>4, <1>5, <1>6, <1>7, <1>8, <1>9, <1>10 DEF PortsNext, Step

-----------------------------------------------------------------------------
(* What clients know changes with the samples of their own streams only.   *)
LEMMA StreamToldStep ==
    ASSUME PortsTypeOK, StreamTold, [PortsNext]_portsVars
    PROVE  StreamTold'
  <1>1. ASSUME NEW l \in Listeners, Change(l)
        PROVE  StreamTold'
    BY <1>1 DEF Change, StreamTold, streamVars
  <1>2. ASSUME NEW c \in Clients, NEW kind \in {"no", "first"}, Connect(c, kind)
        PROVE  StreamTold'
    BY <1>2 DEF Connect, MoveTo, StreamTold, streamVars, PortsTypeOK
  <1>3. ASSUME NEW c \in Clients, readSockets(c) \/ Poll(c) \/ Assign(c) \/ Take(c)
        PROVE  StreamTold'
    <2>1. UNCHANGED <<streaming, previous, view>>
      BY <1>3 DEF readSockets, Poll, Assign, Take, streamVars
    <2>2. \E label \in {"poll", "take", "assign", "build"} : MoveTo(c, label)
      BY <1>3 DEF readSockets, Poll, Assign, Take
    <2>3. QED
      BY <2>1, <2>2 DEF MoveTo, StreamTold, PortsTypeOK
  <1>4. ASSUME NEW c \in Clients, Build(c)
        PROVE  StreamTold'
    <2>1. PICK rows \in Contents(c) :
            LET sample == buildSnapshot(c, rows) IN
            \/ /\ streaming[c] = "no"
               /\ MoveTo(c, "idle")
               /\ UNCHANGED <<streaming, streamVars>>
            \/ /\ streaming[c] # "no"
               /\ IF streaming[c] = "first" THEN SendSnapshot(c, sample)
                                            ELSE SendChanges(c, sample)
               /\ previous' = [previous EXCEPT ![c] = sample]
               /\ MoveTo(c, "tick")
      BY <1>4 DEF Build
    <2> DEFINE sample == buildSnapshot(c, rows)
    <2> HIDE DEF sample
    <2>2. CASE streaming[c] = "no"
      BY <1>4, <2>1, <2>2 DEF MoveTo, StreamTold, streamVars, PortsTypeOK
    <2>3. ASSUME streaming[c] # "no"
          PROVE  /\ at' = [at EXCEPT ![c] = "tick"]
                 /\ streaming' = [streaming EXCEPT ![c] = "yes"]
                 /\ previous' = [previous EXCEPT ![c] = sample]
                 /\ view' = [view EXCEPT ![c] = Places(sample)]
      <3>1. CASE streaming[c] = "first"
        BY <2>1, <2>3, <3>1 DEF MoveTo, SendSnapshot, sample
      <3>2. CASE streaming[c] = "yes"
        <4>1. view[c] = Places(previous[c])
          BY <1>4, <3>2 DEF StreamTold
        <4>2. view' = [view EXCEPT ![c] =
                          (Places(previous[c]) \cup Places(diffPorts(previous[c], sample)))
                              \ Places(diffPorts(sample, previous[c]))]
          BY <2>1, <2>3, <3>2, <4>1 DEF SendChanges, sample
        <4>3. streaming' = [streaming EXCEPT ![c] = "yes"]
          BY <2>1, <2>3, <3>2 DEF SendChanges, PortsTypeOK
        <4>4. QED
          BY <2>1, <2>3, <4>2, <4>3, DiffsAddUp DEF MoveTo, sample
      <3>3. QED
        BY <1>4, <2>3, <3>1, <3>2 DEF PortsTypeOK
    <2>4. CASE streaming[c] # "no"
      <3>1. at'[c] = "tick" /\ streaming'[c] = "yes" /\ view'[c] = Places(previous'[c])
        BY <1>4, <2>3, <2>4 DEF PortsTypeOK
      <3>2. ASSUME NEW d \in Clients, d # c
            PROVE  /\ at'[d] = at[d] /\ streaming'[d] = streaming[d]
                   /\ previous'[d] = previous[d] /\ view'[d] = view[d]
        BY <2>3, <2>4, <3>2 DEF PortsTypeOK
      <3>3. QED
        BY <3>1, <3>2 DEF StreamTold
    <2>5. QED
      BY <2>2, <2>4
  <1>5. ASSUME NEW c \in Clients, ClientGone(c) \/ SampleFails(c)
        PROVE  StreamTold'
    BY <1>5 DEF ClientGone, SampleFails, End, MoveTo, StreamTold, PortsTypeOK
  <1>6. CASE UNCHANGED portsVars
    BY <1>6 DEF portsVars, StreamTold
  <1>7. QED
    BY <1>1, <1>2, <1>3, <1>4, <1>5, <1>6 DEF PortsNext, Step

-----------------------------------------------------------------------------
(* A step that leaves the snapshotter alone and takes no goroutine past    *)
(* the poller.                                                             *)
LEMMA SampleUntouched ==
    ASSUME SampleInv, UNCHANGED <<prev, cached, overlapped>>,
           \A d \in Clients : at'[d] \in Polled =>
               at'[d] = at[d] /\ list'[d] = list[d] /\ mixed'[d] = mixed[d],
           \A d \in Clients : at[d] = "assign" => at'[d] = "assign"
    PROVE  SampleInv'
  <1>1. AloneAfterPoll'
    BY DEF SampleInv, AloneAfterPoll
  <1>2. CacheIsLastList'
    BY DEF SampleInv, CacheIsLastList
  <1>3. SampleIsLastList'
    BY DEF SampleInv, SampleIsLastList, Polled
  <1>4. QED
    BY <1>1, <1>2, <1>3 DEF SampleInv

(* Undisturbed samples follow each other: one polls only after the other   *)
(* has stored the list and built its sample.                               *)
LEMMA SampleStep ==
    ASSUME PortsTypeOK, SampleInv, [PortsNext]_portsVars
    PROVE  SampleInv'
  <1>1. ASSUME NEW l \in Listeners, Change(l)
        PROVE  SampleInv'
    BY <1>1, SampleUntouched DEF Change, sampleVars
  <1>2. ASSUME NEW c \in Clients, NEW kind \in {"no", "first"}, Connect(c, kind)
        PROVE  SampleInv'
    BY <1>2, SampleUntouched DEF Connect, MoveTo, sampleVars, Polled, PortsTypeOK
  <1>3. ASSUME NEW c \in Clients, readSockets(c)
        PROVE  SampleInv'
    BY <1>3, SampleUntouched DEF readSockets, MoveTo, Polled, PortsTypeOK
  <1>4. ASSUME NEW c \in Clients, Poll(c)
        PROVE  SampleInv'
    <2>1. CASE overlapped'
      BY <2>1 DEF SampleInv, AloneAfterPoll, CacheIsLastList, SampleIsLastList
    <2>2. CASE ~overlapped'
      <3>1. /\ ~overlapped
            /\ \A d \in Clients : d # c => at[d] \notin Polled
        BY <1>4, <2>2 DEF Poll, Others, Sampling, Polled
      <3>2. cached = prev /\ cached' = cached
        BY <1>4, <3>1 DEF Poll, SampleInv, CacheIsLastList, Polled
      <3>3. \A d \in Clients : d # c => at'[d] = at[d]
        BY <1>4 DEF Poll, MoveTo, PortsTypeOK
      <3>4. AloneAfterPoll'
        BY <3>1, <3>3 DEF AloneAfterPoll
      <3>5. CASE Scan = prev
        <4>1. at'[c] = "take" /\ prev' = prev
          BY <1>4, <3>5 DEF Poll, MoveTo, PortsTypeOK
        <4>2. CacheIsLastList' /\ SampleIsLastList'
          BY <3>1, <3>2, <3>3, <4>1 DEF CacheIsLastList, SampleIsLastList, Polled
        <4>3. QED
          BY <3>4, <4>2 DEF SampleInv
      <3>6. CASE Scan # prev
        <4>1. BeingWritten(c) = {}
          BY <3>1 DEF BeingWritten, Others, Polled
        <4>2. /\ at'[c] = "assign"
              /\ list'[c] = prev'
          BY <1>4, <3>6 DEF Poll, MoveTo, PortsTypeOK
        <4>3. mixed'[c] = {}
          BY <1>4, <3>6, <4>1 DEF Poll, Others
        <4>4. CacheIsLastList'
          BY <1>4, <4>2 DEF CacheIsLastList
        <4>5. SampleIsLastList'
          BY <3>1, <3>3, <4>2, <4>3 DEF SampleIsLastList, Polled
        <4>6. QED
          BY <3>4, <4>4, <4>5 DEF SampleInv
      <3>7. QED
        BY <3>5, <3>6
    <2>3. QED
      BY <2>1, <2>2
  <1>5. ASSUME NEW c \in Clients, Assign(c) \/ Take(c)
        PROVE  SampleInv'
    <2>1. overlapped' = overlapped
      BY <1>5 DEF Assign, Take
    <2>2. CASE overlapped
      BY <2>1, <2>2 DEF SampleInv, AloneAfterPoll, CacheIsLastList, SampleIsLastList
    <2>3. CASE ~overlapped
      <3>1. /\ at[c] \in Polled
            /\ \A d \in Clients : d # c => at[d] \notin Polled
        BY <1>5, <2>3 DEF Assign, Take, Polled, SampleInv, AloneAfterPoll
      <3>2. /\ at'[c] = "build"
            /\ \A d \in Clients : d # c => at'[d] = at[d]
        BY <1>5 DEF Assign, Take, MoveTo, PortsTypeOK
      <3>3. BeingWritten(c) = {}
        BY <3>1 DEF BeingWritten, Others, Polled
      <3>4. mixed'[c] = {}
        BY <1>5, <3>3 DEF Assign, Take, PortsTypeOK
      <3>5. prev' = prev /\ cached' = prev /\ list'[c] = prev
        <4>1. CASE Assign(c)
          <5>1. Contents(c) = {prev}
            BY <1>5, <2>3, <4>1 DEF Assign, Contents, SampleInv, SampleIsLastList
          <5>2. QED
            BY <1>5, <4>1, <5>1 DEF Assign, Keep, PortsTypeOK
        <4>2. CASE Take(c)
          BY <1>5, <2>3, <4>2 DEF Take, SampleInv, SampleIsLastList, PortsTypeOK
        <4>3. QED
          BY <1>5, <4>1, <4>2
      <3>6. AloneAfterPoll' /\ CacheIsLastList'
        BY <3>1, <3>2, <3>5 DEF AloneAfterPoll, CacheIsLastList
      <3>7. SampleIsLastList'
        BY <3>1, <3>2, <3>4, <3>5 DEF SampleIsLastList, Polled
      <3>8. QED
        BY <3>6, <3>7 DEF SampleInv
    <2>4. QED
      BY <2>2, <2>3
  <1>6. ASSUME NEW c \in Clients, Build(c)
        PROVE  SampleInv'
    <2>1. /\ at[c] = "build"
          /\ UNCHANGED <<prev, cached, overlapped>>
          /\ list' = [list EXCEPT ![c] = {}]
          /\ mixed' = [mixed EXCEPT ![c] = {}]
      BY <1>6 DEF Build
    <2>2. \E label \in {"idle", "tick"} : MoveTo(c, label)
      BY <1>6 DEF Build
    <2>3. QED
      BY <1>6, <2>1, <2>2, SampleUntouched DEF MoveTo, Polled, PortsTypeOK
  <1>7. ASSUME NEW c \in Clients, ClientGone(c) \/ SampleFails(c)
        PROVE  SampleInv'
    <2>1. /\ at[c] \in {"start", "tick", "poll"}
          /\ UNCHANGED <<prev, cached, list, mixed, overlapped>>
          /\ MoveTo(c, "idle")
      BY <1>7 DEF ClientGone, SampleFails, End, sampleVars
    <2>2. QED
      BY <1>7, <2>1, SampleUntouched DEF MoveTo, Polled, PortsTypeOK
  <1>8. CASE UNCHANGED portsVars
    BY <1>8, SampleUntouched DEF portsVars
  <1>9. QED
    BY <1>1, <1>2, <1>3, <1>4, <1>5, <1>6, <1>7, <1>8 DEF PortsNext, Step

-----------------------------------------------------------------------------
(* The inductive invariant of the snapshotter and its streams.  As long as *)
(* no two samples have overlapped, every sample is built from the list     *)
(* that the poller saw last, although only one request is handed it        *)
(* (procPortSnapshotter.poll): the safety argument under PortsSettle.      *)
THEOREM PortsInvariant == PortsSpec => []PortsInv
  <1>1. PortsInit => PortsInv
    <2> SUFFICES ASSUME PortsInit
                 PROVE  PortsInv
      OBVIOUS
    <2>1. PortsTypeOK
      <3>1. /\ at \in [Clients -> {"idle", "start", "poll", "assign", "take", "build", "tick"}]
            /\ streaming \in [Clients -> {"no", "first", "yes"}]
        BY DEF PortsInit
      <3>2. /\ sockets \in [Clients -> SUBSET Listeners]
            /\ list \in [Clients -> SUBSET Rows]
            /\ mixed \in [Clients -> SUBSET Rows]
        BY DEF PortsInit
      <3>3. /\ previous \in [Clients -> SUBSET Entries]
            /\ view \in [Clients -> SUBSET [port : {l.port : l \in Listeners}, addr : Nat]]
        BY DEF PortsInit
      <3>4. /\ changes \in 0..MaxChanges
            /\ connects \in 0..MaxConnects
            /\ faults \in 0..MaxFaults
        BY PortsAssumption DEF PortsInit
      <3>5. QED
        BY <3>1, <3>2, <3>3, <3>4 DEF PortsInit, PortsTypeOK
    <2>2. StreamTold /\ SampleInv
      BY DEF PortsInit, StreamTold, SampleInv, AloneAfterPoll, CacheIsLastList,
         SampleIsLastList, Polled
    <2>3. QED
      BY <2>1, <2>2 DEF PortsInv
  <1>2. PortsInv /\ [PortsNext]_portsVars => PortsInv'
    BY PortsTypeStep, StreamToldStep, SampleStep DEF PortsInv
  <1>3. QED
    BY <1>1, <1>2, PTL DEF PortsSpec

(* Type correctness of the snapshotter, the samples and the streams: what  *)
(* is sampled, also from a torn array, are rows that somebody listened on, *)
(* and an address is one of theirs or none.                                *)
THEOREM PortsTypeCorrect == PortsSpec => []PortsTypeOK
  <1>1. PortsInv => PortsTypeOK
    BY DEF PortsInv
  <1>2. QED
    BY <1>1, PortsInvariant, PTL

(* A client that applies the events it was sent knows exactly the ports of *)
(* its stream's last sample, whatever the samples were (diffPorts,         *)
(* handlePortsStream).                                                     *)
THEOREM ViewIsLastSampleHolds == PortsSpec => []ViewIsLastSample
  <1>1. PortsInv => ViewIsLastSample
    BY DEF PortsInv, StreamTold, ViewIsLastSample
  <1>2. QED
    BY <1>1, PortsInvariant, PTL
=============================================================================
