----------------------------- MODULE PortStream -----------------------------
(***************************************************************************)
(* The listening ports (internal/metrics): a request for one snapshot, and *)
(* a stream that starts with a snapshot and then tells, every interval,    *)
(* which ports were bound and which were released since its last one.      *)
(*                                                                         *)
(* All requests share one snapshotter.  Its poller (tailscale.com/portlist) *)
(* hands a list out only when it differs from the one before, whoever      *)
(* asked for that one; the snapshotter keeps the last list in cached, which *)
(* it rewrites in place and without a lock.                                *)
(***************************************************************************)
EXTENDS Naturals, FiniteSets, FiniteSetsExt

CONSTANTS
    Clients,
    Listeners,    \* [port, addr, pid]: what processes may listen on
    Enabled,      \* metrics.toml is there and its ports section enabled
    MaxChanges,   \* bound on the changes of what is listened on
    MaxConnects,  \* bound on the requests
    MaxFaults     \* bound on reads of procfs that fail

(* Addresses are numbered in the order of socketAddrScore, the best first. *)
NoAddr == 0

Rows == {[port |-> l.port, pid |-> l.pid] : l \in Listeners}

Entries == [row : Rows, addr : {NoAddr} \cup {l.addr : l \in Listeners}]

ASSUME PortsAssumption ==
    /\ \A l \in Listeners : l.addr \in Nat \ {NoAddr}
    /\ Enabled \in BOOLEAN
    /\ MaxChanges \in Nat /\ MaxConnects \in Nat /\ MaxFaults \in Nat

VARIABLES
    bound,       \* what is listened on
    prev,        \* Poller.prev: the list that was handed out last
    cached,      \* procPortSnapshotter.cached
    at,          \* at[c]: where the goroutine of c's request is
    streaming,   \* streaming[c]: c's request is for the stream, and its snapshot is sent
    sockets,     \* sockets[c]: what c's sample has read from /proc/net
    list,        \* list[c]: the list that c's sample writes to cached or reads from it
    mixed,       \* mixed[c]: what others write into the same array meanwhile
    previous,    \* previous[c]: c's last sample
    view,        \* view[c]: the ports that c knows of from its events
    overlapped,  \* two samples have been taken at the same time
    changes, connects, faults

osVars == <<bound, changes>>
sampleVars == <<prev, cached, sockets, list, mixed, overlapped>>
streamVars == <<previous, view>>
portsVars == <<bound, prev, cached, at, streaming, sockets, list, mixed, previous, view,
          overlapped, changes, connects, faults>>

(* What an event says of a port, its process left aside.                   *)
Place(e) == [port |-> e.row.port, addr |-> e.addr]

Places(entries) == {Place(e) : e \in entries}

PortsTypeOK ==
    /\ bound \subseteq Listeners
    /\ prev \subseteq Rows
    /\ cached \subseteq Rows
    /\ at \in [Clients -> {"idle", "start", "poll", "assign", "take", "build", "tick"}]
    /\ streaming \in [Clients -> {"no", "first", "yes"}]
    /\ sockets \in [Clients -> SUBSET Listeners]
    /\ list \in [Clients -> SUBSET Rows]
    /\ mixed \in [Clients -> SUBSET Rows]
    /\ previous \in [Clients -> SUBSET Entries]
    /\ view \in [Clients -> SUBSET [port : {l.port : l \in Listeners}, addr : Nat]]
    /\ overlapped \in BOOLEAN
    /\ changes \in 0..MaxChanges /\ connects \in 0..MaxConnects /\ faults \in 0..MaxFaults

PortsInit ==
    /\ bound \in SUBSET Listeners
    /\ prev = {} /\ cached = {}
    /\ at = [c \in Clients |-> "idle"]
    /\ streaming = [c \in Clients |-> "no"]
    /\ sockets = [c \in Clients |-> {}]
    /\ list = [c \in Clients |-> {}]
    /\ mixed = [c \in Clients |-> {}]
    /\ previous = [c \in Clients |-> {}]
    /\ view = [c \in Clients |-> {}]
    /\ overlapped = FALSE
    /\ changes = 0 /\ connects = 0 /\ faults = 0

-----------------------------------------------------------------------------
(* Outside: a process starts or stops listening.                           *)
Change(l) ==
    /\ changes < MaxChanges
    /\ changes' = changes + 1
    /\ bound' = IF l \in bound THEN bound \ {l} ELSE bound \cup {l}
    /\ UNCHANGED <<sampleVars, at, streaming, streamVars, connects, faults>>

MoveTo(c, label) == at' = [at EXCEPT ![c] = label]

(* handlePorts and handleAll take one sample, handlePortsStream many.      *)
Connect(c, kind) ==
    /\ at[c] = "idle"
    /\ connects < MaxConnects
    /\ connects' = connects + 1
    /\ IF Enabled
       THEN MoveTo(c, "start") /\ streaming' = [streaming EXCEPT ![c] = kind]
       ELSE UNCHANGED <<at, streaming>>
    /\ UNCHANGED <<osVars, sampleVars, streamVars, faults>>

-----------------------------------------------------------------------------
(* Snapshot, at the request or at the stream's tick: the sockets first,    *)
(* then the list of ports and processes.                                   *)
readSockets(c) ==
    /\ at[c] \in {"start", "tick"}
    /\ sockets' = [sockets EXCEPT ![c] = bound]
    /\ MoveTo(c, "poll")
    /\ UNCHANGED <<osVars, prev, cached, list, mixed, overlapped, streaming, streamVars,
                   connects, faults>>

Sampling == {"poll", "assign", "take", "build"}

Others(c, labels) == {d \in Clients \ {c} : at[d] \in labels}

(* The columns of the list are mixed up.                                   *)
MutantScan == {[port |-> l.port, pid |-> l.addr] : l \in bound}

Scan == {[port |-> l.port, pid |-> l.pid] : l \in bound}

(* The lists that others are writing into the array.                       *)
BeingWritten(c) == UNION {list[d] : d \in Others(c, {"assign"})}

(* poll, up to what the poller answers: a list that has changed is written *)
(* to cached, where it meets who writes or reads there.                    *)
Poll(c) ==
    /\ at[c] = "poll"
    /\ overlapped' = (overlapped \/ Others(c, Sampling) # {})
    /\ IF Scan = prev
       THEN /\ MoveTo(c, "take")
            /\ UNCHANGED <<prev, list, mixed>>
       ELSE /\ MoveTo(c, "assign")
            /\ prev' = Scan
            /\ list' = [list EXCEPT ![c] = Scan]
            /\ mixed' = [d \in Clients |->
                            CASE d = c                              -> BeingWritten(c)
                              [] d \in Others(c, {"assign", "build"}) -> mixed[d] \cup Scan
                              [] OTHER                              -> mixed[d]]
    /\ UNCHANGED <<osVars, cached, sockets, streaming, streamVars, connects, faults>>

(* What c may find in the array: its list, or, where others write into it  *)
(* meanwhile, any mixture.                                                 *)
Contents(c) == IF mixed[c] = {} THEN {list[c]} ELSE SUBSET (list[c] \cup mixed[c])

(* A changed list is handed on and not kept.                               *)
MutantNotKept(l) == UNCHANGED cached

Keep(l) == cached' = l

(* p.cached = append(p.cached[:0], ports...); return p.cached.             *)
Assign(c) ==
    /\ at[c] = "assign"
    /\ \E l \in Contents(c) :
        /\ Keep(l)
        /\ list' = [list EXCEPT ![c] = l]
    /\ mixed' = [mixed EXCEPT ![c] = BeingWritten(c)]
    /\ MoveTo(c, "build")
    /\ UNCHANGED <<osVars, prev, sockets, overlapped, streaming, streamVars, connects, faults>>

(* return p.cached, for a list that has not changed.                       *)
Take(c) ==
    /\ at[c] = "take"
    /\ list' = [list EXCEPT ![c] = cached]
    /\ mixed' = [mixed EXCEPT ![c] = BeingWritten(c)]
    /\ MoveTo(c, "build")
    /\ UNCHANGED <<osVars, prev, cached, sockets, overlapped, streaming, streamVars, connects,
                   faults>>

selectSocketAddr(c, port) ==
    LET found == {l.addr : l \in {s \in sockets[c] : s.port = port}}
    IN  IF found = {} THEN NoAddr ELSE Min(found)

buildSnapshot(c, rows) == {[row |-> w, addr |-> selectSocketAddr(c, w.port)] : w \in rows}

-----------------------------------------------------------------------------
(* Two entries of one port are one.                                        *)
MutantPortOnly(e) == e.row.port

portIdentity(e) == Place(e)

diffPorts(before, after) ==
    {e \in after : portIdentity(e) \notin {portIdentity(b) : b \in before}}

(* The client takes the ports of ports.snapshot for what is bound.         *)
SendSnapshot(c, sample) ==
    /\ streaming' = [streaming EXCEPT ![c] = "yes"]
    /\ view' = [view EXCEPT ![c] = Places(sample)]

(* It adds the ports of the port.bound events, and takes the ones of the   *)
(* port.released events away.                                              *)
SendChanges(c, sample) ==
    /\ view' = [view EXCEPT ![c] = (@ \cup Places(diffPorts(previous[c], sample)))
                                        \ Places(diffPorts(sample, previous[c]))]
    /\ UNCHANGED streaming

(* The sample is complete, and answers a single request or goes to the     *)
(* stream.  Writing shares nothing with other requests.                    *)
Build(c) ==
    /\ at[c] = "build"
    /\ \E rows \in Contents(c) :
        LET sample == buildSnapshot(c, rows) IN
        \/ /\ streaming[c] = "no"
           /\ MoveTo(c, "idle")
           /\ UNCHANGED <<streaming, streamVars>>
        \/ /\ streaming[c] # "no"
           /\ IF streaming[c] = "first" THEN SendSnapshot(c, sample) ELSE SendChanges(c, sample)
           /\ previous' = [previous EXCEPT ![c] = sample]
           /\ MoveTo(c, "tick")
    /\ sockets' = [sockets EXCEPT ![c] = {}]
    /\ list' = [list EXCEPT ![c] = {}]
    /\ mixed' = [mixed EXCEPT ![c] = {}]
    /\ UNCHANGED <<osVars, prev, cached, overlapped, connects, faults>>

(* The stream is over: what the client knows is void.                      *)
End(c) ==
    /\ MoveTo(c, "idle")
    /\ streaming' = [streaming EXCEPT ![c] = "no"]
    /\ previous' = [previous EXCEPT ![c] = {}]
    /\ view' = [view EXCEPT ![c] = {}]

(* A write, or the wait for the tick, finds that the client is gone.       *)
ClientGone(c) ==
    /\ at[c] = "tick"
    /\ End(c)
    /\ UNCHANGED <<osVars, sampleVars, connects, faults>>

(* procfs cannot be read: a single request is answered 500, a stream ends. *)
SampleFails(c) ==
    /\ at[c] \in {"start", "tick", "poll"}
    /\ faults < MaxFaults
    /\ faults' = faults + 1
    /\ End(c)
    /\ sockets' = [sockets EXCEPT ![c] = {}]
    /\ UNCHANGED <<osVars, prev, cached, list, mixed, overlapped, connects>>

-----------------------------------------------------------------------------
Step(c) ==
    \/ readSockets(c) \/ Poll(c) \/ Assign(c) \/ Take(c) \/ Build(c)

PortsNext ==
    \/ \E l \in Listeners : Change(l)
    \/ \E c \in Clients :
        \/ \E kind \in {"no", "first"} : Connect(c, kind)
        \/ Step(c) \/ ClientGone(c) \/ SampleFails(c)

PortsSpec == PortsInit /\ [][PortsNext]_portsVars

(* The goroutines of the requests run and their tickers tick.              *)
FairPortsSpec == PortsSpec /\ \A c \in Clients : WF_portsVars(Step(c))

-----------------------------------------------------------------------------
(***************************************************************************)
(* Between two samples a client that applies the events it was sent knows  *)
(* exactly the ports of the stream's last sample, whatever the samples     *)
(* were: also when other requests tore them (handlePortsStream, "previous  *)
(* = current").                                                            *)
(***************************************************************************)
ViewIsLastSample ==
    \A c \in Clients : at[c] = "tick" => view[c] = Places(previous[c])

(* The ports as one undisturbed sample shows them.                         *)
Truth == {[port |-> l.port, addr |-> Min({k.addr : k \in {j \in bound : j.port = l.port}})] :
            l \in bound}

(***************************************************************************)
(* Once processes stop binding and releasing ports, every stream has told  *)
(* its client of exactly the ports that are listened on, although only one *)
(* of the requests that share the poller is handed a changed list -        *)
(* provided that no two samples ever overlapped.  After an overlap an old  *)
(* list may stay in cached for good.                                       *)
(***************************************************************************)
PortsSettle ==
    <>[](overlapped \/ \A c \in Clients : at[c] = "tick" => view[c] = Truth)

-----------------------------------------------------------------------------
(* The inductive invariant.  A stream that has sent its snapshot knows     *)
(* what its client knows.                                                  *)
StreamTold ==
    /\ \A c \in Clients : at[c] = "tick" => streaming[c] = "yes"
    /\ \A c \in Clients : streaming[c] = "yes" => view[c] = Places(previous[c])

(* The goroutines that the poller has answered.                            *)
Polled == {"assign", "take", "build"}

(***************************************************************************)
(* As long as no two samples have overlapped, the snapshotter keeps the    *)
(* poller's last list, except while the one goroutine that was handed it   *)
(* is about to store it, and a sample is built from that list, untorn.     *)
(***************************************************************************)
AloneAfterPoll ==
    overlapped \/ \A c, d \in Clients : at[c] \in Polled /\ at[d] \in Polled => c = d

CacheIsLastList ==
    overlapped \/ cached = prev \/ \E c \in Clients : at[c] = "assign"

SampleIsLastList ==
    overlapped \/ \A c \in Clients :
        /\ at[c] \in {"assign", "build"} => list[c] = prev /\ mixed[c] = {}
        /\ at[c] \in {"take", "build"} => cached = prev

SampleInv == AloneAfterPoll /\ CacheIsLastList /\ SampleIsLastList

PortsInv == PortsTypeOK /\ StreamTold /\ SampleInv
=============================================================================
