------------------------------ MODULE JobStream ------------------------------
(***************************************************************************)
(* One asynchronous job from acceptance to eviction (internal/exec/jobs.go)*)
(* and the clients that follow it over GET /exec/jobs/{id}?stream=true     *)
(* (internal/exec/handlers.go over internal/sse).                          *)
(*                                                                         *)
(* A stream polls the store, builds the job's whole event list from what   *)
(* it finds, and sends the events numbered above the last one sent; event  *)
(* ids are that numbering.  A client that loses its connection reconnects  *)
(* with the id of the last event it received.  The store's clock runs by   *)
(* itself: an entry older than the TTL is evicted whether or not its job   *)
(* has ended, and a job that ends later stores its result again.           *)
(***************************************************************************)
EXTENDS Naturals, Sequences, SequencesExt

CONSTANTS
    Clients,       \* the clients that stream the job
    MaxLines,      \* bound on the lines of each output stream
    MaxConnects,   \* bound on the connections of a client
    MaxDrops,      \* bound on broken connections
    MaxRestarts    \* bound on restarts of the daemon

ASSUME StreamAssumption ==
    /\ MaxLines \in Nat
    /\ MaxConnects \in Nat
    /\ MaxDrops \in Nat
    /\ MaxRestarts \in Nat

VARIABLES
    phase,     \* the producer: no job yet, running, finished, or killed
    entry,     \* the job's record in JobStore.jobs, or Absent
    old,       \* storedAt of the entry lies before the cutoff
    truth,     \* history: the last record stored
    conn,      \* conn[c]: c's connection is open
    thread,    \* thread[c]: where the goroutine that runs streamJob is
    snap,      \* snap[c]: the events built from the last GetResult
    last,      \* last[c]: whether that result was terminal
    lastSent,  \* lastSent[c]: the local of streamJob
    seq,       \* seq[c]: Writer.seq
    net,       \* net[c]: frames written and not yet received
    got,       \* got[c]: the frames c received, over all its connections
    connects, drops, restarts

jobVars == <<phase, entry, old, truth>>
streamVars == <<thread, snap, last, lastSent, seq>>
boundVars == <<connects, drops, restarts>>
vars == <<phase, entry, old, truth, conn, thread, snap, last, lastSent, seq,
          net, got, connects, drops, restarts>>

-----------------------------------------------------------------------------
Result(st, out, err) == [status |-> st, stdout |-> out, stderr |-> err]

Absent   == Result("absent", 0, 0)
Accepted == Result("accepted", 0, 0)

Terminal == {"completed", "failed"}

Results == {Result(st, out, err) : st \in Terminal, out \in 0..MaxLines, err \in 0..MaxLines}

(* An event: its name and the status or the number of the line it carries. *)
StatusEvent(st)  == [name |-> "job.status", of |-> st, line |-> 0]
LineEvents(s, n) == [k \in 1..n |-> [name |-> s, of |-> "", line |-> k]]
EndEvent(st)     == [name |-> "job.end", of |-> st, line |-> 0]
ErrorEvent       == [name |-> "error", of |-> "", line |-> 0]

BuildJobEvents(res) ==
    <<StatusEvent("accepted")>>
    \o (IF res.status = "accepted" THEN <<>> ELSE <<StatusEvent(res.status)>>)
    \o LineEvents("job.stdout", res.stdout)
    \o LineEvents("job.stderr", res.stderr)
    \o (IF res.status \in Terminal THEN <<EndEvent(res.status)>> ELSE <<>>)

(* Client-side: the id to resume from, and whether the client has what it wants. *)
ResumeFrom(c) == IF got[c] = <<>> THEN 0 ELSE Last(got[c]).id

SawError(c) == \E i \in DOMAIN got[c] : got[c][i].ev = ErrorEvent

SawEnd(c) == \E i \in DOMAIN got[c] : got[c][i].ev.name = "job.end"

Received(c) == [i \in DOMAIN got[c] |-> got[c][i].ev]

-----------------------------------------------------------------------------
Events == (UNION {Range(BuildJobEvents(res)) : res \in Results}) \cup {ErrorEvent}

Frames == [id : Nat, ev : Events]

Threads == {"none", "poll", "send", "wait", "failed", "returned"}

TypeOK ==
    /\ phase \in {"none", "running", "finished", "killed"}
    /\ entry \in {Absent, Accepted} \cup Results
    /\ truth \in {Absent, Accepted} \cup Results
    /\ old \in BOOLEAN
    /\ conn \in [Clients -> BOOLEAN]
    /\ thread \in [Clients -> Threads]
    /\ snap \in [Clients -> Seq(Events)]
    /\ last \in [Clients -> BOOLEAN]
    /\ lastSent \in [Clients -> Nat]
    /\ seq \in [Clients -> Nat]
    /\ net \in [Clients -> Seq(Frames)]
    /\ got \in [Clients -> Seq(Frames)]
    /\ connects \in [Clients -> 0..MaxConnects]
    /\ drops \in 0..MaxDrops
    /\ restarts \in 0..MaxRestarts

Init ==
    /\ phase = "none"
    /\ entry = Absent
    /\ truth = Absent
    /\ old = FALSE
    /\ conn = [c \in Clients |-> FALSE]
    /\ thread = [c \in Clients |-> "none"]
    /\ snap = [c \in Clients |-> <<>>]
    /\ last = [c \in Clients |-> FALSE]
    /\ lastSent = [c \in Clients |-> 0]
    /\ seq = [c \in Clients |-> 0]
    /\ net = [c \in Clients |-> <<>>]
    /\ got = [c \in Clients |-> <<>>]
    /\ connects = [c \in Clients |-> 0]
    /\ drops = 0
    /\ restarts = 0

-----------------------------------------------------------------------------
(* The job and its record.                                                 *)
NewJob ==
    /\ phase = "none"
    /\ phase' = "running"
    /\ entry' = Accepted
    /\ truth' = Accepted
    /\ old' = FALSE
    /\ UNCHANGED <<conn, streamVars, net, got, boundVars>>

(* A producer that stores an intermediate result.                          *)
MutantStoreProgress ==
    /\ phase = "running"
    /\ entry' = Result("running", 0, 0)
    /\ truth' = entry'
    /\ old' = FALSE
    /\ UNCHANGED <<phase, conn, streamVars, net, got, boundVars>>

(* The producer's one result, also when the entry was evicted meanwhile.   *)
StoreResult ==
    /\ phase = "running"
    /\ phase' = "finished"
    /\ entry' \in Results
    /\ truth' = entry'
    /\ old' = FALSE
    /\ UNCHANGED <<conn, streamVars, net, got, boundVars>>

TTLPasses ==
    /\ entry # Absent
    /\ ~old
    /\ old' = TRUE
    /\ UNCHANGED <<phase, entry, truth, conn, streamVars, net, got, boundVars>>

Evict ==
    /\ entry # Absent
    /\ old
    /\ entry' = Absent
    /\ old' = FALSE
    /\ UNCHANGED <<phase, truth, conn, streamVars, net, got, boundVars>>

-----------------------------------------------------------------------------
(* handleJobStream: ResumeFrom, NewWriter, SetSequence.                    *)
Connect(c) ==
    /\ phase # "none"
    /\ ~conn[c]
    /\ ~SawEnd(c)
    /\ connects[c] < MaxConnects
    /\ connects' = [connects EXCEPT ![c] = @ + 1]
    /\ conn' = [conn EXCEPT ![c] = TRUE]
    /\ thread' = [thread EXCEPT ![c] = "poll"]
    /\ lastSent' = [lastSent EXCEPT ![c] = ResumeFrom(c)]
    /\ seq' = [seq EXCEPT ![c] = ResumeFrom(c)]
    /\ UNCHANGED <<jobVars, snap, last, net, got, drops, restarts>>

(* GetResult and buildJobEvents.                                           *)
Poll(c) ==
    /\ thread[c] = "poll"
    /\ IF entry = Absent
       THEN /\ thread' = [thread EXCEPT ![c] = "failed"]
            /\ UNCHANGED <<snap, last>>
       ELSE /\ thread' = [thread EXCEPT ![c] = "send"]
            /\ snap' = [snap EXCEPT ![c] = BuildJobEvents(entry)]
            /\ last' = [last EXCEPT ![c] = entry.status \in Terminal]
    /\ UNCHANGED <<jobVars, conn, lastSent, seq, net, got, boundVars>>

Write(c, event) ==
    /\ seq' = [seq EXCEPT ![c] = @ + 1]
    /\ net' = [net EXCEPT ![c] = Append(@, [id |-> seq[c] + 1, ev |-> event])]

(* A loop that sends the event it sent last once more.                     *)
MutantSendAgain(c) ==
    LET next == IF lastSent[c] = 0 THEN 1 ELSE lastSent[c] IN
    /\ thread[c] = "send"
    /\ next <= Len(snap[c])
    /\ Write(c, snap[c][next])
    /\ lastSent' = [lastSent EXCEPT ![c] = @ + 1]
    /\ UNCHANGED <<jobVars, conn, thread, snap, last, got, boundVars>>

(* One turn of the loop over the events that sends.                        *)
Send(c) ==
    /\ thread[c] = "send"
    /\ lastSent[c] < Len(snap[c])
    /\ Write(c, snap[c][lastSent[c] + 1])
    /\ lastSent' = [lastSent EXCEPT ![c] = @ + 1]
    /\ UNCHANGED <<jobVars, conn, thread, snap, last, got, boundVars>>

(* A loop that takes every result for the last one.                        *)
MutantLoopStops(c) ==
    /\ thread[c] = "send"
    /\ lastSent[c] >= Len(snap[c])
    /\ thread' = [thread EXCEPT ![c] = "returned"]
    /\ UNCHANGED <<jobVars, conn, snap, last, lastSent, seq, net, got, boundVars>>

(* The loop over the events is through.                                    *)
LoopEnd(c) ==
    /\ thread[c] = "send"
    /\ lastSent[c] >= Len(snap[c])
    /\ thread' = [thread EXCEPT ![c] = IF last[c] THEN "returned" ELSE "wait"]
    /\ UNCHANGED <<jobVars, conn, snap, last, lastSent, seq, net, got, boundVars>>

Tick(c) ==
    /\ thread[c] = "wait"
    /\ thread' = [thread EXCEPT ![c] = "poll"]
    /\ UNCHANGED <<jobVars, conn, snap, last, lastSent, seq, net, got, boundVars>>

(* sse.Handler turns the error of streamJob into an event of its own.      *)
SendError(c) ==
    /\ thread[c] = "failed"
    /\ thread' = [thread EXCEPT ![c] = "returned"]
    /\ Write(c, ErrorEvent)
    /\ UNCHANGED <<jobVars, conn, snap, last, lastSent, got, boundVars>>

-----------------------------------------------------------------------------
(* The network and the client.                                             *)
Receive(c) ==
    /\ net[c] # <<>>
    /\ got' = [got EXCEPT ![c] = Append(@, Head(net[c]))]
    /\ net' = [net EXCEPT ![c] = Tail(@)]
    /\ UNCHANGED <<jobVars, conn, streamVars, boundVars>>

(* The handler has returned and the client has read the stream to its end. *)
EndOfStream(c) ==
    /\ conn[c]
    /\ thread[c] = "returned"
    /\ net[c] = <<>>
    /\ conn' = [conn EXCEPT ![c] = FALSE]
    /\ thread' = [thread EXCEPT ![c] = "none"]
    /\ UNCHANGED <<jobVars, snap, last, lastSent, seq, net, got, boundVars>>

(* The connection breaks: written frames are lost, writes fail with        *)
(* ErrClientGone, and streamJob ends without an event.                     *)
Drop(c) ==
    /\ conn[c]
    /\ drops < MaxDrops
    /\ drops' = drops + 1
    /\ conn' = [conn EXCEPT ![c] = FALSE]
    /\ thread' = [thread EXCEPT ![c] = "none"]
    /\ net' = [net EXCEPT ![c] = <<>>]
    /\ UNCHANGED <<jobVars, snap, last, lastSent, seq, got, connects, restarts>>

(* The daemon restarts: the store is memory, the producer's goroutine dies. *)
RestartDaemon ==
    /\ phase # "none"
    /\ restarts < MaxRestarts
    /\ restarts' = restarts + 1
    /\ phase' = IF phase = "running" THEN "killed" ELSE phase
    /\ entry' = Absent
    /\ old' = FALSE
    /\ conn' = [c \in Clients |-> FALSE]
    /\ thread' = [c \in Clients |-> "none"]
    /\ net' = [c \in Clients |-> <<>>]
    /\ UNCHANGED <<truth, snap, last, lastSent, seq, got, connects, drops>>

(* Every client is served or has given up.                                 *)
Rest ==
    /\ phase \in {"finished", "killed"}
    /\ \A c \in Clients : ~conn[c]
    /\ UNCHANGED vars

Server(c) == Poll(c) \/ Send(c) \/ LoopEnd(c) \/ Tick(c) \/ SendError(c)

Client(c) == Connect(c) \/ Receive(c) \/ EndOfStream(c)

Next ==
    \/ NewJob \/ StoreResult \/ TTLPasses \/ Evict
    \/ \E c \in Clients : Server(c) \/ Client(c) \/ Drop(c)
    \/ RestartDaemon
    \/ Rest

Spec == Init /\ [][Next]_vars

(***************************************************************************)
(* The goroutines run, every producer has a timeout and then stores its    *)
(* result, and the clients read and reconnect.  The clock is not assumed   *)
(* to reach the TTL.                                                       *)
(***************************************************************************)
Fairness ==
    /\ WF_vars(StoreResult)
    /\ \A c \in Clients : WF_vars(Server(c)) /\ WF_vars(Client(c))

FairSpec == Spec /\ Fairness

-----------------------------------------------------------------------------
(* The inductive invariant.  A stored record only ever extends the event   *)
(* list; before the job there is no stream.                                *)
RecordInv ==
    /\ entry \in {Absent, truth}
    /\ phase = "none" => truth = Absent
    /\ phase = "running" => truth = Accepted
    /\ phase # "none" => truth \in {Accepted} \cup Results
    /\ phase = "none" => \A c \in Clients : ~conn[c] /\ got[c] = <<>>

(* A goroutine serves an open connection, nothing is on the wire of a      *)
(* closed one, and the two counters of a stream agree until it returns.    *)
Served(c) ==
    /\ thread[c] # "none" => conn[c]
    /\ ~conn[c] => net[c] = <<>>
    /\ thread[c] \in {"poll", "send", "wait", "failed"} => lastSent[c] = seq[c]

(* A list a stream is sending is a beginning of the job's list, even when  *)
(* the record has been replaced or evicted since the stream polled it.     *)
SnapBegins(c) ==
    thread[c] = "send" =>
        /\ Len(snap[c]) <= Len(BuildJobEvents(truth))
        /\ \A i \in DOMAIN snap[c] : snap[c][i] = BuildJobEvents(truth)[i]

(* Every frame, received or on the wire, carries the event its id names.   *)
Named(f) ==
    /\ f.id > 0
    /\ f.ev # ErrorEvent =>
            f.id <= Len(BuildJobEvents(truth)) /\ BuildJobEvents(truth)[f.id] = f.ev

FramesNamed(c) ==
    /\ \A i \in DOMAIN got[c] : Named(got[c][i])
    /\ \A i \in DOMAIN net[c] : Named(net[c][i])

(* Up to its first error event a client is sent the ids 1, 2, 3, ... over  *)
(* all its connections.                                                    *)
IdsInOrder(c) ==
    ~SawError(c) =>
        /\ \A i \in DOMAIN got[c] : got[c][i].id = i
        /\ \A i \in DOMAIN net[c] : net[c][i].id = Len(got[c]) + i
        /\ conn[c] => seq[c] = Len(got[c]) + Len(net[c])

ClientInv(c) == Served(c) /\ SnapBegins(c) /\ FramesNamed(c) /\ IdsInOrder(c)

StreamInv == RecordInv /\ \A c \in Clients : ClientInv(c)

-----------------------------------------------------------------------------
(***************************************************************************)
(* A client that saw no error event has, over all its connections, exactly *)
(* the first events of the job's list: none lost, none twice, none out of  *)
(* order, although each connection rebuilt the list from another snapshot. *)
(***************************************************************************)
ReplayExact ==
    \A c \in Clients :
        ~SawError(c) => IsPrefix(Received(c), BuildJobEvents(truth))

(***************************************************************************)
(* An id names an event: whatever the client and the connection, the job   *)
(* event with id i is the i-th of the job's list.                          *)
(***************************************************************************)
IdNamesEvent ==
    \A c \in Clients : \A f \in Range(got[c]) \cup Range(net[c]) :
        f.ev # ErrorEvent =>
            f.id <= Len(BuildJobEvents(truth)) /\ BuildJobEvents(truth)[f.id] = f.ev

(***************************************************************************)
(* If no record outlives its TTL and the daemon does not restart, a client *)
(* that keeps reading and reconnecting gets the job's last event.          *)
(***************************************************************************)
EndArrives ==
    [](~old /\ restarts = 0) => \A c \in Clients : phase = "running" ~> SawEnd(c)
=============================================================================
