---------------------------- MODULE JobLifecycle ----------------------------
(***************************************************************************)
(* What asynchronous jobs promise to those who ask for them: a record is   *)
(* there from acceptance on, it is replaced by one verdict, which comes,   *)
(* and it goes only by eviction.  JobStream assumes exactly this of the    *)
(* producer whose record it streams; JobProducers shows it.                *)
(***************************************************************************)
CONSTANTS Jobs, Verdicts, Accepted, None

VARIABLES
    phase,   \* phase[j]: "none", "running" or "finished"
    entry,   \* entry[j]: the record, None before acceptance and after eviction
    old      \* old[j]: the record is older than the TTL

vars == <<phase, entry, old>>

Init ==
    /\ phase = [j \in Jobs |-> "none"]
    /\ entry = [j \in Jobs |-> None]
    /\ old = [j \in Jobs |-> FALSE]

NewJob(j) ==
    /\ phase[j] = "none"
    /\ phase' = [phase EXCEPT ![j] = "running"]
    /\ entry' = [entry EXCEPT ![j] = Accepted]
    /\ UNCHANGED old

(* Also when the record was evicted while the job ran.                     *)
StoreResult(j) ==
    /\ phase[j] = "running"
    /\ phase' = [phase EXCEPT ![j] = "finished"]
    /\ \E v \in Verdicts : entry' = [entry EXCEPT ![j] = v]
    /\ old' = [old EXCEPT ![j] = FALSE]

TTLPasses(j) ==
    /\ entry[j] # None
    /\ ~old[j]
    /\ old' = [old EXCEPT ![j] = TRUE]
    /\ UNCHANGED <<phase, entry>>

Evict ==
    /\ entry' = [j \in Jobs |-> IF old[j] THEN None ELSE entry[j]]
    /\ old' = [j \in Jobs |-> FALSE]
    /\ UNCHANGED phase

Next ==
    \/ \E j \in Jobs : NewJob(j) \/ StoreResult(j) \/ TTLPasses(j)
    \/ Evict

Spec == Init /\ [][Next]_vars /\ \A j \in Jobs : WF_vars(StoreResult(j))
=============================================================================
