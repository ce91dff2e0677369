--------------------------- MODULE AdminTriggers ---------------------------
(***************************************************************************)
(* The operations an administrator starts by hand (internal/admin/ops.go   *)
(* and missing.go): a full sync, a collections refresh, the rebuild of one *)
(* collection, an eviction of low-priority artwork, a cache invalidation   *)
(* and a server test.  Requests run concurrently with each other and with  *)
(* the sync worker's own passes; the worker runs one pass at a time        *)
(* (inFlight), full syncs are throttled by the time of the last one, the   *)
(* other operations by checkRate's sliding window.                         *)
(*                                                                         *)
(* What an operation does to the library, the cache or the disk is         *)
(* modelled elsewhere; here it runs, succeeds or fails.  Ages replace the  *)
(* clock and stop counting at the window they are compared with.           *)
(***************************************************************************)
EXTENDS Integers, Sequences, FiniteSets

CONSTANTS Callers,      \* concurrent requests
          Limit,        \* Limit[op]: admitted per window, of the ops in use
          Window,       \* checkRate's window
          SyncWindow,   \* between full syncs
          NoCaller

Limited == {"rebuild", "evict", "invalidate", "test"}
Worker == "worker"      \* the worker's own passes

LimitAssumption == DOMAIN Limit \subseteq Limited /\ \A op \in DOMAIN Limit : Limit[op] >= 1

Ops == DOMAIN Limit \cup {"full", "collections"}

VARIABLES req,          \* req[c]: phase and operation of the caller's request
          rate,         \* rate[op]: ages of the admissions remembered
          lastFull,     \* age of lastSyncFull
          lastJob,      \* lastSyncJob, a job named after its caller
          syncing,      \* who runs a sync
          answer,       \* answer[c]: what the caller's last request was told
          turn          \* tells one question from the next

vars == <<req, rate, lastFull, lastJob, syncing, answer, turn>>

Idle == [phase |-> "idle", op |-> "none"]
Nothing == [code |-> "none", job |-> NoCaller]

TypeOK ==
    /\ \A c \in Callers : /\ req[c].phase \in {"idle", "start", "working", "syncing", "audit"}
                          /\ req[c].op \in Ops \cup {"none"}
                          /\ answer[c].code \in {"none", "done", "failed", "limited", "conflict"}
                          /\ answer[c].job \in Callers \cup {NoCaller}
    /\ \A op \in DOMAIN Limit : Len(rate[op]) <= Limit[op]
    /\ lastFull \in 0 .. SyncWindow
    /\ lastJob \in Callers \cup {NoCaller}
    /\ syncing \subseteq Callers \cup {Worker}
    /\ turn \in BOOLEAN

Init ==
    /\ req = [c \in Callers |-> Idle]
    /\ rate = [op \in DOMAIN Limit |-> <<>>]
    /\ lastFull = SyncWindow
    /\ lastJob = NoCaller
    /\ syncing = {}
    /\ answer = [c \in Callers |-> Nothing]
    /\ turn = FALSE

----------------------------------------------------------------------------
Answers(c, code, job) ==
    /\ answer' = [answer EXCEPT ![c] = [code |-> code, job |-> job]]
    /\ req' = [req EXCEPT ![c] = Idle]

Proceeds(c, phase, op) ==
    /\ req' = [req EXCEPT ![c] = [phase |-> phase, op |-> op]]
    /\ answer' = [answer EXCEPT ![c] = Nothing]

Fresh(op) == SelectSeq(rate[op], LAMBDA age : age < Window)

\* checkRate: admissions in the window are counted; a refusal is not one.
checkRate(op) ==
    rate' = [rate EXCEPT ![op] =
                IF Len(Fresh(op)) >= Limit[op] THEN Fresh(op) ELSE Append(Fresh(op), 0)]

Admits(op) == Len(Fresh(op)) < Limit[op]

\* A rate-limited operation is admitted or turned away.
AskLimited(c, op, phase) ==
    /\ req[c] = Idle /\ op \in DOMAIN Limit
    /\ checkRate(op)
    /\ IF Admits(op) THEN Proceeds(c, phase, op) ELSE Answers(c, "limited", NoCaller)
    /\ turn' = ~turn
    /\ UNCHANGED <<lastFull, lastJob, syncing>>

\* A rebuild goes on to ask for the sync worker.
AskRebuild(c) == AskLimited(c, "rebuild", "start")
AskEvict(c) == AskLimited(c, "evict", "working")
AskInvalidate(c) == AskLimited(c, "invalidate", "working")
AskTest(c) == AskLimited(c, "test", "working")

AskCollections(c) ==
    /\ req[c] = Idle
    /\ Proceeds(c, "start", "collections")
    /\ turn' = ~turn
    /\ UNCHANGED <<rate, lastFull, lastJob, syncing>>

\* handleSyncFull: the slot is taken before the sync is tried and is not given
\* back; inside the window the last job is reported as in flight.
AskFull(c) ==
    /\ req[c] = Idle
    /\ IF lastFull < SyncWindow
       THEN /\ Answers(c, "limited", lastJob)
            /\ UNCHANGED <<lastFull, lastJob>>
       ELSE /\ Proceeds(c, "start", "full")
            /\ lastFull' = 0
            /\ lastJob' = c
    /\ turn' = ~turn
    /\ UNCHANGED <<rate, syncing>>

\* Mutant: a sync begins although another runs.
BeginsUnguarded(who) == syncing' = syncing \cup {who}

\* The worker's inFlight flag.
Begins(who) == syncing = {} /\ syncing' = {who}

SyncStarts(c) ==
    /\ req[c].phase = "start"
    /\ Begins(c)
    /\ Proceeds(c, "syncing", req[c].op)
    /\ UNCHANGED <<rate, lastFull, lastJob, turn>>

\* ErrInFlight: a conflict, which a rebuild reports as a failure.
SyncInFlight(c) ==
    /\ req[c].phase = "start" /\ syncing # {}
    /\ Answers(c, IF req[c].op = "rebuild" THEN "failed" ELSE "conflict", NoCaller)
    /\ UNCHANGED <<rate, lastFull, lastJob, syncing, turn>>

\* The pass ends, and inFlight is cleared whatever it returned.
SyncEnds(c) ==
    /\ req[c].phase = "syncing"
    /\ syncing' = syncing \ {c}
    /\ \/ Proceeds(c, "audit", req[c].op)
       \/ Answers(c, "failed", NoCaller)
    /\ UNCHANGED <<rate, lastFull, lastJob, turn>>

WorkerStarts ==
    /\ Worker \notin syncing
    /\ Begins(Worker)
    /\ UNCHANGED <<req, rate, lastFull, lastJob, answer, turn>>

WorkerEnds ==
    /\ Worker \in syncing
    /\ syncing' = syncing \ {Worker}
    /\ UNCHANGED <<req, rate, lastFull, lastJob, answer, turn>>

\* An eviction may fail; an invalidation returns nothing; a test reports what it
\* found, an unreachable server included, unless no server is enabled.
Works(c, op, mayFail) ==
    /\ req[c] = [phase |-> "working", op |-> op]
    /\ \/ Proceeds(c, "audit", op)
       \/ mayFail /\ Answers(c, "failed", NoCaller)
    /\ UNCHANGED <<rate, lastFull, lastJob, syncing, turn>>

EvictEnds(c) == Works(c, "evict", TRUE)
InvalidateEnds(c) == Works(c, "invalidate", FALSE)
TestEnds(c) == Works(c, "test", TRUE)

\* auditEvent: the insert may fail, and the answer is the same.
Audit(c) ==
    /\ req[c].phase = "audit"
    /\ Answers(c, "done", IF req[c].op = "full" THEN c ELSE NoCaller)
    /\ UNCHANGED <<rate, lastFull, lastJob, syncing, turn>>

Tick ==
    /\ lastFull' = IF lastFull < SyncWindow THEN lastFull + 1 ELSE lastFull
    /\ rate' = [op \in DOMAIN Limit |->
                  [i \in DOMAIN rate[op] |-> IF rate[op][i] < Window THEN rate[op][i] + 1
                                                                     ELSE Window]]
    /\ UNCHANGED <<req, lastJob, syncing, answer, turn>>

----------------------------------------------------------------------------
Step(c) ==
    \/ SyncStarts(c) \/ SyncInFlight(c) \/ SyncEnds(c)
    \/ EvictEnds(c) \/ InvalidateEnds(c) \/ TestEnds(c)
    \/ Audit(c)

Next ==
    \/ \E c \in Callers : AskRebuild(c) \/ AskEvict(c) \/ AskInvalidate(c) \/ AskTest(c)
    \/ \E c \in Callers : AskCollections(c) \/ AskFull(c) \/ Step(c)
    \/ WorkerStarts \/ WorkerEnds
    \/ Tick

Spec == Init /\ [][Next]_vars

----------------------------------------------------------------------------
(* Properties.                                                             *)

(* Syncs never overlap, whoever starts them and however long one outlasts  *)
(* the throttle that would admit the next (Worker.inFlight, "Full sync is  *)
(* single flight").                                                        *)
OneSyncAtATime == Cardinality(syncing) <= 1

=============================================================================
