--------------------------- MODULE WarmerSchedule ---------------------------
(***************************************************************************)
(* The scheduler of the background warmer (internal/warmer/scheduling.go): *)
(* the queue of observed requests, the short-lived credentials they are    *)
(* refreshed with, and the pass that refreshes them one by one while       *)
(* browsing, pauses and configuration changes interrupt it.                *)
(*                                                                         *)
(* The lock w.mu is the grain of the actions.  Counters that the code only *)
(* compares are replaced by what the comparison tells:                     *)
(*   sequence, observed   the order of queue                               *)
(*   last                 the order of byLast                              *)
(*   served               the order of served (absent: never)              *)
(*   contextVersion       the order of contexts, oldest first; all live    *)
(*                        for the same time, so they lapse in that order   *)
(*   c.job.sequence, c.version   pass.same and pass.renewed: whether the   *)
(*                        candidate is still the queued job, its           *)
(*                        credential still the context of its scope        *)
(* and a job is ready when half its TTL and its backoff have passed.       *)
(* The proxy only calls TrackAuthorized, so every job requires a context   *)
(* and the owner's token is never used.  CanWarm is not set by main.go.    *)
(***************************************************************************)
EXTENDS Integers, Sequences, FiniteSets, SequencesExt, Functions

CONSTANTS
    Jobs,           \* snapshot ids
    ScopeOf,        \* the identity scope of each
    PriorityOf,     \* routePriority of its path
    MaxContexts,    \* maxContexts
    MaxForeground,  \* bound on concurrent browse requests
    MaxEntryBytes,  \* cache.MaxEntryBytes
    Configs         \* configurations the administrator may set

Scopes == {ScopeOf[j] : j \in Jobs}
NoJob == "none"

VARIABLES
    config,         \* w.config
    paused,         \* w.paused
    foreground,     \* w.foreground
    tracked,        \* [Jobs -> [ready, stale]]: stale if its key is obsolete
    queue,          \* tracked ids in the order they were tracked
    byLast,         \* tracked ids in the order of their last refresh
    contexts,       \* credentials: sequence of [scope, live]
    served,         \* scopes in the order they were last served
    pass,           \* the running refreshPass
    spent,          \* history: requests sent and bytes read by this pass
    overtaken       \* history: <<t, s>> if s was served while t waited, t has
                    \* waited ever since, and s has kept its place in served

queueVars == <<tracked, queue, byLast>>
vars == <<config, paused, foreground, tracked, queue, byLast, contexts, served, pass, spent,
          overtaken>>

Tracked == ToSet(queue)
Without(s, S) == SelectSeq(s, LAMBDA x : x \notin S)
PositionIn(s, x) == IF x \in ToSet(s) THEN CHOOSE i \in DOMAIN s : s[i] = x ELSE 0

Held(s) == \E i \in DOMAIN contexts : contexts[i].scope = s
Live(s) == \E i \in DOMAIN contexts : contexts[i].scope = s /\ contexts[i].live
Quiet == foreground = 0 /\ ~paused /\ config.enabled

Idle == [at |-> "idle", job |-> NoJob, same |-> FALSE, renewed |-> FALSE, stale |-> FALSE,
         cancelled |-> FALSE, revoked |-> FALSE, limits |-> [requests |-> 0, bytes |-> 0], share |-> 0, size |-> 0,
         requests |-> 0, perScope |-> [s \in Scopes |-> 0], used |-> 0]
NothingSpent == [requests |-> [s \in Scopes |-> 0], bytes |-> 0]

Init ==
    /\ config \in Configs /\ config.enabled
    /\ paused = FALSE
    /\ foreground = 0
    /\ tracked = [j \in Jobs |-> [ready |-> FALSE, stale |-> FALSE]]
    /\ queue = <<>> /\ byLast = <<>>
    /\ contexts = <<>> /\ served = <<>>
    /\ pass = Idle
    /\ spent = NothingSpent /\ overtaken = {}

-----------------------------------------------------------------------------
(* What a change of the queue or of the contexts does to the candidate in  *)
(* flight.  revoked is a history: its credential lapsed or was withdrawn   *)
(* after it was picked and before its publication was permitted.           *)

InFlight == pass.job # NoJob
BeforePermit == pass.at \in {"key", "start", "fetch", "body"}

Disturbed(gone, lost, cancel, revoke) ==
    [pass EXCEPT !.same = @ /\ pass.job \notin gone,
                 !.renewed = @ \/ (InFlight /\ ScopeOf[pass.job] \in lost),
                 !.cancelled = @ \/ (cancel /\ pass.at \in {"fetch", "body", "store"}),
                 !.revoked = @ \/ (BeforePermit /\ ScopeOf[pass.job] \in revoke)]

\* Mutant: a dropped job stays in the order of refreshes.
DropQueued(gone) ==
    /\ queue' = Without(queue, gone)
    /\ UNCHANGED byLast
    /\ tracked' = [j \in Jobs |-> IF j \in gone THEN [ready |-> FALSE, stale |-> FALSE] ELSE tracked[j]]

\* delete(w.tracked, id) for every id of gone
Drop(gone) ==
    /\ queue' = Without(queue, gone)
    /\ byLast' = Without(byLast, gone)
    /\ tracked' = [j \in Jobs |-> IF j \in gone THEN [ready |-> FALSE, stale |-> FALSE] ELSE tracked[j]]

\* expireContextsLocked: lapsed contexts, and the history of scopes without jobs
Unexpired == SelectSeq(contexts, LAMBDA c : c.live)
ServedWithJobs == SelectSeq(served, LAMBDA s : \E j \in Tracked : ScopeOf[j] = s)

\* evictJobLocked: the lowest priority, the oldest observation among those
GoesBefore(j, k) ==
    \/ PriorityOf[j] < PriorityOf[k]
    \/ PriorityOf[j] = PriorityOf[k] /\ PositionIn(queue, j) < PositionIn(queue, k)
Victim == CHOOSE j \in Tracked : \A k \in Tracked \ {j} : GoesBefore(j, k)

\* Configure evicts until the queue fits
Evicted(c) == {j \in Tracked : Cardinality({k \in Tracked : GoesBefore(j, k)}) >= c.maxTracked}

-----------------------------------------------------------------------------
(* The administrator *)

Configure(c) ==
    /\ c # config
    /\ config' = c
    /\ contexts' = IF c.enabled THEN contexts ELSE <<>>
    /\ LET gone == Evicted(c) IN
        /\ Drop(gone)
        /\ pass' = Disturbed(gone, IF c.enabled THEN {} ELSE Scopes, ~c.enabled,
                             IF c.enabled THEN {} ELSE Scopes)
    /\ UNCHANGED <<paused, foreground, served, spent>>

SetPaused(p) ==
    /\ p # paused
    /\ paused' = p
    /\ pass' = Disturbed({}, {}, p, {})
    /\ UNCHANGED <<config, foreground, queueVars, contexts, served, spent>>

-----------------------------------------------------------------------------
(* Browsing: every call below happens inside a request ServeHTTP has       *)
(* announced with Foreground                                               *)

Foreground ==
    /\ foreground < MaxForeground
    /\ foreground' = foreground + 1
    /\ pass' = Disturbed({}, {}, TRUE, {})
    /\ UNCHANGED <<config, paused, queueVars, contexts, served, spent>>

ForegroundEnds ==
    /\ foreground > 0
    /\ foreground' = foreground - 1
    /\ UNCHANGED <<config, paused, queueVars, contexts, served, pass, spent>>

\* The context of s after a successful foreground response: the oldest one
\* makes room when there are too many
Authorized(held, s) ==
    LET others == SelectSeq(held, LAMBDA c : c.scope # s)
    IN  (IF Len(others) = Len(held) /\ Len(held) >= MaxContexts THEN Tail(others) ELSE others)
        \o <<[scope |-> s, live |-> TRUE]>>

\* What makes room for j: nothing, the victim, or (no room) j itself
Displaced(j) ==
    IF j \in Tracked \/ Len(queue) < config.maxTracked THEN {}
    ELSE IF PriorityOf[Victim] > PriorityOf[j] THEN {j}
    ELSE {Victim}

TrackAuthorized(j) ==
    /\ foreground > 0
    /\ IF ~config.enabled THEN UNCHANGED <<queueVars, contexts, served, pass>> ELSE
       LET gone == Displaced(j)
           new == Authorized(Unexpired, ScopeOf[j])
           lost == {s \in Scopes : s = ScopeOf[j] \/ (Held(s) /\ \A i \in DOMAIN new : new[i].scope # s)}
       IN  /\ contexts' = new
           /\ served' = ServedWithJobs
           /\ pass' = Disturbed(gone \cup {j}, lost, FALSE, lost \ {ScopeOf[j]})
           /\ IF j \in gone THEN UNCHANGED queueVars ELSE
              /\ queue' = Append(Without(queue, gone \cup {j}), j)
              /\ byLast' = Append(Without(byLast, gone \cup {j}), j)
              /\ tracked' = [k \in Jobs |-> IF k \in gone \cup {j} THEN [ready |-> FALSE, stale |-> FALSE]
                                            ELSE tracked[k]]
    /\ UNCHANGED <<config, paused, foreground, spent>>

\* A rejection by PMS, or an invalid identity
ForgetScope(s) ==
    /\ foreground > 0
    /\ contexts' = SelectSeq(contexts, LAMBDA c : c.scope # s)
    /\ served' = Without(served, {s})
    /\ LET gone == {j \in Tracked : ScopeOf[j] = s} IN
        /\ Drop(gone)
        /\ pass' = Disturbed(gone, {s}, InFlight /\ ScopeOf[pass.job] = s, {s})
    /\ UNCHANGED <<config, paused, foreground, spent>>

-----------------------------------------------------------------------------
(* Time, and invalidations of the namespace a job's key belongs to *)

BecomeReady(j) ==
    /\ j \in Tracked /\ ~tracked[j].ready
    /\ tracked' = [tracked EXCEPT ![j].ready = TRUE]
    /\ UNCHANGED <<config, paused, foreground, queue, byLast, contexts, served, pass, spent>>

Lapse ==
    \E i \in DOMAIN contexts :
        /\ contexts[i].live /\ \A k \in 1..(i - 1) : ~contexts[k].live
        /\ contexts' = [contexts EXCEPT ![i].live = FALSE]
        /\ pass' = Disturbed({}, {}, FALSE, {contexts[i].scope})
        /\ UNCHANGED <<config, paused, foreground, queueVars, served, spent>>

BumpGeneration(j) ==
    /\ (j \in Tracked /\ ~tracked[j].stale) \/ (pass.job = j /\ ~pass.stale)
    /\ tracked' = [tracked EXCEPT ![j].stale = j \in Tracked]
    /\ pass' = [pass EXCEPT !.stale = @ \/ pass.job = j]
    /\ UNCHANGED <<config, paused, foreground, queue, byLast, contexts, served, spent>>

-----------------------------------------------------------------------------
(* The pass *)

\* refreshPass, first lock: one pass at a time, none while anything yields
BeginPass ==
    /\ pass.at = "idle"
    /\ Quiet
    /\ contexts' = Unexpired
    /\ served' = ServedWithJobs
    /\ pass' = [Idle EXCEPT !.at = "turn"]
    /\ spent' = NothingSpent
    /\ UNCHANGED <<config, paused, foreground, queueVars>>

EndPass == pass' = Idle /\ spent' = NothingSpent

\* The budgets are compared with the configuration read here, which the
\* administrator may replace before the candidate is picked
CheckBudget ==
    /\ pass.at = "turn"
    /\ IF pass.requests >= config.requestsPerPass \/ config.bytesPerPass - pass.used < MaxEntryBytes + 1
       THEN EndPass
       ELSE pass' = [pass EXCEPT !.at = "pick",
                               !.limits = [requests |-> config.requestsPerPass, bytes |-> config.bytesPerPass]] /\ UNCHANGED spent
    /\ UNCHANGED <<config, paused, foreground, queueVars, contexts, served>>

Eligible(j) ==
    /\ j \in Tracked /\ tracked[j].ready
    /\ pass.perScope[ScopeOf[j]] < config.maxPerScopePerPass
    /\ Live(ScopeOf[j])

\* nextCandidateLocked: the job of its scope with the highest priority, then
\* the oldest refresh; among scopes the one served longest ago
BestOfScope(j) ==
    \A k \in {k \in Jobs \ {j} : Eligible(k) /\ ScopeOf[k] = ScopeOf[j]} :
        \/ PriorityOf[j] > PriorityOf[k]
        \/ PriorityOf[j] = PriorityOf[k] /\ PositionIn(byLast, j) < PositionIn(byLast, k)

\* Mutant: the scope served longest ago is not preferred.
ByPriorityAlone(j, k) ==
    \/ PriorityOf[j] > PriorityOf[k]
    \/ PriorityOf[j] = PriorityOf[k] /\ PositionIn(queue, j) < PositionIn(queue, k)

Precedes(j, k) ==
    LET turn(x) == PositionIn(served, ScopeOf[x]) IN
    \/ turn(j) < turn(k)
    \/ turn(j) = turn(k) /\ PriorityOf[j] > PriorityOf[k]
    \/ turn(j) = turn(k) /\ PriorityOf[j] = PriorityOf[k] /\ PositionIn(queue, j) < PositionIn(queue, k)

nextCandidate ==
    LET choices == {j \in Jobs : Eligible(j) /\ BestOfScope(j)}
    IN  {j \in choices : \A k \in choices \ {j} : Precedes(j, k)}

Pick ==
    /\ pass.at = "pick"
    /\ IF ~Quiet \/ nextCandidate = {}
       THEN EndPass
       ELSE \E j \in nextCandidate :
            /\ pass' = [pass EXCEPT !.at = "key", !.job = j, !.same = TRUE, !.renewed = FALSE,
                                    !.stale = tracked[j].stale, !.cancelled = FALSE, !.revoked = FALSE,
                                    !.share = config.maxPerScopePerPass]
            /\ UNCHANGED spent
    /\ contexts' = Unexpired
    /\ served' = ServedWithJobs
    /\ UNCHANGED <<config, paused, foreground, queueVars>>

\* Without the lock the key is recomputed; an obsolete candidate is deleted
\* from the queue whatever the queue holds under its id by now
CheckKey ==
    /\ pass.at = "key"
    /\ IF pass.stale
       THEN Drop({pass.job}) /\ pass' = [Idle EXCEPT !.at = "turn", !.limits = pass.limits, !.used = pass.used,
                                     !.requests = pass.requests, !.perScope = pass.perScope]
       ELSE UNCHANGED queueVars /\ pass' = [pass EXCEPT !.at = "start"]
    /\ UNCHANGED <<config, paused, foreground, contexts, served, spent>>

\* Mutant: the request starts without looking at browsing again.
StartUnchecked ==
    /\ pass.at = "start"
    /\ pass' = [pass EXCEPT !.at = "fetch"]
    /\ served' = Append(Without(served, {ScopeOf[pass.job]}), ScopeOf[pass.job])
    /\ spent' = [spent EXCEPT !.requests[ScopeOf[pass.job]] = @ + 1]
    /\ UNCHANGED <<config, paused, foreground, queueVars, contexts>>

Start ==
    /\ pass.at = "start"
    /\ IF ~Quiet THEN EndPass /\ UNCHANGED served
       ELSE /\ pass' = [pass EXCEPT !.at = "fetch"]
            /\ served' = Append(Without(served, {ScopeOf[pass.job]}), ScopeOf[pass.job])
            /\ spent' = [spent EXCEPT !.requests[ScopeOf[pass.job]] = @ + 1]
    /\ UNCHANGED <<config, paused, foreground, queueVars, contexts>>

\* Mutant: bytes are not counted.
CountedRequests(n) ==
    [Idle EXCEPT !.at = "turn", !.limits = pass.limits, !.used = pass.used,
                 !.requests = pass.requests + 1,
                 !.perScope = [pass.perScope EXCEPT ![ScopeOf[pass.job]] = @ + 1]]

\* After refreshChecked returned with n bytes read
Counted(n) ==
    [Idle EXCEPT !.at = "turn", !.limits = pass.limits, !.used = pass.used + n,
                 !.requests = pass.requests + 1,
                 !.perScope = [pass.perScope EXCEPT ![ScopeOf[pass.job]] = @ + 1]]

\* refreshChecked failed: rejected credentials take the scope's context and
\* jobs with them, anything else (a cancellation too) backs the job off
Failed(rejected, n) ==
    /\ IF rejected
       THEN /\ contexts' = SelectSeq(contexts, LAMBDA c : c.scope # ScopeOf[pass.job])
            /\ Drop({j \in Tracked : ScopeOf[j] = ScopeOf[pass.job]})
       ELSE /\ tracked' = IF pass.same THEN [tracked EXCEPT ![pass.job].ready = FALSE] ELSE tracked
            /\ UNCHANGED <<contexts, queue, byLast>>
    /\ pass' = Counted(n)
    /\ spent' = [spent EXCEPT !.bytes = @ + n]
    /\ UNCHANGED <<config, paused, foreground, served>>

\* An error, a status other than 200, an oversized or unstorable body
FetchFails == pass.at = "fetch" /\ \E n \in 0..(MaxEntryBytes + 1) : Failed(FALSE, n)
FetchRejected == pass.at = "fetch" /\ \E n \in 0..MaxEntryBytes : Failed(TRUE, n)

FetchSucceeds ==
    /\ pass.at = "fetch"
    /\ ~pass.cancelled
    /\ \E n \in 0..MaxEntryBytes : pass' = [pass EXCEPT !.at = "body", !.size = n]
    /\ UNCHANGED <<config, paused, foreground, queueVars, contexts, served, spent>>

permit == pass.same /\ Quiet /\ ~pass.renewed /\ Live(ScopeOf[pass.job])

\* The key and the permit are checked again once the body was read
CheckPermit ==
    /\ pass.at = "body"
    /\ IF pass.stale \/ ~permit
       THEN Failed(FALSE, pass.size)
       ELSE /\ pass' = [pass EXCEPT !.at = "store"]
            /\ UNCHANGED <<config, paused, foreground, queueVars, contexts, served, spent>>

\* store.Set; it may fail
Store ==
    /\ pass.at = "store"
    /\ \/ Failed(FALSE, pass.size)
       \/ /\ IF pass.same
             THEN /\ tracked' = [tracked EXCEPT ![pass.job].ready = FALSE]
                  /\ byLast' = Append(Without(byLast, {pass.job}), pass.job)
             ELSE UNCHANGED <<tracked, byLast>>
          /\ pass' = Counted(pass.size)
          /\ spent' = [spent EXCEPT !.bytes = @ + pass.size]
          /\ UNCHANGED <<config, paused, foreground, queue, contexts, served>>

-----------------------------------------------------------------------------
PassStep == BeginPass \/ CheckBudget \/ Pick \/ CheckKey \/ Start
            \/ FetchFails \/ FetchRejected \/ FetchSucceeds \/ CheckPermit \/ Store

\* A scope waits if it has a ready job and a live credential; a request of the
\* pass serves the scope it is sent for.
Waits(s) == Live(s) /\ \E j \in Tracked : ScopeOf[j] = s /\ tracked[j].ready
Served == IF pass.at = "start" /\ pass'.at = "fetch" THEN {ScopeOf[pass.job]} ELSE {}

Step ==
    \/ \E c \in Configs : Configure(c)
    \/ \E p \in BOOLEAN : SetPaused(p)
    \/ Foreground
    \/ ForegroundEnds
    \/ \E j \in Jobs : TrackAuthorized(j) \/ BecomeReady(j) \/ BumpGeneration(j)
    \/ \E s \in Scopes : ForgetScope(s)
    \/ Lapse
    \/ PassStep

Next ==
    /\ Step
    /\ overtaken' = {p \in overtaken \cup UNION {(Scopes \ {s}) \X {s} : s \in Served} :
                         /\ Waits(p[1]) /\ Waits(p[1])' /\ p[1] \notin Served
                         /\ p[2] \in ToSet(served')}

Spec == Init /\ [][Next]_vars

-----------------------------------------------------------------------------
TypeOK ==
    /\ config \in Configs /\ paused \in BOOLEAN /\ foreground \in 0..MaxForeground
    /\ tracked \in [Jobs -> [ready : BOOLEAN, stale : BOOLEAN]]
    /\ Tracked \subseteq Jobs /\ ToSet(byLast) = Tracked
    /\ IsInjective(queue) /\ IsInjective(byLast) /\ IsInjective(served)
    /\ contexts \in Seq([scope : Scopes, live : BOOLEAN])
    /\ pass.at \in {"idle", "turn", "pick", "key", "start", "fetch", "body", "store"}
    /\ pass.job \in Jobs \cup {NoJob} /\ overtaken \subseteq Scopes \X Scopes

(* Browsing, a pause and disabling each end the request in flight: one     *)
(* that was not cancelled never overlaps them (activeCancel is set under   *)
(* the lock that checks foreground, paused and Enabled).                   *)
ForegroundYields == pass.at \in {"fetch", "body"} /\ ~Quiet => pass.cancelled

(* The queue and the credentials stay within their limits, also when a     *)
(* limit is lowered, and a disabled warmer holds no credential.            *)
Bounded ==
    /\ Len(queue) <= config.maxTracked
    /\ Len(contexts) <= MaxContexts
    /\ ~config.enabled => contexts = <<>>

(* A body is stored only if the credential it was fetched with was neither *)
(* withdrawn nor out of time when the publication was permitted, whatever  *)
(* was tracked, renewed or forgotten since the candidate was picked.       *)
RevokedNeverPublished == pass.at = "store" => ~pass.revoked

(* What a pass really sends and reads stays within the budgets it last     *)
(* read, failures and oversized bodies included.                           *)
WithinBudget ==
    /\ spent.bytes <= pass.limits.bytes
    /\ FoldFunctionOnSet(+, 0, spent.requests, Scopes) <= pass.limits.requests
    /\ pass.at = "fetch" => spent.requests[ScopeOf[pass.job]] <= pass.share

(* A job that enters the full queue never displaces one of a higher        *)
(* priority, in any step (evictJobLocked).                                 *)
HigherKept == \A j \in Tracked' \ Tracked, k \in Tracked \ Tracked' : PriorityOf[k] <= PriorityOf[j]

(* No scope is served again while another has waited ever since it was     *)
(* served, however much work of higher priority it has, in any step        *)
(* (nextCandidateLocked: the scope served longest ago).                    *)
NoneServedTwice == \A p \in overtaken : p[2] \notin Served

=============================================================================
