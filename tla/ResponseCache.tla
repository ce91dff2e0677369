--------------------------- MODULE ResponseCache ---------------------------
(***************************************************************************)
(* The user-scoped response cache of the proxy (internal/proxy/proxy.go):  *)
(* cache lookups and fills, watch-state writes, operator and sync          *)
(* invalidations, background refreshes, and process restarts.              *)
(*                                                                         *)
(* Every shared read or write of a handler (Valkey, Postgres, the          *)
(* cacheBroken flag, the grant table, the flight table, PMS) is a step of  *)
(* its own, so that all interleavings of concurrent handlers are explored; *)
(* only the two calls that revoke a rejected credential, in the grant      *)
(* table and in the warmer, are one step.                                  *)
(* Response bodies are abstracted to the moment PMS produced them: clock   *)
(* counts the changes of PMS state, and a body is the clock value at which *)
(* it was answered.                                                        *)
(***************************************************************************)
EXTENDS Generations

CONSTANTS
    Caller,     \* token fingerprints
    Resource,   \* cacheable requests: method, path, query, Accept, headers
    ClassOf,    \* ClassOf[res]: the response class of a resource
    ScopesOf,   \* ScopesOf[c]: the scopes identity resolution may give c
    Reader,     \* slots for concurrent browse requests
    Writer,     \* slots for concurrent watch-state writes
    Invalidator,\* slots for concurrent InvalidateCacheContext calls
    Warmer,     \* background refresh passes (at most one runs: w.running)
    None,       \* absent caller, scope or key
    MaxClock    \* bound: number of PMS state changes explored

ASSUME ResourceAssumption == ClassOf \in [Resource -> Class]
ASSUME ScopesAssumption == ScopesOf \in [Caller -> SUBSET Scope]
ASSUME NoneAssumption ==
    /\ None \notin Caller \cup Scope
    /\ None \notin [res : Resource, scope : Scope, eg : Nat, gg : Nat]
ASSUME HandlerAssumption == Writer \cap Invalidator = {}
ASSUME ClockAssumption == MaxClock \in Nat
ASSUME NoSaturation == 3 * MaxGen <= MaxUint64

VARIABLES
    cache,      \* Valkey: at most one [key, at] per key
    grants,     \* process: leases [caller, key, at]
    broken,     \* process: cacheBroken
    flight,     \* process: keys being filled
    tracked,    \* process: keys of the warmer's jobs
    rd,         \* process: one record per Reader
    wr,         \* process: one record per Writer
    iv,         \* process: one record per Invalidator
    wm,         \* process: one record per Warmer
    clock,      \* PMS: number of state changes so far
    access,     \* PMS: does it accept the caller's credential?
    floor,      \* history: floor[s][c], the PMS state that clients of the
                \* pair have been told about
    failing,    \* history: handlers whose bump failed and that have not yet
                \* set cacheBroken, with no BumpAll committed in between
    unrecovered,\* history: some handler has set cacheBroken for a failed bump
                \* and no BumpAll has committed since that bump
    rejectedAt  \* history: last PMS rejection processed for each caller

procVars == <<grants, broken, flight, tracked>>
pmsVars  == <<clock, access>>
histVars == <<floor, failing, unrecovered, rejectedAt>>
vars == <<gen, cache, grants, broken, flight, tracked, rd, wr, iv, wm,
          clock, access, floor, failing, unrecovered, rejectedAt>>

Key   == [res : Resource, scope : Scope, eg : Nat, gg : Nat]
Entry == [key : Key, at : Nat]
Lease == [caller : Caller, key : Key, at : Nat]

ReaderPC == {"idle", "gate", "broken", "lease", "get", "reload", "recheck",
             "hit", "flight", "waiting", "begin", "fetch", "revoke", "body",
             "regen", "set", "grant", "track"}
WriterPC == {"idle", "fetch", "revoke", "bump", "break", "ack"}
InvalidatorPC == {"idle", "bump", "break", "clear", "return"}
WarmerPC == {"idle", "key", "fetch", "recheck", "permit", "set", "delete"}

IdleReader == [pc |-> "idle", caller |-> None, scope |-> None, key |-> None,
               next |-> "flight", hold |-> FALSE, at |-> 0, need |-> 0,
               closed |-> TRUE]
IdleWriter == [pc |-> "idle", caller |-> None, scope |-> None, at |-> 0]
IdleInvalidator == [pc |-> "idle", rs |-> Blank, rc |-> Blank, at |-> 0]
IdleWarmer == [pc |-> "idle", job |-> None, key |-> None, at |-> 0]

Init ==
    /\ GenInit
    /\ cache = {} /\ grants = {} /\ broken = FALSE
    /\ flight = {} /\ tracked = {}
    /\ rd = [r \in Reader |-> IdleReader]
    /\ wr = [w \in Writer |-> IdleWriter]
    /\ iv = [i \in Invalidator |-> IdleInvalidator]
    /\ wm = [x \in Warmer |-> IdleWarmer]
    /\ clock = 0
    /\ access = [c \in Caller |-> TRUE]
    /\ floor = [s \in Scope |-> [c \in Class |-> 0]]
    /\ failing = {} /\ unrecovered = FALSE
    /\ rejectedAt = [c \in Caller |-> 0]

-----------------------------------------------------------------------------
(* Keys and stores.                                                         *)

\* RequestKeyGen under the generations of this moment.
KeyNow(res, s) == [res   |-> res,
                   scope |-> s,
                   eg    |-> Effective(s, ClassOf[res]),
                   gg    |-> Global]

\* currentCacheGeneration: the namespace of the key has not been retired.
Current(k) == k = KeyNow(k.res, k.scope)

Put(store, k, at) == {e \in store : e.key # k} \cup {[key |-> k, at |-> at]}

Delete(store, k) == {e \in store : e.key # k}

\* ResourceGrants.Authorized
Authorized(c, k) == \E g \in grants : g.caller = c /\ g.key = k

\* ResourceGrants.Revoke
WithoutCaller(c) == {g \in grants : g.caller # c}

\* Warmer.ForgetScope
WithoutScope(s) == {k \in tracked : k.scope # s}

-----------------------------------------------------------------------------
(* Browse requests: observe, serveCache, the flight table, proxy, copyBody. *)

ToReader(r, rec) == rd' = [rd EXCEPT ![r] = rec]

\* The handler returns; the deferred endFlight runs.
Finish(r) ==
    /\ ToReader(r, IdleReader)
    /\ flight' = IF rd[r].hold THEN flight \ {rd[r].key} ELSE flight

\* observe of a cacheable request whose generations could be read.
Observe(r, c, s, res) ==
    /\ rd[r].pc = "idle"
    /\ ToReader(r, [IdleReader EXCEPT !.pc = "gate", !.caller = c,
                                      !.scope = s, !.key = KeyNow(res, s)])
    /\ UNCHANGED <<gen, cache, wr, iv, wm, procVars, pmsVars, histVars>>

\* observe of a request that is not cacheable, or whose gens.Get failed.
ObserveBypass(r, c, s) ==
    /\ rd[r].pc = "idle"
    /\ ToReader(r, [IdleReader EXCEPT !.pc = "fetch", !.caller = c, !.scope = s])
    /\ UNCHANGED <<gen, cache, wr, iv, wm, procVars, pmsVars, histVars>>

\* observe of a credential the resolver knows to be invalid.
ObserveInvalid(r, c, s) ==
    /\ rd[r].pc = "idle"
    /\ ToReader(r, [IdleReader EXCEPT !.pc = "fetch", !.caller = c, !.scope = s])
    /\ grants' = WithoutCaller(c)
    /\ tracked' = WithoutScope(s)
    /\ UNCHANGED <<gen, cache, broken, flight, wr, iv, wm, pmsVars, histVars>>

\* Mutant: the key is cleared although the cache is not broken.
GateWithoutKey(r) ==
    /\ rd[r].pc = "gate"
    /\ ToReader(r, [rd[r] EXCEPT !.pc = IF broken THEN "fetch" ELSE "broken",
                                 !.key = None])
    /\ UNCHANGED <<gen, cache, wr, iv, wm, procVars, pmsVars, histVars>>

\* observe, second operand: a broken cache makes the request uncacheable.
Gate(r) ==
    /\ rd[r].pc = "gate"
    /\ ToReader(r, IF broken
                   THEN [rd[r] EXCEPT !.pc = "fetch", !.key = None]
                   ELSE [rd[r] EXCEPT !.pc = "broken"])
    /\ UNCHANGED <<gen, cache, wr, iv, wm, procVars, pmsVars, histVars>>

\* serveCache reported false: continue where ServeHTTP called it.
Miss(r) == ToReader(r, [rd[r] EXCEPT !.pc = rd[r].next, !.next = "flight",
                                     !.at = 0, !.need = 0, !.closed = TRUE])

\* serveCache starts.  need and closed are history: what clients of the pair
\* had been told when the lookup began, and whether cacheBroken was then set
\* for every bump that failed.
ServeCache(r) ==
    /\ rd[r].pc = "broken"
    /\ IF broken
       THEN Miss(r)
       ELSE ToReader(r, [rd[r] EXCEPT
                !.pc = "lease",
                !.need = floor[rd[r].scope][ClassOf[rd[r].key.res]],
                !.closed = ~unrecovered])
    /\ UNCHANGED <<gen, cache, wr, iv, wm, procVars, pmsVars, histVars>>

CheckLease(r) ==
    /\ rd[r].pc = "lease"
    /\ IF Authorized(rd[r].caller, rd[r].key)
       THEN ToReader(r, [rd[r] EXCEPT !.pc = "get"])
       ELSE Miss(r)
    /\ UNCHANGED <<gen, cache, wr, iv, wm, procVars, pmsVars, histVars>>

\* cache.Get: an absent, expired or unreadable entry and an error are misses.
ReadCache(r) ==
    /\ rd[r].pc = "get"
    /\ \/ \E e \in cache :
             /\ e.key = rd[r].key
             /\ ToReader(r, [rd[r] EXCEPT !.pc = "reload", !.at = e.at])
       \/ Miss(r)
    /\ UNCHANGED <<gen, cache, wr, iv, wm, procVars, pmsVars, histVars>>

ReloadBroken(r) ==
    /\ rd[r].pc = "reload"
    /\ IF broken THEN Miss(r) ELSE ToReader(r, [rd[r] EXCEPT !.pc = "recheck"])
    /\ UNCHANGED <<gen, cache, wr, iv, wm, procVars, pmsVars, histVars>>

\* Mutant: the lookup trusts the generations it observed at the start.
RecheckGenerationSkipped(r) ==
    /\ rd[r].pc = "recheck"
    /\ ToReader(r, [rd[r] EXCEPT !.pc = "hit"])
    /\ UNCHANGED <<gen, cache, wr, iv, wm, procVars, pmsVars, histVars>>

\* currentCacheGeneration: gens.Get may fail, which is a miss.
RecheckGeneration(r) ==
    /\ rd[r].pc = "recheck"
    /\ \/ /\ Current(rd[r].key)
          /\ ToReader(r, [rd[r] EXCEPT !.pc = "hit"])
       \/ Miss(r)
    /\ UNCHANGED <<gen, cache, wr, iv, wm, procVars, pmsVars, histVars>>

\* The stored response is written to the client.
WriteHit(r) ==
    /\ rd[r].pc = "hit"
    /\ Finish(r)
    /\ UNCHANGED <<gen, cache, grants, broken, tracked, wr, iv, wm, pmsVars,
                   histVars>>

WaitForFlight(r) ==
    /\ rd[r].pc = "flight"
    /\ ToReader(r, [rd[r] EXCEPT
            !.pc = IF rd[r].key \in flight THEN "waiting" ELSE "begin"])
    /\ UNCHANGED <<gen, cache, wr, iv, wm, procVars, pmsVars, histVars>>

\* A poll finds the entry, or the flight has ended: look the key up again.
PollFlight(r) ==
    /\ rd[r].pc = "waiting"
    /\ (\E e \in cache : e.key = rd[r].key) \/ rd[r].key \notin flight
    /\ ToReader(r, [rd[r] EXCEPT !.pc = "broken", !.next = "begin"])
    /\ UNCHANGED <<gen, cache, wr, iv, wm, procVars, pmsVars, histVars>>

\* Two seconds have passed, or the client has gone.
FlightTimeout(r) ==
    /\ rd[r].pc = "waiting"
    /\ ToReader(r, [rd[r] EXCEPT !.pc = "begin"])
    /\ UNCHANGED <<gen, cache, wr, iv, wm, procVars, pmsVars, histVars>>

\* Mutant: the test and the insertion into the flight table are not atomic.
TryBeginFlightUnchecked(r) ==
    /\ rd[r].pc = "begin"
    /\ flight' = flight \cup {rd[r].key}
    /\ ToReader(r, [rd[r] EXCEPT !.pc = "fetch", !.hold = TRUE])
    /\ UNCHANGED <<gen, cache, grants, broken, tracked, wr, iv, wm, pmsVars,
                   histVars>>

\* Mutant: the loser of the race waits for the flight again.
TryBeginFlightAgain(r) ==
    /\ rd[r].pc = "begin"
    /\ IF rd[r].key \notin flight
       THEN /\ flight' = flight \cup {rd[r].key}
            /\ ToReader(r, [rd[r] EXCEPT !.pc = "fetch", !.hold = TRUE])
       ELSE /\ flight' = flight
            /\ ToReader(r, [rd[r] EXCEPT !.pc = "broken", !.next = "flight"])
    /\ UNCHANGED <<gen, cache, grants, broken, tracked, wr, iv, wm, pmsVars,
                   histVars>>

TryBeginFlight(r) ==
    /\ rd[r].pc = "begin"
    /\ IF rd[r].key \notin flight
       THEN /\ flight' = flight \cup {rd[r].key}
            /\ ToReader(r, [rd[r] EXCEPT !.pc = "fetch", !.hold = TRUE])
       ELSE /\ flight' = flight
            /\ ToReader(r, [rd[r] EXCEPT !.pc = "broken", !.next = "fetch"])
    /\ UNCHANGED <<gen, cache, grants, broken, tracked, wr, iv, wm, pmsVars,
                   histVars>>

\* PMS answers: 200 with the state of this moment, or 401/403.
Answer(r) ==
    /\ rd[r].pc = "fetch"
    /\ ToReader(r, [rd[r] EXCEPT
            !.at = clock,
            !.pc = IF access[rd[r].caller] THEN "body" ELSE "revoke"])
    /\ UNCHANGED <<gen, cache, wr, iv, wm, procVars, pmsVars, histVars>>

\* No storable response: a transport error, another status, a body that is
\* truncated, too large or not cacheable.
AnswerNotStored(r) ==
    /\ rd[r].pc \in {"fetch", "body"}
    /\ Finish(r)
    /\ UNCHANGED <<gen, cache, grants, broken, tracked, wr, iv, wm, pmsVars,
                   histVars>>

\* revokeRejectedAuthorization of a 401 or 403 that PMS gave at time at.
Revoke(c, s, at) ==
    /\ grants' = WithoutCaller(c)
    /\ tracked' = WithoutScope(s)
    /\ rejectedAt' = [rejectedAt EXCEPT ![c] = IF at > @ THEN at ELSE @]

RevokeRejected(r) ==
    /\ rd[r].pc = "revoke"
    /\ Revoke(rd[r].caller, rd[r].scope, rd[r].at)
    /\ Finish(r)
    /\ UNCHANGED <<gen, cache, broken, wr, iv, wm, pmsVars, floor, failing,
                   unrecovered>>

\* copyBody after the body has been streamed: nothing is stored for an
\* uncacheable request or while the cache is broken.
CopyBody(r) ==
    /\ rd[r].pc = "body"
    /\ IF rd[r].key = None \/ broken
       THEN Finish(r)
       ELSE ToReader(r, [rd[r] EXCEPT !.pc = "regen"]) /\ UNCHANGED flight
    /\ UNCHANGED <<gen, cache, grants, broken, tracked, wr, iv, wm, pmsVars,
                   histVars>>

\* copyBody: the generations are read again before the body is published.
RecheckBeforeSet(r) ==
    /\ rd[r].pc = "regen"
    /\ \/ /\ Current(rd[r].key)
          /\ ToReader(r, [rd[r] EXCEPT !.pc = "set"])
          /\ UNCHANGED flight
       \/ Finish(r)
    /\ UNCHANGED <<gen, cache, grants, broken, tracked, wr, iv, wm, pmsVars,
                   histVars>>

SetEntry(r) ==
    /\ rd[r].pc = "set"
    /\ cache' = Put(cache, rd[r].key, rd[r].at)
    /\ ToReader(r, [rd[r] EXCEPT !.pc = "grant"])
    /\ UNCHANGED <<gen, wr, iv, wm, procVars, pmsVars, histVars>>

\* Valkey reports an error: the command may still have been executed.
SetEntryFails(r) ==
    /\ rd[r].pc = "set"
    /\ cache' \in {cache, Put(cache, rd[r].key, rd[r].at)}
    /\ Finish(r)
    /\ UNCHANGED <<gen, grants, broken, tracked, wr, iv, wm, pmsVars, histVars>>

Grant(r) ==
    /\ rd[r].pc = "grant"
    /\ grants' = {g \in grants : ~(g.caller = rd[r].caller /\ g.key = rd[r].key)}
                 \cup {[caller |-> rd[r].caller, key |-> rd[r].key, at |-> rd[r].at]}
    /\ ToReader(r, [rd[r] EXCEPT !.pc = "track", !.at = 0])
    /\ UNCHANGED <<gen, cache, broken, flight, tracked, wr, iv, wm, pmsVars,
                   histVars>>

\* TrackAuthorized replaces the job of the same request; a disabled or full
\* warmer and a request with header variations are not tracked.
Track(r) ==
    /\ rd[r].pc = "track"
    /\ LET others == {k \in tracked : k.res # rd[r].key.res \/ k.scope # rd[r].scope}
       IN  \/ UNCHANGED tracked
           \/ Warmer # {} /\ tracked' = others \cup {rd[r].key}
    /\ Finish(r)
    /\ UNCHANGED <<gen, cache, grants, broken, wr, iv, wm, pmsVars, histVars>>

-----------------------------------------------------------------------------
(* Watch-state writes: proxy and bumpStateGeneration.                       *)

BeginWrite(w, c, s) ==
    /\ wr[w].pc = "idle"
    /\ wr' = [wr EXCEPT ![w] = [IdleWriter EXCEPT !.pc = "fetch", !.caller = c,
                                                  !.scope = s]]
    /\ UNCHANGED <<gen, cache, rd, iv, wm, procVars, pmsVars, histVars>>

\* PMS applies the write and answers 2xx, or rejects the credential.
AnswerWrite(w) ==
    /\ wr[w].pc = "fetch"
    /\ IF access[wr[w].caller]
       THEN /\ clock < MaxClock
            /\ clock' = clock + 1
            /\ wr' = [wr EXCEPT ![w].pc = "bump", ![w].at = clock + 1]
       ELSE /\ clock' = clock
            /\ wr' = [wr EXCEPT ![w].pc = "revoke", ![w].at = clock]
    /\ UNCHANGED <<gen, cache, rd, iv, wm, procVars, access, histVars>>

\* The answer is an error or is lost: nothing is bumped, although PMS may
\* have applied the write.
WriteFails(w) ==
    /\ wr[w].pc = "fetch"
    /\ clock' \in {clock, clock + 1} \cap 0..MaxClock
    /\ wr' = [wr EXCEPT ![w] = IdleWriter]
    /\ UNCHANGED <<gen, cache, rd, iv, wm, procVars, access, histVars>>

RevokeWriter(w) ==
    /\ wr[w].pc = "revoke"
    /\ Revoke(wr[w].caller, wr[w].scope, wr[w].at)
    /\ wr' = [wr EXCEPT ![w] = IdleWriter]
    /\ UNCHANGED <<gen, cache, broken, flight, rd, iv, wm, pmsVars, floor,
                   failing, unrecovered>>

BumpStateGeneration(w) ==
    /\ wr[w].pc = "bump"
    /\ BumpScope(wr[w].scope)
    /\ wr' = [wr EXCEPT ![w].pc = "ack"]
    /\ UNCHANGED <<cache, rd, iv, wm, procVars, pmsVars, histVars>>

\* BumpScope returns an error; the statement may still have committed.
BumpStateGenerationFails(w) ==
    /\ wr[w].pc = "bump"
    /\ BumpScope(wr[w].scope) \/ UNCHANGED gen
    /\ wr' = [wr EXCEPT ![w].pc = "break"]
    /\ failing' = failing \cup {w}
    /\ UNCHANGED <<cache, rd, iv, wm, procVars, pmsVars, floor, unrecovered,
                   rejectedAt>>

\* cacheBroken.Store(true) by a handler whose bump has failed.
SetBroken(h) ==
    /\ broken' = TRUE
    /\ unrecovered' = (unrecovered \/ h \in failing)
    /\ failing' = failing \ {h}

BreakWriter(w) ==
    /\ wr[w].pc = "break"
    /\ SetBroken(w)
    /\ wr' = [wr EXCEPT ![w].pc = "ack"]
    /\ UNCHANGED <<gen, cache, grants, flight, tracked, rd, iv, wm, pmsVars,
                   floor, rejectedAt>>

\* Raise the floor of every pair the row <<rs, rc>> covers.
Told(rs, rc, at) ==
    floor' = [s \in Scope |-> [c \in Class |->
                 IF Covers(rs, rc, s, c) /\ at > floor[s][c]
                 THEN at ELSE floor[s][c]]]

\* The response of the write reaches the client.
AckWrite(w) ==
    /\ wr[w].pc = "ack"
    /\ Told(wr[w].scope, Blank, wr[w].at)
    /\ wr' = [wr EXCEPT ![w] = IdleWriter]
    /\ UNCHANGED <<gen, cache, rd, iv, wm, procVars, pmsVars, failing,
                   unrecovered, rejectedAt>>

-----------------------------------------------------------------------------
(* InvalidateCacheContext(scope, class), called by the admin API and sync.  *)

BeginInvalidate(i, rs, rc) ==
    /\ iv[i].pc = "idle"
    /\ iv' = [iv EXCEPT ![i] = [pc |-> "bump", rs |-> rs, rc |-> rc, at |-> clock]]
    /\ UNCHANGED <<gen, cache, rd, wr, wm, procVars, pmsVars, histVars>>

\* Only a BumpAll clears cacheBroken, in a step after its commit.
InvalidateBump(i) ==
    /\ iv[i].pc = "bump"
    /\ Bump(iv[i].rs, iv[i].rc)
    /\ LET all == iv[i].rs = Blank /\ iv[i].rc = Blank
       IN  /\ iv' = [iv EXCEPT ![i].pc = IF all THEN "clear" ELSE "return"]
           /\ unrecovered' = (unrecovered /\ ~all)
           /\ failing' = IF all THEN {} ELSE failing
    /\ UNCHANGED <<cache, rd, wr, wm, procVars, pmsVars, floor, rejectedAt>>

InvalidateBumpFails(i) ==
    /\ iv[i].pc = "bump"
    /\ Bump(iv[i].rs, iv[i].rc) \/ UNCHANGED gen
    /\ iv' = [iv EXCEPT ![i].pc = "break"]
    /\ failing' = failing \cup {i}
    /\ UNCHANGED <<cache, rd, wr, wm, procVars, pmsVars, floor, unrecovered,
                   rejectedAt>>

BreakInvalidator(i) ==
    /\ iv[i].pc = "break"
    /\ SetBroken(i)
    /\ iv' = [iv EXCEPT ![i].pc = "return"]
    /\ UNCHANGED <<gen, cache, grants, flight, tracked, rd, wr, wm, pmsVars,
                   floor, rejectedAt>>

ClearBroken(i) ==
    /\ iv[i].pc = "clear"
    /\ broken' = FALSE
    /\ iv' = [iv EXCEPT ![i].pc = "return"]
    /\ UNCHANGED <<gen, cache, grants, flight, tracked, rd, wr, wm, pmsVars,
                   histVars>>

\* The caller is told that the namespaces are invalidated; InvalidateCache,
\* which the admin API uses, reports the same when the bump failed.
ReturnInvalidate(i) ==
    /\ iv[i].pc = "return"
    /\ Told(iv[i].rs, iv[i].rc, iv[i].at)
    /\ iv' = [iv EXCEPT ![i] = IdleInvalidator]
    /\ UNCHANGED <<gen, cache, rd, wr, wm, procVars, pmsVars, failing,
                   unrecovered, rejectedAt>>

-----------------------------------------------------------------------------
(* Background refresh: refreshPass and refreshChecked.  A job is named by    *)
(* its key.  Foreground cancels the running job, which may be too late to    *)
(* stop any one step: WarmAbandon is always possible, never certain.         *)

NoForeground ==
    /\ \A r \in Reader : rd[r].pc = "idle"
    /\ \A w \in Writer : wr[w].pc = "idle"

\* nextCandidateLocked chooses job j; a job whose key was retired is dropped.
PickJob(x, j) ==
    /\ wm[x].pc = "idle"
    /\ NoForeground
    /\ j \in tracked
    /\ IF Current(j)
       THEN /\ wm' = [wm EXCEPT ![x] = [IdleWarmer EXCEPT !.pc = "key", !.job = j]]
            /\ UNCHANGED tracked
       ELSE /\ tracked' = tracked \ {j}
            /\ UNCHANGED wm
    /\ UNCHANGED <<gen, cache, grants, broken, flight, rd, wr, iv, pmsVars,
                   histVars>>

\* The key is computed again, and the request is sent under it.
WarmKey(x) ==
    /\ wm[x].pc = "key"
    /\ wm' = [wm EXCEPT ![x].pc = "fetch",
                        ![x].key = KeyNow(wm[x].job.res, wm[x].job.scope)]
    /\ UNCHANGED <<gen, cache, rd, wr, iv, procVars, pmsVars, histVars>>

WarmAnswer(x) ==
    /\ wm[x].pc = "fetch"
    /\ wm' = [wm EXCEPT ![x].pc = "recheck", ![x].at = clock]
    /\ UNCHANGED <<gen, cache, rd, wr, iv, procVars, pmsVars, histVars>>

\* 401 or 403: every job of the scope is dropped.
WarmRejected(x) ==
    /\ wm[x].pc = "fetch"
    /\ tracked' = WithoutScope(wm[x].job.scope)
    /\ wm' = [wm EXCEPT ![x] = IdleWarmer]
    /\ UNCHANGED <<gen, cache, grants, broken, flight, rd, wr, iv, pmsVars,
                   histVars>>

\* Mutant: the body is published under a key computed after the fetch.
WarmRecheckLate(x) ==
    /\ wm[x].pc = "recheck"
    /\ wm' = [wm EXCEPT ![x].pc = "permit",
                        ![x].key = KeyNow(wm[x].job.res, wm[x].job.scope)]
    /\ UNCHANGED <<gen, cache, rd, wr, iv, procVars, pmsVars, histVars>>

\* KeyFunc(s) # storeKey abandons the refresh.
WarmRecheck(x) ==
    /\ wm[x].pc = "recheck"
    /\ wm' = [wm EXCEPT ![x] = IF Current(@.key) THEN [@ EXCEPT !.pc = "permit"]
                               ELSE IdleWarmer]
    /\ UNCHANGED <<gen, cache, rd, wr, iv, procVars, pmsVars, histVars>>

\* permit: the job is still tracked and no foreground request is running.
WarmPermit(x) ==
    /\ wm[x].pc = "permit"
    /\ wm' = [wm EXCEPT ![x] = IF wm[x].job \in tracked /\ NoForeground
                               THEN [@ EXCEPT !.pc = "set"] ELSE IdleWarmer]
    /\ UNCHANGED <<gen, cache, rd, wr, iv, procVars, pmsVars, histVars>>

\* Set, which may fail after having been executed.
WarmSet(x) ==
    /\ wm[x].pc = "set"
    /\ \/ /\ cache' = Put(cache, wm[x].key, wm[x].at)
          /\ wm' = [wm EXCEPT ![x] = IF wm[x].key = wm[x].job THEN IdleWarmer
                                     ELSE [@ EXCEPT !.pc = "delete"]]
       \/ /\ cache' \in {cache, Put(cache, wm[x].key, wm[x].at)}
          /\ wm' = [wm EXCEPT ![x] = IdleWarmer]
    /\ UNCHANGED <<gen, rd, wr, iv, procVars, pmsVars, histVars>>

\* The entry under the retired key of the job is removed; errors are ignored.
WarmDelete(x) ==
    /\ wm[x].pc = "delete"
    /\ cache' \in {cache, Delete(cache, wm[x].job)}
    /\ wm' = [wm EXCEPT ![x] = IdleWarmer]
    /\ UNCHANGED <<gen, rd, wr, iv, procVars, pmsVars, histVars>>

\* A KeyFunc, transport or status error, or cancellation.
WarmAbandon(x) ==
    /\ wm[x].pc \in {"key", "fetch", "recheck", "permit"}
    /\ wm' = [wm EXCEPT ![x] = IdleWarmer]
    /\ UNCHANGED <<gen, cache, rd, wr, iv, procVars, pmsVars, histVars>>

\* The warmer's tables are bounded and its jobs expire.
JobDropped(j) ==
    /\ j \in tracked
    /\ tracked' = tracked \ {j}
    /\ UNCHANGED <<gen, cache, grants, broken, flight, rd, wr, iv, wm, pmsVars,
                   histVars>>

-----------------------------------------------------------------------------
(* Expiry, changes at PMS that the edge does not see, and restarts.          *)

EntryExpires(e) ==
    /\ e \in cache
    /\ cache' = cache \ {e}
    /\ UNCHANGED <<gen, rd, wr, iv, wm, procVars, pmsVars, histVars>>

LeaseExpires(g) ==
    /\ g \in grants
    /\ grants' = grants \ {g}
    /\ UNCHANGED <<gen, cache, broken, flight, tracked, rd, wr, iv, wm, pmsVars,
                   histVars>>

\* The library or the watch state changes at PMS without passing the edge.
OriginChanges ==
    /\ clock < MaxClock
    /\ clock' = clock + 1
    /\ UNCHANGED <<gen, cache, rd, wr, iv, wm, procVars, access, histVars>>

\* PMS starts or stops to accept the caller's credential.
ChangeAccess(c) ==
    /\ clock < MaxClock
    /\ clock' = clock + 1
    /\ access' = [access EXCEPT ![c] = ~@]
    /\ UNCHANGED <<gen, cache, rd, wr, iv, wm, procVars, histVars>>

StopHandlers ==
    /\ rd' = [r \in Reader |-> IdleReader]
    /\ wr' = [w \in Writer |-> IdleWriter]
    /\ iv' = [i \in Invalidator |-> IdleInvalidator]
    /\ wm' = [x \in Warmer |-> IdleWarmer]
    /\ flight' = {} /\ tracked' = {}

\* The process stops at any point and a new one starts: Postgres and Valkey
\* keep their contents, the memory of the process is lost.
Restart ==
    /\ StopHandlers
    /\ grants' = {}
    /\ broken' = FALSE /\ unrecovered' = FALSE /\ failing' = {}
    /\ UNCHANGED <<gen, cache, pmsVars, floor, rejectedAt>>

-----------------------------------------------------------------------------

\* The steps of a browse request after its arrival.
ReaderStep(r) ==
    \/ Gate(r) \/ ServeCache(r) \/ CheckLease(r) \/ ReadCache(r)
    \/ ReloadBroken(r) \/ RecheckGeneration(r) \/ WriteHit(r)
    \/ WaitForFlight(r) \/ PollFlight(r) \/ FlightTimeout(r)
    \/ TryBeginFlight(r) \/ Answer(r) \/ AnswerNotStored(r)
    \/ RevokeRejected(r) \/ CopyBody(r) \/ RecheckBeforeSet(r)
    \/ SetEntry(r) \/ SetEntryFails(r) \/ Grant(r) \/ Track(r)

WriterStep(w) ==
    \/ AnswerWrite(w) \/ WriteFails(w) \/ RevokeWriter(w)
    \/ BumpStateGeneration(w) \/ BumpStateGenerationFails(w)
    \/ BreakWriter(w) \/ AckWrite(w)

InvalidatorStep(i) ==
    \/ InvalidateBump(i) \/ InvalidateBumpFails(i) \/ BreakInvalidator(i)
    \/ ClearBroken(i) \/ ReturnInvalidate(i)

WarmerStep(x) ==
    \/ WarmKey(x) \/ WarmAnswer(x) \/ WarmRejected(x) \/ WarmRecheck(x)
    \/ WarmPermit(x) \/ WarmSet(x) \/ WarmDelete(x) \/ WarmAbandon(x)

Arrival ==
    \/ \E r \in Reader, c \in Caller : \E s \in ScopesOf[c] :
          \/ \E res \in Resource : Observe(r, c, s, res)
          \/ ObserveBypass(r, c, s)
          \/ ObserveInvalid(r, c, s)
    \/ \E w \in Writer, c \in Caller : \E s \in ScopesOf[c] : BeginWrite(w, c, s)
    \/ \E i \in Invalidator, rs \in Scope \cup {Blank}, rc \in Class \cup {Blank} :
          BeginInvalidate(i, rs, rc)
    \/ \E x \in Warmer, j \in tracked : PickJob(x, j)

Environment ==
    \/ \E j \in tracked : JobDropped(j)
    \/ \E e \in cache : EntryExpires(e)
    \/ \E g \in grants : LeaseExpires(g)
    \/ \E c \in Caller : ChangeAccess(c)
    \/ OriginChanges
    \/ Restart

Next ==
    \/ Arrival
    \/ \E r \in Reader : ReaderStep(r)
    \/ \E w \in Writer : WriterStep(w)
    \/ \E i \in Invalidator : InvalidatorStep(i)
    \/ \E x \in Warmer : WarmerStep(x)
    \/ Environment

Spec == Init /\ [][Next]_vars

-----------------------------------------------------------------------------
(* Properties.                                                              *)

\* pcs of a reader that works on a cacheable request.
KeyedPC == ReaderPC \ {"idle", "fetch", "revoke", "body"}

\* pcs of a reader that has passed tryBeginFlight.
FillPC == {"fetch", "revoke", "body", "regen", "set", "grant", "track"}

ReaderOK(h) ==
    /\ h \in [pc : ReaderPC, caller : Caller \cup {None},
             scope : Scope \cup {None}, key : Key \cup {None},
             next : {"flight", "begin", "fetch"}, hold : BOOLEAN,
             at : Nat, need : Nat, closed : BOOLEAN]
    /\ h.pc # "idle" => h.caller \in Caller /\ h.scope \in Scope
    /\ h.pc \in KeyedPC \/ h.hold => h.key \in Key
    /\ h.hold => h.pc \in FillPC
    /\ h.key \in Key => h.key.scope = h.scope

WriterOK(h) ==
    /\ h \in [pc : WriterPC, caller : Caller \cup {None},
             scope : Scope \cup {None}, at : Nat]
    /\ h.pc # "idle" => h.caller \in Caller /\ h.scope \in Scope

WarmerOK(h) ==
    /\ h \in [pc : WarmerPC, job : Key \cup {None}, key : Key \cup {None}, at : Nat]
    /\ h.pc # "idle" => h.job \in Key
    /\ h.pc \notin {"idle", "key"} => h.key \in Key

\* Every variable has its type, and a handler that works on a key, a caller
\* or a job has one: no handler of proxy.go or scheduling.go uses the zero
\* value of a field it has not set.
TypeOK ==
    /\ GenTypeOK
    /\ cache \subseteq Entry /\ grants \subseteq Lease
    /\ flight \subseteq Key /\ tracked \subseteq Key
    /\ broken \in BOOLEAN /\ unrecovered \in BOOLEAN
    /\ failing \subseteq Writer \cup Invalidator
    /\ DOMAIN rd = Reader /\ \A r \in Reader : ReaderOK(rd[r])
    /\ DOMAIN wr = Writer /\ \A w \in Writer : WriterOK(wr[w])
    /\ iv \in [Invalidator -> [pc : InvalidatorPC, rs : Scope \cup {Blank},
                               rc : Class \cup {Blank}, at : Nat]]
    /\ DOMAIN wm = Warmer /\ \A x \in Warmer : WarmerOK(wm[x])
    /\ clock \in 0..MaxClock
    /\ access \in [Caller -> BOOLEAN]
    /\ floor \in [Scope -> [Class -> Nat]]
    /\ rejectedAt \in [Caller -> Nat]

\* A response served from the cache is never older than what the clients of
\* its scope and class had been told when the lookup began: the watch-state
\* writes PMS confirmed to them and the invalidations that returned
\* (serveCache against bumpStateGeneration and InvalidateCacheContext).
ReadYourWrites ==
    \A r \in Reader : rd[r].pc = "hit" => rd[r].at >= rd[r].need

\* ReadYourWrites for every lookup that began when cacheBroken stood for all
\* failed bumps.
ReadYourWritesWhileClosed ==
    \A r \in Reader : rd[r].pc = "hit" /\ rd[r].closed => rd[r].at >= rd[r].need

\* cacheBroken stays set for a failed bump until a later BumpAll commits
\* (InvalidateCacheContext: "keeps cache serving fail-closed until a
\* successful recovery bump").
FailClosed == unrecovered => broken

\* At most one request fills a key at a time, and the flight table holds
\* exactly the keys of running fills: no early return, failed fetch, store
\* error or revocation leaves a key behind (tryBeginFlight, endFlight).
SingleFlight ==
    /\ flight = {rd[r].key : r \in {q \in Reader : rd[q].hold}}
    /\ \A q, r \in Reader :
          rd[q].hold /\ rd[r].hold /\ rd[q].key = rd[r].key => q = r

\* "A PMS rejection supersedes earlier successful resource proofs": no lease
\* rests on an answer that PMS gave before a rejection of the same
\* credential that the edge has processed (revokeRejectedAuthorization).
RejectionSupersedes ==
    \A g \in grants : g.at >= rejectedAt[g.caller]

\* Every browse request ends, whatever other requests for the same key do:
\* waiting for a flight and losing the race for it never loop.
RequestsEnd ==
    \A r \in Reader : rd[r].pc # "idle" ~> rd[r].pc = "idle"

=============================================================================
