--------------------------- MODULE ResourceGrants ---------------------------
(***************************************************************************)
(* The authorization leases of one process (internal/identity/             *)
(* authorization.go), with a clock, and the requests that earn them.       *)
(*                                                                         *)
(* A lease is for one caller credential and one exact response.  It is     *)
(* recorded once the whole response has been copied, some time after PMS   *)
(* decided to answer, and lasts TTL from the recording.                    *)
(***************************************************************************)
EXTENDS Integers, FiniteSets

CONSTANTS
    Fingerprints,   \* caller credentials
    Resources,      \* response keys
    TTL,            \* ResourceAuthorizationTTL
    GrantMax,       \* resourceGrantMax
    MaxDelay,       \* longest time from PMS's answer to the Grant call
    MaxTime,        \* bound: the last instant explored
    Never           \* no time

ASSUME TimeAssumption ==
    /\ TTL \in Nat \ {0} /\ MaxDelay \in Nat /\ MaxTime \in Nat
    /\ GrantMax \in Nat \ {0}
    /\ Never \notin Nat

Key == Fingerprints \X Resources

VARIABLES
    now,
    grants,     \* expiry of each lease held
    pending,    \* when PMS answered a response that is still being copied
    permitted,  \* what PMS lets each credential see now
    lastYes     \* when PMS last permitted what it no longer permits

vars == <<now, grants, pending, permitted, lastYes>>

TypeOK ==
    /\ now \in Nat
    /\ DOMAIN grants \subseteq Key /\ \A k \in DOMAIN grants : grants[k] \in Nat
    /\ pending \in [Key -> Nat \cup {Never}]
    /\ permitted \in SUBSET Key
    /\ lastYes \in [Key -> Nat]

Init ==
    /\ now = 0
    /\ grants = [k \in {} |-> 0]
    /\ pending = [k \in Key |-> Never]
    /\ permitted = Key
    /\ lastYes = [k \in Key |-> 0]

Expired == {k \in DOMAIN grants : now >= grants[k]}
Keeping(K) == [k \in K |-> grants[k]]

\* The leases evict may give up besides the expired ones: when the map is
\* still full, one that expires first.
Victims ==
    LET live == DOMAIN grants \ Expired
    IN  IF Cardinality(live) < GrantMax THEN {{}}
        ELSE {{k} : k \in {k \in live : \A j \in live : grants[k] <= grants[j]}}

\* Mutant: a full map gives up any lease.
RoomAnyVictim(k) ==
    IF k \in DOMAIN grants \/ Cardinality(DOMAIN grants) < GrantMax
    THEN {DOMAIN grants}
    ELSE {(DOMAIN grants) \ {v} : v \in DOMAIN grants}

\* The leases kept when k is recorded.
Room(k) ==
    IF k \in DOMAIN grants \/ Cardinality(DOMAIN grants) < GrantMax
    THEN {DOMAIN grants}
    ELSE {(DOMAIN grants \ Expired) \ V : V \in Victims}

\* PMS answers a request of this caller with the complete resource.
Answer(k) ==
    /\ k \in permitted /\ pending[k] = Never
    /\ pending' = [pending EXCEPT ![k] = now]
    /\ UNCHANGED <<now, grants, permitted, lastYes>>

\* The copy fails, or the response may not be stored: no lease.
Abandon(k) ==
    /\ pending[k] # Never
    /\ pending' = [pending EXCEPT ![k] = Never]
    /\ UNCHANGED <<now, grants, permitted, lastYes>>

\* Mutant: a lease is recorded without its deadline.
GrantForgetsTime(k) ==
    /\ pending[k] # Never
    /\ pending' = [pending EXCEPT ![k] = Never]
    /\ grants' = [j \in DOMAIN grants \cup {k} |-> Never]
    /\ UNCHANGED <<now, permitted, lastYes>>

Grant(k) ==
    /\ pending[k] # Never
    /\ pending' = [pending EXCEPT ![k] = Never]
    /\ \E K \in Room(k) :
          grants' = [j \in K \cup {k} |-> IF j = k THEN now + TTL ELSE grants[j]]
    /\ UNCHANGED <<now, permitted, lastYes>>

\* Mutant: a check that finds a live lease renews it.
AuthorizedRenews(k) ==
    /\ k \in DOMAIN grants
    /\ grants' = IF now < grants[k] THEN [grants EXCEPT ![k] = now + TTL]
                                    ELSE Keeping(DOMAIN grants \ {k})
    /\ UNCHANGED <<now, pending, permitted, lastYes>>

\* Authorized: an expired lease is dropped by the check that finds it; a live
\* one is left as it is.
Authorized(k) ==
    /\ k \in DOMAIN grants
    /\ grants' = IF now < grants[k] THEN grants ELSE Keeping(DOMAIN grants \ {k})
    /\ UNCHANGED <<now, pending, permitted, lastYes>>

\* Revoke: PMS or plex.tv has rejected the credential.
Revoke(f) ==
    /\ grants' = Keeping({k \in DOMAIN grants : k[1] # f})
    /\ UNCHANGED <<now, pending, permitted, lastYes>>

\* The Plex owner withdraws, or restores, what a credential may see.
Withdraw(k) ==
    /\ k \in permitted
    /\ permitted' = permitted \ {k}
    /\ lastYes' = [lastYes EXCEPT ![k] = now]
    /\ UNCHANGED <<now, grants, pending>>

Permit(k) ==
    /\ k \notin permitted
    /\ permitted' = permitted \cup {k}
    /\ lastYes' = [lastYes EXCEPT ![k] = 0]
    /\ UNCHANGED <<now, grants, pending>>

\* Time passes; no copy takes longer than MaxDelay.
Tick ==
    /\ now < MaxTime
    /\ \A k \in Key : pending[k] # Never => now - pending[k] < MaxDelay
    /\ now' = now + 1
    /\ UNCHANGED <<grants, pending, permitted, lastYes>>

Next ==
    \/ \E k \in Key : Answer(k) \/ Abandon(k) \/ Grant(k) \/ Authorized(k)
                        \/ Withdraw(k) \/ Permit(k)
    \/ \E f \in Fingerprints : Revoke(f)
    \/ Tick

Spec == Init /\ [][Next]_vars

----------------------------------------------------------------------------
Reusable(k) == k \in DOMAIN grants /\ now < grants[k]

\* A response can be reused, without asking PMS, for at most TTL and the
\* duration of one copy after PMS stopped permitting it.  The delay counts:
\* the lease starts when the copy ends, not when PMS answered.
StalenessBounded ==
    \A k \in Key : Reusable(k) =>
        k \in permitted \/ now < lastYes[k] + MaxDelay + TTL

\* The map never outgrows its limit.
Bounded == Cardinality(DOMAIN grants) <= GrantMax

\* Leases are bounded in time and in number (Grant, Authorized, evict).
LeasesBounded == StalenessBounded /\ Bounded

\* A live lease is lost to the limit only when every lease held is live, and
\* then it is one that expires first; without a new lease it is lost only
\* together with all the leases of its caller.
LiveLeasesSpared ==
    [][\A k \in Key : (Reusable(k) /\ k \notin DOMAIN grants') =>
        \/ /\ DOMAIN grants' \subseteq DOMAIN grants
           /\ \A j \in DOMAIN grants' : j[1] # k[1]
        \/ /\ Expired = {} /\ Cardinality(DOMAIN grants) >= GrantMax
           /\ \A j \in DOMAIN grants : grants[k] <= grants[j]]_vars
=============================================================================
