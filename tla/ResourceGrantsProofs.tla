------------------------ MODULE ResourceGrantsProofs ------------------------
(***************************************************************************)
(* Leases for any credentials, resources, lease length, limit, copy time   *)
(* and length of run: how long they last, how many there are, and which of *)
(* them go when there is no room.                                          *)
(*                                                                         *)
(* A lease and a copy in progress are both bounded against the clock, for  *)
(* the moment PMS withdraws its permission, and against that moment, once  *)
(* it has.  The map is finite and within its limit before and after every  *)
(* step, so when evict has to give up a live lease all of them are live.   *)
(***************************************************************************)
EXTENDS ResourceGrants, FiniteSetTheorems, TLAPS

CopyBounded(k) ==
    pending[k] # Never =>
        /\ pending[k] <= now /\ now <= pending[k] + MaxDelay
        /\ k \notin permitted => pending[k] <= lastYes[k]

LeaseBounded(k) ==
    k \in DOMAIN grants =>
        /\ grants[k] <= now + TTL
        /\ k \notin permitted => grants[k] <= lastYes[k] + MaxDelay + TTL

IInv == TypeOK /\ \A k \in Key : CopyBounded(k) /\ LeaseBounded(k)

\* Giving up leases keeps the invariant: what is kept is unchanged.
LEMMA KeepingIInv ==
  ASSUME IInv, NEW K \in SUBSET DOMAIN grants, grants' = Keeping(K),
         UNCHANGED <<now, pending, permitted, lastYes>>
  PROVE  IInv'
  BY DEF IInv, TypeOK, CopyBounded, LeaseBounded, Keeping

\* Recording a lease: its copy took at most MaxDelay.
LEMMA GrantIInv == ASSUME IInv, NEW g \in Key, Grant(g) PROVE IInv'
<1> USE TimeAssumption
<1>1. PICK K \in Room(g) :
         grants' = [j \in K \cup {g} |-> IF j = g THEN now + TTL ELSE grants[j]]
  BY DEF Grant
<1>2. K \subseteq DOMAIN grants
  BY <1>1 DEF Room
<1>3. DOMAIN grants' = K \cup {g} /\ grants'[g] = now + TTL
  BY <1>1
<1>4. \A j \in K : j # g => grants'[j] = grants[j]
  BY <1>1
<1>5. TypeOK'
  BY <1>2, <1>3, <1>4 DEF IInv, TypeOK, Grant
<1>6. ASSUME NEW k \in Key PROVE CopyBounded(k)'
  BY DEF IInv, TypeOK, CopyBounded, Grant
<1>7. LeaseBounded(g)'
  <2>1. pending[g] \in Nat /\ now \in Nat /\ lastYes[g] \in Nat
    BY DEF IInv, TypeOK, Grant
  <2>2. now <= pending[g] + MaxDelay /\ (g \notin permitted => pending[g] <= lastYes[g])
    BY DEF IInv, CopyBounded, Grant
  <2> QED
    BY <1>3, <2>1, <2>2 DEF LeaseBounded, Grant
<1>8. ASSUME NEW k \in Key, k # g PROVE LeaseBounded(k)'
  BY <1>2, <1>3, <1>4, <1>8 DEF IInv, LeaseBounded, Grant
<1> QED
  BY <1>5, <1>6, <1>7, <1>8 DEF IInv

\* The withdrawal of a permission: everything is bounded against this moment.
LEMMA WithdrawIInv == ASSUME IInv, NEW w \in Key, Withdraw(w) PROVE IInv'
<1> USE TimeAssumption
<1>1. TypeOK'
  BY DEF IInv, TypeOK, Withdraw
<1>2. ASSUME NEW k \in Key PROVE CopyBounded(k)' /\ LeaseBounded(k)'
  <2>1. CopyBounded(k) /\ LeaseBounded(k) /\ now \in Nat
    BY DEF IInv, TypeOK
  <2>2. k \in DOMAIN grants => grants[k] \in Nat
    BY DEF IInv, TypeOK
  <2>3. CASE k = w
    <3>1. lastYes'[k] = now
      BY <2>3 DEF IInv, TypeOK, Withdraw
    <3> QED
      BY <2>1, <2>2, <2>3, <3>1 DEF CopyBounded, LeaseBounded, Withdraw
  <2>4. CASE k # w
    <3>1. lastYes'[k] = lastYes[k] /\ (k \in permitted' <=> k \in permitted)
      BY <2>4 DEF IInv, TypeOK, Withdraw
    <3> QED
      BY <2>1, <3>1 DEF CopyBounded, LeaseBounded, Withdraw
  <2> QED
    BY <2>3, <2>4
<1> QED
  BY <1>1, <1>2 DEF IInv

\* Every step keeps the invariant.
LEMMA NextIInv == IInv /\ [Next]_vars => IInv'
<1> SUFFICES ASSUME IInv, [Next]_vars PROVE IInv'
  OBVIOUS
<1> USE TimeAssumption
<1>1. ASSUME NEW k \in Key, Answer(k) PROVE IInv'
  BY <1>1 DEF IInv, TypeOK, CopyBounded, LeaseBounded, Answer
<1>2. ASSUME NEW k \in Key, Abandon(k) PROVE IInv'
  BY <1>2 DEF IInv, TypeOK, CopyBounded, LeaseBounded, Abandon
<1>3. ASSUME NEW k \in Key, Authorized(k) PROVE IInv'
  <2>1. CASE now < grants[k]
    BY <1>3, <2>1 DEF IInv, TypeOK, CopyBounded, LeaseBounded, Authorized
  <2>2. CASE ~(now < grants[k])
    BY <1>3, <2>2, KeepingIInv DEF Authorized
  <2> QED
    BY <2>1, <2>2
<1>4. ASSUME NEW k \in Key, Permit(k) PROVE IInv'
  BY <1>4 DEF IInv, TypeOK, CopyBounded, LeaseBounded, Permit
<1>5. ASSUME NEW f \in Fingerprints, Revoke(f) PROVE IInv'
  BY <1>5, KeepingIInv DEF Revoke
<1>6. CASE Tick
  BY <1>6 DEF IInv, TypeOK, CopyBounded, LeaseBounded, Tick
<1>7. CASE UNCHANGED vars
  BY <1>7 DEF IInv, TypeOK, CopyBounded, LeaseBounded, vars
<1> QED
  BY <1>1, <1>2, <1>3, <1>4, <1>5, <1>6, <1>7, GrantIInv, WithdrawIInv DEF Next

\* IInv is an invariant.
LEMMA AlwaysIInv == Spec => []IInv
<1>1. Init => IInv
  BY TimeAssumption DEF Init, IInv, TypeOK, CopyBounded, LeaseBounded
<1> QED
  BY <1>1, NextIInv, PTL DEF Spec

\* No lease outlives a withdrawal by more than its own length and one copy
\* (ResourceAuthorizer.Grant, Authorized).
THEOREM StalenessBoundedAlways == Spec => []StalenessBounded
<1>1. IInv => StalenessBounded
  BY TimeAssumption DEF IInv, TypeOK, LeaseBounded, StalenessBounded, Reusable
<1> QED
  BY <1>1, AlwaysIInv, PTL

----------------------------------------------------------------------------
(* The limit.                                                              *)

Limited == IsFiniteSet(DOMAIN grants) /\ Bounded

\* The leases that are still live are no more than the map holds, and as many
\* only if none has expired.
LEMMA LiveCount ==
  ASSUME Limited
  PROVE  /\ IsFiniteSet(DOMAIN grants \ Expired)
         /\ Cardinality(DOMAIN grants \ Expired) \in Nat
         /\ Cardinality(DOMAIN grants \ Expired) <= GrantMax
         /\ Cardinality(DOMAIN grants \ Expired) >= GrantMax =>
               Expired = {} /\ Cardinality(DOMAIN grants) >= GrantMax
<1> DEFINE live == DOMAIN grants \ Expired
<1>1. live \subseteq DOMAIN grants /\ Expired \subseteq DOMAIN grants
  BY DEF Expired
<1>2. /\ IsFiniteSet(live) /\ Cardinality(live) <= Cardinality(DOMAIN grants)
      /\ Cardinality(live) = Cardinality(DOMAIN grants) => live = DOMAIN grants
  BY <1>1, FS_Subset DEF Limited
<1>3. Cardinality(live) \in Nat /\ Cardinality(DOMAIN grants) \in Nat
  BY <1>2, FS_CardinalityType DEF Limited
<1>4. live = DOMAIN grants => Expired = {}
  BY <1>1
<1> QED
  BY <1>2, <1>3, <1>4, TimeAssumption DEF Limited, Bounded

\* Recording one more lease after evict has made room stays within the limit.
LEMMA RoomFits ==
  ASSUME Limited, NEW g \in Key, NEW K \in Room(g)
  PROVE  IsFiniteSet(K \cup {g}) /\ Cardinality(K \cup {g}) <= GrantMax
<1> USE TimeAssumption
<1>1. ASSUME NEW S, IsFiniteSet(S), Cardinality(S) < GrantMax
      PROVE  IsFiniteSet(S \cup {g}) /\ Cardinality(S \cup {g}) <= GrantMax
  <2>1. Cardinality(S) \in Nat
    BY <1>1, FS_CardinalityType
  <2>2. /\ IsFiniteSet(S \cup {g})
        /\ Cardinality(S \cup {g}) = IF g \in S THEN Cardinality(S) ELSE Cardinality(S) + 1
    BY <1>1, FS_AddElement
  <2> QED
    BY <1>1, <2>1, <2>2
<1>2. CASE g \in DOMAIN grants
  <2>1. K \cup {g} = DOMAIN grants
    BY <1>2 DEF Room
  <2> QED
    BY <2>1 DEF Limited, Bounded
<1>3. CASE g \notin DOMAIN grants /\ Cardinality(DOMAIN grants) < GrantMax
  BY <1>1, <1>3 DEF Room, Limited
<1>4. CASE g \notin DOMAIN grants /\ ~(Cardinality(DOMAIN grants) < GrantMax)
  <2> DEFINE live == DOMAIN grants \ Expired
  <2>1. PICK V \in Victims : K = live \ V
    BY <1>4 DEF Room
  <2>2. CASE Cardinality(live) < GrantMax
    BY <1>1, <2>1, <2>2, LiveCount DEF Victims
  <2>3. CASE ~(Cardinality(live) < GrantMax)
    <3>1. PICK v \in live : V = {v}
      BY <2>3 DEF Victims
    <3>2. IsFiniteSet(live \ {v}) /\ Cardinality(live \ {v}) = Cardinality(live) - 1
      BY LiveCount, FS_RemoveElement
    <3>3. Cardinality(live \ {v}) < GrantMax
      BY <3>2, LiveCount
    <3> QED
      BY <1>1, <2>1, <3>1, <3>2, <3>3
  <2> QED
    BY <2>2, <2>3
<1> QED
  BY <1>2, <1>3, <1>4

\* Giving up leases stays within the limit.
LEMMA KeepingLimited ==
  ASSUME Limited, NEW K \in SUBSET DOMAIN grants, grants' = Keeping(K)
  PROVE  Limited'
<1>1. DOMAIN grants' = K
  BY DEF Keeping
<1>2. IsFiniteSet(K) /\ Cardinality(K) <= Cardinality(DOMAIN grants)
  BY FS_Subset DEF Limited
<1>3. Cardinality(K) \in Nat /\ Cardinality(DOMAIN grants) \in Nat
  BY <1>2, FS_CardinalityType DEF Limited
<1> QED
  BY <1>1, <1>2, <1>3, TimeAssumption DEF Limited, Bounded

\* Every step stays within the limit.
LEMMA NextLimited == Limited /\ [Next]_vars => Limited'
<1> SUFFICES ASSUME Limited, [Next]_vars PROVE Limited'
  OBVIOUS
<1>1. ASSUME NEW k \in Key, Grant(k) PROVE Limited'
  <2>1. PICK K \in Room(k) : DOMAIN grants' = K \cup {k}
    BY <1>1 DEF Grant
  <2> QED
    BY <2>1, RoomFits DEF Limited, Bounded
<1>2. ASSUME NEW k \in Key, Authorized(k) PROVE Limited'
  <2>1. CASE now < grants[k]
    BY <1>2, <2>1 DEF Authorized, Limited, Bounded
  <2>2. CASE ~(now < grants[k])
    BY <1>2, <2>2, KeepingLimited DEF Authorized
  <2> QED
    BY <2>1, <2>2
<1>3. ASSUME NEW f \in Fingerprints, Revoke(f) PROVE Limited'
  BY <1>3, KeepingLimited DEF Revoke
<1>4. ASSUME UNCHANGED grants PROVE Limited'
  BY <1>4 DEF Limited, Bounded
<1> QED
  BY <1>1, <1>2, <1>3, <1>4 DEF Next, vars, Answer, Abandon, Withdraw, Permit, Tick

\* The map of leases is always within its limit.
LEMMA AlwaysLimited == Spec => []Limited
<1>1. Init => Limited
  <2>1. ASSUME Init PROVE DOMAIN grants = {}
    BY <2>1 DEF Init
  <2> QED
    BY <2>1, FS_EmptySet, TimeAssumption DEF Limited, Bounded
<1> QED
  BY <1>1, NextLimited, PTL DEF Spec

\* Leases are bounded in time and in number: none outlives a withdrawal by
\* more than its own length and one copy, and the map never outgrows its limit
\* (ResourceAuthorizer.Grant, Authorized, evict).
THEOREM LeasesBoundedAlways == Spec => []LeasesBounded
<1>1. Limited => Bounded
  BY DEF Limited
<1> QED
  BY <1>1, AlwaysLimited, StalenessBoundedAlways, PTL DEF LeasesBounded

\* The limit costs a live lease only when every lease is live, and then one
\* that expires first; nothing else takes a live lease but the rejection of
\* its caller (evict, Revoke).
THEOREM LiveLeasesSparedAlways == Spec => LiveLeasesSpared
<1> DEFINE Spared(k) ==
        \/ /\ DOMAIN grants' \subseteq DOMAIN grants
           /\ \A j \in DOMAIN grants' : j[1] # k[1]
        \/ /\ Expired = {} /\ Cardinality(DOMAIN grants) >= GrantMax
           /\ \A j \in DOMAIN grants : grants[k] <= grants[j]
<1>1. ASSUME TypeOK, Limited, Next, NEW k \in Key, Reusable(k), k \notin DOMAIN grants'
      PROVE  Spared(k)
  <2>1. ASSUME NEW g \in Key, Grant(g) PROVE Spared(k)
    <3> DEFINE live == DOMAIN grants \ Expired
    <3>1. PICK K \in Room(g) : DOMAIN grants' = K \cup {g}
      BY <2>1 DEF Grant
    <3>2. k \in live /\ k \notin K
      BY <1>1, <3>1 DEF TypeOK, Reusable, Expired
    <3>3. PICK V \in Victims : K = live \ V
      BY <3>2 DEF Room
    <3>4. ~(Cardinality(live) < GrantMax) /\ \A j \in live : grants[k] <= grants[j]
      BY <3>2, <3>3 DEF Victims
    <3>5. Expired = {} /\ Cardinality(DOMAIN grants) >= GrantMax
      BY <1>1, <3>4, LiveCount, TimeAssumption
    <3> QED
      BY <3>4, <3>5
  <2>2. ASSUME NEW g \in Key, Authorized(g) PROVE Spared(k)
    BY <1>1, <2>2 DEF Authorized, Keeping, Reusable
  <2>3. ASSUME NEW f \in Fingerprints, Revoke(f) PROVE Spared(k)
    BY <1>1, <2>3 DEF Revoke, Keeping, Reusable
  <2>4. grants' # grants
    BY <1>1 DEF Reusable
  <2> QED
    BY <1>1, <2>1, <2>2, <2>3, <2>4 DEF Next, Answer, Abandon, Withdraw, Permit, Tick
<1>2. IInv /\ Limited /\ [Next]_vars =>
        [\A k \in Key : (Reusable(k) /\ k \notin DOMAIN grants') => Spared(k)]_vars
  BY <1>1 DEF IInv
<1> QED
  BY <1>2, AlwaysIInv, AlwaysLimited, PTL DEF Spec, LiveLeasesSpared

=============================================================================
