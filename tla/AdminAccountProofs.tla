------------------------- MODULE AdminAccountProofs -------------------------
(***************************************************************************)
(* What AdminAccount's run checks on a small instance, for any number of   *)
(* accounts, concurrent requests and sessions, and any two lifetimes.      *)
(*                                                                         *)
(* SetupsOrdered carries the argument: an account is written only under    *)
(* the advisory lock and only while the table is empty, so a commit never  *)
(* meets another account; with the types it is inductive.                  *)
(***************************************************************************)
EXTENDS AdminAccount, TLAPS

IInv == TypeOK /\ SetupsOrdered /\ CreatedHolds /\ BootstrapCapped

\* The initial state: no request has started and there are no sessions.
LEMMA InitIInv == Init => IInv
<1> SUFFICES ASSUME Init PROVE IInv
  OBVIOUS
<1> USE WindowAssumption, NamesAssumption
<1>1. admins \subseteq Accounts
  BY DEF Init
<1>2. TypeOK
  <2>1. left \in [Ids -> Nat] /\ age \in 0 .. BootWindow + 1
    BY DEF Init
  <2>2. subject \in [Ids -> Accounts \cup {NoAccount, SetupToken}]
    BY DEF Init
  <2>3. phase \in [Requests -> Phases] /\ account \in [Requests -> Accounts \cup {NoAccount}]
    BY DEF Init, Phases
  <2> QED
    BY <1>1, <2>1, <2>2, <2>3 DEF Init, TypeOK
<1>3. SetupsOrdered /\ CreatedHolds /\ BootstrapCapped
  BY DEF Init, SetupsOrdered, CreatedHolds, BootstrapCapped, Carrying
<1> QED
  BY <1>2, <1>3 DEF IInv

\* A setup request keeps the invariant.
LEMMA SetupIInv == ASSUME IInv, NEW r \in Requests, Setup(r) PROVE IInv'
<1> USE WindowAssumption, NamesAssumption
<1>1. ASSUME NEW a \in Accounts, SetupChecks(r, a) PROVE IInv'
  BY <1>1 DEF IInv, TypeOK, SetupsOrdered, CreatedHolds, BootstrapCapped, Phases, Carrying,
              SetupChecks, Goes
<1>2. CASE SetupLocks(r)
  BY <1>2 DEF IInv, TypeOK, SetupsOrdered, CreatedHolds, BootstrapCapped, Phases, Carrying,
              SetupLocks, Goes
<1>3. CASE SetupInserts(r)
  BY <1>3 DEF IInv, TypeOK, SetupsOrdered, CreatedHolds, BootstrapCapped, Phases, Carrying,
              SetupInserts, Goes
<1>4. CASE SetupRefused(r)
  BY <1>4 DEF IInv, TypeOK, SetupsOrdered, CreatedHolds, BootstrapCapped, Phases, Carrying,
              SetupRefused, Ends, Goes
<1>5. CASE SetupCommits(r)
  BY <1>5 DEF IInv, TypeOK, SetupsOrdered, CreatedHolds, BootstrapCapped, Phases, Carrying,
              SetupCommits, Goes
<1>6. CASE SetupCommitFails(r)
  BY <1>6 DEF IInv, TypeOK, SetupsOrdered, CreatedHolds, BootstrapCapped, Phases, Carrying,
              SetupCommitFails, Ends, Goes
<1>7. CASE SetupConsumes(r)
  BY <1>7 DEF IInv, TypeOK, SetupsOrdered, CreatedHolds, BootstrapCapped, Phases, Carrying,
              SetupConsumes, Goes
<1>8. CASE revokeSubject(r)
  BY <1>8 DEF IInv, TypeOK, SetupsOrdered, CreatedHolds, BootstrapCapped, Phases, Carrying,
              revokeSubject, Ends, Goes
<1> QED
  BY <1>1, <1>2, <1>3, <1>4, <1>5, <1>6, <1>7, <1>8 DEF Setup

\* A new session: no other session gains a lifetime or an owner, and one made
\* for the setup token has no more than the rest of the window.
LEMMA MintsCapped ==
  ASSUME TypeOK, BootstrapCapped, NEW s \in Ids, NEW who \in Accounts \cup {SetupToken},
         NEW ttl \in Nat, who = SetupToken => ttl + age <= BootWindow,
         Mints(s, who, ttl), age' = age
  PROVE  /\ BootstrapCapped'
         /\ (subject \in [Ids -> Accounts \cup {NoAccount, SetupToken}])'
         /\ (left \in [Ids -> Nat])'
  BY WindowAssumption, NamesAssumption DEF TypeOK, BootstrapCapped, Mints

\* A login request keeps the invariant.
LEMMA LoginIInv == ASSUME IInv, NEW r \in Requests, Login(r) PROVE IInv'
<1> USE WindowAssumption, NamesAssumption
<1>1. CASE LoginChecks(r)
  BY <1>1 DEF IInv, TypeOK, SetupsOrdered, CreatedHolds, BootstrapCapped, Phases, Carrying,
              LoginChecks, Goes
<1>2. CASE LoginTooLate(r)
  BY <1>2 DEF IInv, TypeOK, SetupsOrdered, CreatedHolds, BootstrapCapped, Phases, Carrying,
              LoginTooLate, Ends, Goes
<1>3. ASSUME NEW s \in Ids, LoginMints(r, s) PROVE IInv'
  <2>1. BootWindow - age \in Nat /\ BootWindow - age + age <= BootWindow
    BY <1>3 DEF IInv, TypeOK, LoginMints
  <2>2. /\ BootstrapCapped'
        /\ (subject \in [Ids -> Accounts \cup {NoAccount, SetupToken}])'
        /\ (left \in [Ids -> Nat])'
    BY <1>3, <2>1, MintsCapped DEF IInv, LoginMints
  <2> QED
    BY <1>3, <2>2 DEF IInv, TypeOK, SetupsOrdered, CreatedHolds, Phases, Carrying,
                      LoginMints, Ends, Goes
<1>4. ASSUME NEW s \in Ids, PasswordMints(r, s) PROVE IInv'
  <2>1. account[r] \in Accounts
    BY <1>4 DEF IInv, SetupsOrdered, Carrying, PasswordMints
  <2>2. /\ BootstrapCapped'
        /\ (subject \in [Ids -> Accounts \cup {NoAccount, SetupToken}])'
        /\ (left \in [Ids -> Nat])'
    BY <1>4, <2>1, MintsCapped DEF IInv, PasswordMints
  <2> QED
    BY <1>4, <2>2 DEF IInv, TypeOK, SetupsOrdered, CreatedHolds, Phases, Carrying,
                      PasswordMints, Ends, Goes
<1>5. ASSUME NEW a \in Accounts, verifyAdmin(r, a) PROVE IInv'
  BY <1>5 DEF IInv, TypeOK, SetupsOrdered, CreatedHolds, BootstrapCapped, Phases, Carrying,
              verifyAdmin, Goes
<1>6. CASE Rehashes(r)
  BY <1>6 DEF IInv, TypeOK, SetupsOrdered, CreatedHolds, BootstrapCapped, Phases, Carrying,
              Rehashes, Goes
<1> QED
  BY <1>1, <1>2, <1>3, <1>4, <1>5, <1>6 DEF Login

\* Sessions ending, time and restarts keep the invariant.
LEMMA OtherIInv ==
  ASSUME IInv, (\E s \in Ids : lookup(s) \/ handleLogout(s)) \/ Tick \/ Restart \/ UNCHANGED vars
  PROVE  IInv'
<1> USE WindowAssumption, NamesAssumption
<1>1. ASSUME NEW s \in Ids, lookup(s) \/ handleLogout(s) PROVE IInv'
  BY <1>1 DEF IInv, TypeOK, SetupsOrdered, CreatedHolds, BootstrapCapped, Phases, Carrying,
              lookup, handleLogout
<1>2. CASE Tick
  <2>1. TypeOK'
    BY <1>2 DEF IInv, TypeOK, Tick
  <2>2. ASSUME NEW s \in Ids, subject'[s] = SetupToken, left'[s] > 0
        PROVE  left'[s] + age' <= BootWindow
    <3>1. left[s] \in Nat /\ left[s] > 0 /\ left'[s] = left[s] - 1 /\ subject[s] = SetupToken
      BY <1>2, <2>2 DEF IInv, TypeOK, Tick
    <3>2. left[s] + age <= BootWindow
      BY <3>1 DEF IInv, BootstrapCapped
    <3> QED
      BY <1>2, <3>1, <3>2 DEF IInv, TypeOK, Tick
  <2>3. BootstrapCapped'
    BY <2>2 DEF BootstrapCapped
  <2> QED
    BY <1>2, <2>1, <2>3 DEF IInv, SetupsOrdered, CreatedHolds, Tick
<1>3. CASE Restart
  <2>1. (left \in [Ids -> Nat])' /\ (age \in 0 .. BootWindow + 1)'
    BY <1>3 DEF Restart
  <2>2. (subject \in [Ids -> Accounts \cup {NoAccount, SetupToken}])'
    BY <1>3 DEF Restart
  <2>3. /\ (phase \in [Requests -> Phases])'
        /\ (account \in [Requests -> Accounts \cup {NoAccount}])'
    BY <1>3 DEF Restart, Phases
  <2>4. TypeOK'
    BY <1>3, <2>1, <2>2, <2>3 DEF IInv, TypeOK, Restart
  <2>5. SetupsOrdered' /\ CreatedHolds' /\ BootstrapCapped'
    BY <1>3 DEF IInv, SetupsOrdered, CreatedHolds, BootstrapCapped, Carrying, Restart
  <2> QED
    BY <2>4, <2>5 DEF IInv
<1>4. CASE UNCHANGED vars
  BY <1>4 DEF IInv, TypeOK, SetupsOrdered, CreatedHolds, BootstrapCapped, vars
<1> QED
  BY <1>1, <1>2, <1>3, <1>4

\* IInv is an invariant.
LEMMA AlwaysIInv == Spec => []IInv
<1>1. IInv /\ [Next]_vars => IInv'
  BY SetupIInv, LoginIInv, OtherIInv DEF Next
<1> QED
  BY InitIInv, <1>1, PTL DEF Spec

\* Setups stay in order, whatever their number and however they fail: the
\* advisory lock and the count under it are enough.  An account reported as
\* created is in the table for good, and no session made from the setup token
\* outlives it (handleSetup, bootstrapTTL).
THEOREM AccountSoundAlways == Spec => []AccountSound
<1>1. IInv => AccountSound
  BY DEF IInv, AccountSound
<1> QED
  BY AlwaysIInv, <1>1, PTL

\* The account, once there, is never replaced or joined (handleSetup).
THEOREM AdminKeptAlways == Spec => AdminKept
<1>1. IInv /\ [Next]_vars => [admins # {} => admins' = admins]_vars
  <2> SUFFICES ASSUME IInv, Next, admins # {} PROVE admins' = admins
    OBVIOUS
  <2>1. ASSUME NEW r \in Requests, Setup(r) PROVE admins' = admins
    BY <2>1 DEF IInv, SetupsOrdered, Setup, SetupChecks, SetupLocks, SetupInserts, SetupRefused,
                SetupCommits, SetupCommitFails, SetupConsumes, revokeSubject
  <2>2. ASSUME NEW r \in Requests, Login(r) PROVE admins' = admins
    BY <2>2 DEF Login, LoginChecks, LoginTooLate, LoginMints, PasswordMints, verifyAdmin, Rehashes
  <2> QED
    BY <2>1, <2>2 DEF Next, lookup, handleLogout, Tick, Restart
<1> QED
  BY AlwaysIInv, <1>1, PTL DEF Spec, AdminKept

=============================================================================
