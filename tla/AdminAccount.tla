---------------------------- MODULE AdminAccount ----------------------------
(***************************************************************************)
(* The administrator account and the sessions of the admin interface       *)
(* (internal/admin/admin.go, session.go, password.go and handleSetup in    *)
(* missing.go).                                                            *)
(*                                                                         *)
(* Each process start prints a setup token that is valid for a short       *)
(* window.  The token signs a browser in for the rest of the window, and   *)
(* creates the one administrator account, which retires the token and the  *)
(* sessions made from it.  The account lives in the database and outlives  *)
(* the process; token, sessions and requests do not.                       *)
(*                                                                         *)
(* Requests interleave between the statements and the critical sections of *)
(* a handler.  An account stands for a user name with its password.        *)
(***************************************************************************)
EXTENDS Integers

CONSTANTS Accounts,     \* accounts a setup may ask for
          Requests,     \* requests being handled at one time
          Ids,          \* session ids
          BootWindow,   \* validity of the setup token
          SessionTTL,   \* lifetime of a password session
          NoAccount, NoRequest, SetupToken

ASSUME WindowAssumption == BootWindow \in Nat /\ SessionTTL \in Nat

ASSUME NamesAssumption ==
    NoAccount \notin Accounts /\ NoRequest \notin Requests /\ SetupToken \notin Accounts \cup {NoAccount}

VARIABLES admins,       \* the accounts of admin_users
          outdated,     \* accounts whose hash has older parameters
          age,          \* of the setup token, counted while it can be valid
          consumed,     \* setupConsumed
          subject,      \* subject[s]: whose session s is, NoAccount for none
          left,         \* left[s]: what is left of its lifetime
          phase,        \* phase[r]: how far request r has come
          account,      \* account[r]: the account it is about
          lock,         \* the holder of the advisory lock
          created       \* accounts a caller was told were created

vars == <<admins, outdated, age, consumed, subject, left, phase, account, lock, created>>

Phases == {"idle", "hashed", "locked", "inserted", "committed", "consumed",
           "minting", "verified", "rehashed"}

TypeOK ==
    /\ admins \subseteq Accounts
    /\ outdated \subseteq Accounts
    /\ age \in 0 .. BootWindow + 1
    /\ consumed \in BOOLEAN
    /\ subject \in [Ids -> Accounts \cup {NoAccount, SetupToken}]
    /\ left \in [Ids -> Nat]
    /\ phase \in [Requests -> Phases]
    /\ account \in [Requests -> Accounts \cup {NoAccount}]
    /\ lock \in Requests \cup {NoRequest}
    /\ created \subseteq Accounts

\* The process has just started, on a database with or without an account.
Init ==
    /\ admins \in {{}} \cup {{a} : a \in Accounts}
    /\ outdated = admins
    /\ age = 0
    /\ consumed = FALSE
    /\ subject = [s \in Ids |-> NoAccount]
    /\ left = [s \in Ids |-> 0]
    /\ phase = [r \in Requests |-> "idle"]
    /\ account = [r \in Requests |-> NoAccount]
    /\ lock = NoRequest
    /\ created = {}

----------------------------------------------------------------------------
Goes(r, p, a) ==
    /\ phase' = [phase EXCEPT ![r] = p]
    /\ account' = [account EXCEPT ![r] = a]

Ends(r) == Goes(r, "idle", NoAccount)

\* setupTokenValid, of the right token.
setupTokenValid == ~consumed /\ age <= BootWindow

(* Setup.                                                                  *)

\* The token is checked once, before the password is hashed.
SetupChecks(r, a) ==
    /\ phase[r] = "idle" /\ setupTokenValid
    /\ Goes(r, "hashed", a)
    /\ UNCHANGED <<admins, outdated, age, consumed, subject, left, lock, created>>

\* Mutant: the advisory lock is not waited for.
SetupLocksUnheld(r) ==
    /\ phase[r] = "hashed"
    /\ lock' = r
    /\ Goes(r, "locked", account[r])
    /\ UNCHANGED <<admins, outdated, age, consumed, subject, left, created>>

SetupLocks(r) ==
    /\ phase[r] = "hashed" /\ lock = NoRequest
    /\ lock' = r
    /\ Goes(r, "locked", account[r])
    /\ UNCHANGED <<admins, outdated, age, consumed, subject, left, created>>

\* count(*) and INSERT, in the transaction that holds the lock.
SetupInserts(r) ==
    /\ phase[r] = "locked" /\ admins = {}
    /\ Goes(r, "inserted", account[r])
    /\ UNCHANGED <<admins, outdated, age, consumed, subject, left, lock, created>>

\* Mutant: a refused setup removes the account it was about.
SetupRefusedCleaning(r) ==
    /\ phase[r] \in {"hashed", "locked"}
    /\ admins' = admins \ {account[r]}
    /\ lock' = IF lock = r THEN NoRequest ELSE lock
    /\ Ends(r)
    /\ UNCHANGED <<outdated, age, consumed, subject, left, created>>

\* An account exists, or a statement before the commit failed.
SetupRefused(r) ==
    /\ phase[r] \in {"hashed", "locked"}
    /\ lock' = IF lock = r THEN NoRequest ELSE lock
    /\ Ends(r)
    /\ UNCHANGED <<admins, outdated, age, consumed, subject, left, created>>

SetupCommits(r) ==
    /\ phase[r] = "inserted"
    /\ admins' = admins \cup {account[r]}
    /\ lock' = NoRequest
    /\ Goes(r, "committed", account[r])
    /\ UNCHANGED <<outdated, age, consumed, subject, left, created>>

\* Mutant: the error of the commit is not looked at.
SetupCommitFailsTold(r) ==
    /\ phase[r] = "inserted"
    /\ lock' = NoRequest
    /\ created' = created \cup {account[r]}
    /\ Ends(r)
    /\ UNCHANGED <<admins, outdated, age, consumed, subject, left>>

\* An error from the commit: it may have taken effect all the same.
SetupCommitFails(r) ==
    /\ phase[r] = "inserted"
    /\ \/ admins' = admins
       \/ admins' = admins \cup {account[r]}
    /\ lock' = NoRequest
    /\ Ends(r)
    /\ UNCHANGED <<outdated, age, consumed, subject, left, created>>

\* consumeSetup: the flag first, then the sessions, then the answer.
SetupConsumes(r) ==
    /\ phase[r] = "committed"
    /\ consumed' = TRUE
    /\ Goes(r, "consumed", account[r])
    /\ UNCHANGED <<admins, outdated, age, subject, left, lock, created>>

revokeSubject(r) ==
    /\ phase[r] = "consumed"
    /\ subject' = [s \in Ids |-> IF subject[s] = SetupToken THEN NoAccount ELSE subject[s]]
    /\ created' = created \cup {account[r]}
    /\ Ends(r)
    /\ UNCHANGED <<admins, outdated, age, consumed, left, lock>>

----------------------------------------------------------------------------
(* Sessions.                                                               *)

\* createWithSubjectTTL: expired sessions are swept as one is made.
Mints(s, who, ttl) ==
    /\ subject[s] = NoAccount
    /\ subject' = [i \in Ids |-> IF i = s THEN who
                                 ELSE IF left[i] = 0 THEN NoAccount ELSE subject[i]]
    /\ left' = [left EXCEPT ![s] = ttl]

LoginChecks(r) ==
    /\ phase[r] = "idle" /\ setupTokenValid
    /\ Goes(r, "minting", NoAccount)
    /\ UNCHANGED <<admins, outdated, age, consumed, subject, left, lock, created>>

\* bootstrapTTL: what is left of the window now.
LoginMints(r, s) ==
    /\ phase[r] = "minting" /\ BootWindow - age > 0
    /\ Mints(s, SetupToken, BootWindow - age)
    /\ Ends(r)
    /\ UNCHANGED <<admins, outdated, age, consumed, lock, created>>

LoginTooLate(r) ==
    /\ phase[r] = "minting" /\ BootWindow - age <= 0
    /\ Ends(r)
    /\ UNCHANGED <<admins, outdated, age, consumed, subject, left, lock, created>>

\* verifyAdmin, of the right password.
verifyAdmin(r, a) ==
    /\ phase[r] = "idle" /\ a \in admins
    /\ Goes(r, IF a \in outdated THEN "verified" ELSE "rehashed", a)
    /\ UNCHANGED <<admins, outdated, age, consumed, subject, left, lock, created>>

\* needsRehash: the stored hash is replaced where the update succeeds.
Rehashes(r) ==
    /\ phase[r] = "verified"
    /\ \/ outdated' = outdated \ {account[r]}
       \/ outdated' = outdated
    /\ Goes(r, "rehashed", account[r])
    /\ UNCHANGED <<admins, age, consumed, subject, left, lock, created>>

PasswordMints(r, s) ==
    /\ phase[r] = "rehashed"
    /\ Mints(s, account[r], SessionTTL)
    /\ Ends(r)
    /\ UNCHANGED <<admins, outdated, age, consumed, lock, created>>

\* lookup deletes a session it finds expired; logout deletes any.
lookup(s) ==
    /\ subject[s] # NoAccount /\ left[s] = 0
    /\ subject' = [subject EXCEPT ![s] = NoAccount]
    /\ UNCHANGED <<admins, outdated, age, consumed, left, phase, account, lock, created>>

handleLogout(s) ==
    /\ subject[s] # NoAccount /\ left[s] > 0
    /\ subject' = [subject EXCEPT ![s] = NoAccount]
    /\ UNCHANGED <<admins, outdated, age, consumed, left, phase, account, lock, created>>

----------------------------------------------------------------------------
(* Time, and the process ending and starting again.                        *)

Tick ==
    /\ age' = IF age > BootWindow THEN age ELSE age + 1
    /\ left' = [s \in Ids |-> IF left[s] = 0 THEN 0 ELSE left[s] - 1]
    /\ UNCHANGED <<admins, outdated, consumed, subject, phase, account, lock, created>>

Restart ==
    /\ age' = 0
    /\ consumed' = FALSE
    /\ subject' = [s \in Ids |-> NoAccount]
    /\ left' = [s \in Ids |-> 0]
    /\ phase' = [r \in Requests |-> "idle"]
    /\ account' = [r \in Requests |-> NoAccount]
    /\ lock' = NoRequest
    /\ UNCHANGED <<admins, outdated, created>>

----------------------------------------------------------------------------
Setup(r) ==
    \/ \E a \in Accounts : SetupChecks(r, a)
    \/ SetupLocks(r) \/ SetupInserts(r) \/ SetupRefused(r)
    \/ SetupCommits(r) \/ SetupCommitFails(r)
    \/ SetupConsumes(r) \/ revokeSubject(r)

Login(r) ==
    \/ LoginChecks(r) \/ LoginTooLate(r)
    \/ \E s \in Ids : LoginMints(r, s) \/ PasswordMints(r, s)
    \/ \E a \in Accounts : verifyAdmin(r, a)
    \/ Rehashes(r)

Next ==
    \/ \E r \in Requests : Setup(r) \/ Login(r)
    \/ \E s \in Ids : lookup(s) \/ handleLogout(s)
    \/ Tick
    \/ Restart

Spec == Init /\ [][Next]_vars

----------------------------------------------------------------------------
(* Properties.                                                             *)

(* The administrator account, once there, is never replaced or joined by   *)
(* another: not by a setup that was checked before it was created, not by  *)
(* one retried after an unclear commit, not after a restart with a new     *)
(* token (handleSetup, admin_users_singleton_idx).                         *)
AdminKept == [][admins # {} => admins' = admins]_vars

(* A caller who is told that the account was created has that account,     *)
(* from then on (handleSetup).                                             *)
CreatedHolds == created \subseteq admins

Carrying == {"hashed", "locked", "inserted", "committed", "consumed", "verified", "rehashed"}

(* The setups under way never get past each other: only the holder of the  *)
(* advisory lock is between its lock and its commit, an account waits to   *)
(* be committed only while there is none, and a setup past its commit has  *)
(* its account in the table (handleSetup).                                 *)
SetupsOrdered ==
    \A r \in Requests :
       /\ phase[r] \in Carrying => account[r] \in Accounts
       /\ phase[r] \in {"locked", "inserted"} => lock = r
       /\ phase[r] = "inserted" => admins = {}
       /\ phase[r] \in {"committed", "consumed"} => account[r] \in admins

(* A session made from the setup token ends no later than the token does   *)
(* (bootstrapTTL, "caps browser sessions minted from the setup token at    *)
(* the remaining bootstrap window").                                       *)
BootstrapCapped ==
    \A s \in Ids : (subject[s] = SetupToken /\ left[s] > 0) => left[s] + age <= BootWindow

(* The three together: setups stay in order, what they report is true, and *)
(* what the setup token allowed ends with it (handleSetup, handleLogin).   *)
AccountSound == SetupsOrdered /\ CreatedHolds /\ BootstrapCapped

=============================================================================
