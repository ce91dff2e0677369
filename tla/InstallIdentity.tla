--------------------------- MODULE InstallIdentity ---------------------------
(***************************************************************************)
(* The installation's identity (internal/onboarding/identity.go): the      *)
(* client identifier and device key that EnsureIdentity creates on first   *)
(* use, while several requests and the refresh worker may all be the first *)
(* to ask.  A caller names its own freshly generated identity.  Nothing    *)
(* updates or deletes the row.                                             *)
(***************************************************************************)
EXTENDS Naturals

CONSTANTS
    Callers,        \* concurrent calls of EnsureIdentity or DeviceCredentials
    Nobody,         \* no row
    MaxCalls        \* bound on the calls of each caller

ASSUME NobodyAssumption == Nobody \notin Callers

VARIABLES
    row,            \* app_identity 'singleton': who generated it
    at,             \* where each call stands
    wants,          \* whether the call also needs the device key
    answer,         \* the client identifier each caller was last given
    key,            \* the device key each caller was last given
    calls           \* bound

vars == <<row, at, wants, answer, key, calls>>

Init ==
    /\ row = Nobody
    /\ at = [c \in Callers |-> "idle"]
    /\ wants = [c \in Callers |-> FALSE]
    /\ answer = [c \in Callers |-> Nobody]
    /\ key = [c \in Callers |-> Nobody]
    /\ calls = [c \in Callers |-> 0]

\* EnsureIdentity alone, or DeviceCredentials, which reads the key as well
Call(c) ==
    /\ at[c] = "idle" /\ calls[c] < MaxCalls
    /\ calls' = [calls EXCEPT ![c] = @ + 1]
    /\ \E k \in BOOLEAN : wants' = [wants EXCEPT ![c] = k]
    /\ at' = [at EXCEPT ![c] = "look"]
    /\ UNCHANGED <<row, answer, key>>

Return(c) ==
    /\ answer' = [answer EXCEPT ![c] = row]
    /\ key' = [key EXCEPT ![c] = IF wants[c] THEN row ELSE @]
    /\ at' = [at EXCEPT ![c] = "idle"]

\* The row is there, or the caller generates one
Look(c) ==
    /\ at[c] = "look"
    /\ IF row # Nobody THEN Return(c)
       ELSE at' = [at EXCEPT ![c] = "insert"] /\ UNCHANGED <<answer, key>>
    /\ UNCHANGED <<row, wants, calls>>

\* Mutant: the insert replaces an identity that is already there.
InsertReplacing(c) ==
    /\ at[c] = "insert"
    /\ row' = c
    /\ at' = [at EXCEPT ![c] = "reread"]
    /\ UNCHANGED <<wants, answer, key, calls>>

\* ON CONFLICT DO NOTHING
Insert(c) ==
    /\ at[c] = "insert"
    /\ row' = IF row = Nobody THEN c ELSE row
    /\ at' = [at EXCEPT ![c] = "reread"]
    /\ UNCHANGED <<wants, answer, key, calls>>

Reread(c) ==
    /\ at[c] = "reread"
    /\ Return(c)
    /\ UNCHANGED <<row, wants, calls>>

\* Any statement may fail: the error is returned, never a local identity
Fail(c) ==
    /\ at[c] # "idle"
    /\ at' = [at EXCEPT ![c] = "idle"]
    /\ UNCHANGED <<row, wants, answer, key, calls>>

Next == \E c \in Callers : Call(c) \/ Look(c) \/ Insert(c) \/ Reread(c) \/ Fail(c)

Spec == Init /\ [][Next]_vars

-----------------------------------------------------------------------------
(* However the first calls race, every caller is given the same client     *)
(* identifier for good, the stored one, and a device key that belongs to   *)
(* it ("losers return the stored winner, never a phantom local ID").       *)
OneIdentity ==
    \A c, d \in Callers :
        /\ answer[c] # Nobody /\ answer[d] # Nobody => answer[c] = answer[d]
        /\ key[c] # Nobody => key[c] = answer[c]
        /\ answer[c] # Nobody => answer[c] = row

=============================================================================
