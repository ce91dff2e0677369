----------------------- MODULE InstallIdentityProofs -----------------------
(***************************************************************************)
(* OneIdentity for any number of callers and calls.  The row is written    *)
(* once, and a caller that rereads it finds it written.                    *)
(***************************************************************************)
EXTENDS InstallIdentity, TLAPS

Types ==
    /\ row \in Callers \cup {Nobody}
    /\ at \in [Callers -> {"idle", "look", "insert", "reread"}]
    /\ wants \in [Callers -> BOOLEAN]
    /\ answer \in [Callers -> Callers \cup {Nobody}]
    /\ key \in [Callers -> Callers \cup {Nobody}]

IInv ==
    /\ Types
    /\ \A c \in Callers :
          /\ at[c] = "reread" => row # Nobody
          /\ answer[c] # Nobody => answer[c] = row
          /\ key[c] # Nobody => key[c] = answer[c]

\* What a call returns is the row, so all three conjuncts survive it.
LEMMA ReturnIInv ==
  ASSUME IInv, NEW c \in Callers, row # Nobody, Return(c), UNCHANGED <<row, wants>>
  PROVE  IInv'
<1>1. Types'
  BY DEF IInv, Types, Return
<1>2. ASSUME NEW d \in Callers
      PROVE  /\ at'[d] = "reread" => row' # Nobody
             /\ answer'[d] # Nobody => answer'[d] = row'
             /\ key'[d] # Nobody => key'[d] = answer'[d]
  <2>1. CASE d = c
    BY <2>1 DEF IInv, Types, Return
  <2>2. CASE d # c
    BY <2>2 DEF IInv, Types, Return
  <2> QED
    BY <2>1, <2>2
<1> QED
  BY <1>1, <1>2 DEF IInv

\* Every step keeps the invariant.
LEMMA NextIInv == IInv /\ [Next]_vars => IInv'
<1> SUFFICES ASSUME IInv, [Next]_vars PROVE IInv'
  OBVIOUS
<1>1. ASSUME NEW c \in Callers, Call(c) PROVE IInv'
  BY <1>1 DEF IInv, Types, Call
<1>2. ASSUME NEW c \in Callers, Look(c) PROVE IInv'
  <2>1. CASE row # Nobody
    BY <1>2, <2>1, ReturnIInv DEF Look
  <2>2. CASE row = Nobody
    BY <1>2, <2>2 DEF IInv, Types, Look
  <2> QED
    BY <2>1, <2>2
<1>3. ASSUME NEW c \in Callers, Insert(c), c # Nobody PROVE IInv'
  BY <1>3 DEF IInv, Types, Insert
<1>4. ASSUME NEW c \in Callers, Reread(c) PROVE IInv'
  BY <1>4, ReturnIInv DEF IInv, Reread
<1>5. ASSUME NEW c \in Callers, Fail(c) PROVE IInv'
  BY <1>5 DEF IInv, Types, Fail
<1>6. CASE UNCHANGED vars
  BY <1>6 DEF IInv, Types, vars
<1> QED
  BY <1>1, <1>2, <1>3, <1>4, <1>5, <1>6, NobodyAssumption DEF Next

\* However many callers race, and however their statements fail, all are given
\* one identity, the stored one (EnsureIdentity, DeviceCredentials).
THEOREM OneIdentityAlways == Spec => []OneIdentity
<1>1. Init => IInv
  BY DEF Init, IInv, Types
<1>2. IInv => OneIdentity
  BY DEF IInv, OneIdentity
<1> QED
  BY <1>1, <1>2, NextIInv, PTL DEF Spec

=============================================================================
