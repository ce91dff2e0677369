------------------------- MODULE GenerationsProofs -------------------------
(***************************************************************************)
(* Proofs about the generation counters, for any number of scopes and      *)
(* classes and any counter width.                                          *)
(***************************************************************************)
EXTENDS Generations, TLAPS

\* The saturated sum is monotone in each operand and stays a natural number.
LEMMA SaturatedAddMonotone ==
    ASSUME NEW x \in Nat, NEW y \in Nat, NEW z \in Nat,
           NEW x2 \in Nat, NEW y2 \in Nat, NEW z2 \in Nat,
           x <= x2, y <= y2, z <= z2
    PROVE  /\ SaturatedAdd(x, y, z) \in Nat
           /\ SaturatedAdd(x, y, z) <= SaturatedAdd(x2, y2, z2)
BY WidthAssumption DEF SaturatedAdd

\* Every statement of the store increments one counter and no other.
LEMMA StepIsBump ==
    ASSUME GenNext
    PROVE  \E rs \in Scope \cup {Blank}, rc \in Class \cup {Blank} : Bump(rs, rc)
BY DEF GenNext, BumpClass, BumpScope, BumpServerClass, BumpAll

LEMMA BumpCounters ==
    ASSUME GenTypeOK, NEW rs \in Scope \cup {Blank}, NEW rc \in Class \cup {Blank},
           Bump(rs, rc)
    PROVE  /\ GenTypeOK'
           /\ \A row \in Row : gen[row] \in Nat /\ gen'[row] \in Nat
           /\ \A row \in Row :
                 gen'[row] = IF row = <<rs, rc>> THEN gen[row] + 1 ELSE gen[row]
<1>1. <<rs, rc>> \in Row
  BY DEF Row
<1>2. gen[<<rs, rc>>] \in 0..MaxGen /\ gen[<<rs, rc>>] + 1 \in 0..MaxGen
  BY <1>1, WidthAssumption DEF GenTypeOK, Bump
<1>3. gen' = [gen EXCEPT ![<<rs, rc>>] = gen[<<rs, rc>>] + 1]
  BY DEF Bump
<1>4. GenTypeOK'
  BY <1>1, <1>2, <1>3 DEF GenTypeOK
<1>5. \A row \in Row : gen[row] \in Nat /\ gen'[row] \in Nat
  BY <1>4, WidthAssumption DEF GenTypeOK
<1> QED
  BY <1>1, <1>3, <1>4, <1>5 DEF GenTypeOK

\* The two numbers Get returns never decrease.
LEMMA BumpMonotone ==
    ASSUME GenTypeOK, NEW rs \in Scope \cup {Blank}, NEW rc \in Class \cup {Blank},
           Bump(rs, rc), NEW s \in Scope, NEW c \in Class
    PROVE  /\ Effective(s, c) \in Nat /\ Effective(s, c)' \in Nat
           /\ Global \in Nat /\ Global' \in Nat
           /\ Effective(s, c) <= Effective(s, c)'
           /\ Global <= Global'
<1>1. \A row \in Row : gen[row] \in Nat /\ gen'[row] \in Nat /\ gen[row] <= gen'[row]
  <2>1. \A row \in Row :
           /\ gen[row] \in Nat /\ gen'[row] \in Nat
           /\ gen'[row] = IF row = <<rs, rc>> THEN gen[row] + 1 ELSE gen[row]
    BY BumpCounters
  <2> QED
    BY <2>1
<1>2. {<<s, Blank>>, <<s, c>>, <<Blank, c>>, <<Blank, Blank>>} \subseteq Row
  BY DEF Row
<1>3. /\ Effective(s, c) \in Nat
      /\ Effective(s, c) <= Effective(s, c)'
  BY <1>1, <1>2, SaturatedAddMonotone DEF Effective
<1>4. Effective(s, c)' \in Nat
  BY <1>1, <1>2, WidthAssumption DEF Effective, SaturatedAdd
<1> QED
  BY <1>1, <1>2, <1>3, <1>4 DEF Global

\* Get returns two natural numbers.
LEMMA NamespaceTyped ==
    ASSUME GenTypeOK, NEW s \in Scope, NEW c \in Class
    PROVE  Effective(s, c) \in Nat /\ Global \in Nat
<1>1. {<<s, Blank>>, <<s, c>>, <<Blank, c>>, <<Blank, Blank>>} \subseteq Row
  BY DEF Row
<1>2. \A row \in Row : gen[row] \in Nat
  BY WidthAssumption DEF GenTypeOK
<1> QED
  BY <1>1, <1>2, WidthAssumption DEF Effective, Global, SaturatedAdd

\* While the sum does not saturate, a bump changes the name of exactly the
\* pairs it covers.
LEMMA BumpRenames ==
    ASSUME GenTypeOK, NEW rs \in Scope \cup {Blank}, NEW rc \in Class \cup {Blank},
           Bump(rs, rc), NEW s \in Scope, NEW c \in Class,
           3 * MaxGen <= MaxUint64
    PROVE  /\ Covers(rs, rc, s, c) =>
                 Effective(s, c) < Effective(s, c)' \/ Global < Global'
           /\ ~Covers(rs, rc, s, c) =>
                 Effective(s, c)' = Effective(s, c) /\ Global' = Global
<1>1. {<<s, Blank>>, <<s, c>>, <<Blank, c>>, <<Blank, Blank>>} \subseteq Row
  BY DEF Row
<1>2. \A row \in Row : /\ gen[row] \in 0..MaxGen /\ gen'[row] \in 0..MaxGen
                       /\ gen'[row] = IF row = <<rs, rc>> THEN gen[row] + 1 ELSE gen[row]
  BY BumpCounters DEF GenTypeOK
<1>3. /\ Effective(s, c) = gen[<<s, Blank>>] + gen[<<s, c>>] + gen[<<Blank, c>>]
      /\ Effective(s, c)' = gen'[<<s, Blank>>] + gen'[<<s, c>>] + gen'[<<Blank, c>>]
  BY <1>1, <1>2, WidthAssumption DEF Effective, SaturatedAdd
<1>4. s # Blank /\ c # Blank
  BY BlankAssumption
<1>5. CASE Covers(rs, rc, s, c)
  <2>1. <<rs, rc>> \in {<<s, Blank>>, <<s, c>>, <<Blank, c>>, <<Blank, Blank>>}
    BY <1>5 DEF Covers
  <2> QED
    BY <2>1, <1>1, <1>2, <1>3, <1>4, <1>5, WidthAssumption DEF Global
<1>6. CASE ~Covers(rs, rc, s, c)
  <2>1. <<rs, rc>> \notin {<<s, Blank>>, <<s, c>>, <<Blank, c>>, <<Blank, Blank>>}
    BY <1>6 DEF Covers
  <2> QED
    BY <2>1, <1>1, <1>2, <1>3, <1>6 DEF Global
<1> QED
  BY <1>5, <1>6

-----------------------------------------------------------------------------
(* The counters.                                                            *)

\* The counters stay within their width: PostgresGenerations.bump increments
\* one counter by one and fails at the limit.
THEOREM GenTypeCorrect == GenSpec => []GenTypeOK
<1>1. GenInit => GenTypeOK
  BY WidthAssumption DEF GenInit, GenTypeOK
<1>2. GenTypeOK /\ [GenNext]_gen => GenTypeOK'
  <2>1. GenTypeOK /\ GenNext => GenTypeOK'
    BY StepIsBump, BumpCounters
  <2>2. GenTypeOK /\ UNCHANGED gen => GenTypeOK'
    BY DEF GenTypeOK
  <2> QED
    BY <2>1, <2>2
<1> QED
  BY <1>1, <1>2, PTL DEF GenSpec

\* No step moves the generation of any pair, or the server generation, back
\* (saturatedAdd and the upsert of bump).  It holds at every counter value,
\* saturated sums included.
THEOREM NamespacesNeverRewind == GenSpec => NeverRewinds
<1>1. GenTypeOK /\ [GenNext]_gen => [NoRewind]_gen
  <2> SUFFICES ASSUME GenTypeOK, GenNext, NEW s \in Scope, NEW c \in Class
               PROVE  Effective(s, c)' >= Effective(s, c) /\ Global' >= Global
    BY DEF NoRewind
  <2>1. PICK rs \in Scope \cup {Blank}, rc \in Class \cup {Blank} : Bump(rs, rc)
    BY StepIsBump
  <2>2. /\ Effective(s, c) \in Nat /\ Effective(s, c)' \in Nat
        /\ Global \in Nat /\ Global' \in Nat
        /\ Effective(s, c) <= Effective(s, c)'
        /\ Global <= Global'
    BY <2>1, BumpMonotone
  <2> QED
    BY <2>2
<1> QED
  BY <1>1, GenTypeCorrect, PTL DEF GenSpec, NeverRewinds

=============================================================================
