-------------------- MODULE GenerationsRefinementProofs --------------------
(***************************************************************************)
(* The counters implement the abstract store, for any number of scopes and *)
(* classes, as long as the summed generation does not saturate.            *)
(***************************************************************************)
EXTENDS GenerationsRefinement, GenerationsProofs

\* A namespace that a pair has left lies strictly behind its current one.
LeftBehind ==
    /\ left \in [Scope \X Class -> SUBSET (Nat \X Nat)]
    /\ \A s \in Scope, c \in Class : \A id \in left[<<s, c>>] :
          /\ id[1] <= Effective(s, c) /\ id[2] <= Global
          /\ id[1] < Effective(s, c) \/ id[2] < Global

\* Every step is a bump of one row that the history accounts for.
LEMMA StepLeaves ==
    ASSUME RNext
    PROVE  \E rs \in Scope \cup {Blank}, rc \in Class \cup {Blank} :
              Bump(rs, rc) /\ Leave(rs, rc)
  BY DEF RNext, BumpClass, BumpScope, BumpServerClass, BumpAll

\* What one bump does to the name of one pair and to its history.
LEMMA StepOfCell ==
    ASSUME GenTypeOK, LeftBehind,
           NEW rs \in Scope \cup {Blank}, NEW rc \in Class \cup {Blank},
           Bump(rs, rc), Leave(rs, rc), NEW s \in Scope, NEW c \in Class
    PROVE  /\ NamespaceOf[<<s, c>>] = <<Effective(s, c), Global>>
           /\ NamespaceOf'[<<s, c>>] = <<Effective(s, c)', Global'>>
           /\ Covers(rs, rc, s, c) =>
                 /\ NamespaceOf'[<<s, c>>] # NamespaceOf[<<s, c>>]
                 /\ NamespaceOf'[<<s, c>>] \notin left[<<s, c>>]
                 /\ left'[<<s, c>>] = left[<<s, c>>] \cup {NamespaceOf[<<s, c>>]}
           /\ ~Covers(rs, rc, s, c) =>
                 /\ NamespaceOf'[<<s, c>>] = NamespaceOf[<<s, c>>]
                 /\ left'[<<s, c>>] = left[<<s, c>>]
<1>1. /\ NamespaceOf[<<s, c>>] = <<Effective(s, c), Global>>
      /\ NamespaceOf'[<<s, c>>] = <<Effective(s, c)', Global'>>
  BY DEF NamespaceOf
<1>2. left'[<<s, c>>] = IF Covers(rs, rc, s, c)
                        THEN left[<<s, c>>] \cup {NamespaceOf[<<s, c>>]}
                        ELSE left[<<s, c>>]
  BY DEF Leave
<1>3. /\ Effective(s, c) \in Nat /\ Effective(s, c)' \in Nat
      /\ Global \in Nat /\ Global' \in Nat
      /\ Effective(s, c) <= Effective(s, c)' /\ Global <= Global'
  BY BumpMonotone
<1>4. CASE Covers(rs, rc, s, c)
  <2>1. Effective(s, c) < Effective(s, c)' \/ Global < Global'
    BY <1>4, NoSaturation, BumpRenames
  <2>2. NamespaceOf'[<<s, c>>] # NamespaceOf[<<s, c>>]
    BY <2>1, <1>1, <1>3
  <2>3. \A id \in left[<<s, c>>] :
           /\ id[1] \in Nat /\ id[2] \in Nat
           /\ id[1] <= Effective(s, c) /\ id[2] <= Global
    BY DEF LeftBehind
  <2>4. NamespaceOf'[<<s, c>>] \notin left[<<s, c>>]
    BY <2>1, <2>3, <1>1, <1>3
  <2> QED
    BY <1>1, <1>2, <1>4, <2>2, <2>4
<1>5. CASE ~Covers(rs, rc, s, c)
  <2>1. Effective(s, c)' = Effective(s, c) /\ Global' = Global
    BY <1>5, NoSaturation, BumpRenames
  <2> QED
    BY <2>1, <1>1, <1>2, <1>5
<1> QED
  BY <1>4, <1>5

LEMMA LeftBehindInductive ==
    ASSUME GenTypeOK, LeftBehind, RNext
    PROVE  LeftBehind'
<1>1. PICK rs \in Scope \cup {Blank}, rc \in Class \cup {Blank}  :
         Bump(rs, rc) /\ Leave(rs, rc)
  BY StepLeaves
<1>2. ASSUME NEW s \in Scope, NEW c \in Class
      PROVE  /\ left'[<<s, c>>] \in SUBSET (Nat \X Nat)
             /\ \A id \in left'[<<s, c>>] :
                   /\ id[1] <= Effective(s, c)' /\ id[2] <= Global'
                   /\ id[1] < Effective(s, c)' \/ id[2] < Global'
  <2>1. left[<<s, c>>] \in SUBSET (Nat \X Nat)
    BY DEF LeftBehind
  <2>2. /\ Effective(s, c) \in Nat /\ Effective(s, c)' \in Nat
        /\ Global \in Nat /\ Global' \in Nat
        /\ Effective(s, c) <= Effective(s, c)' /\ Global <= Global'
    BY <1>1, BumpMonotone
  <2>3. \A id \in left[<<s, c>>] :
           /\ id[1] \in Nat /\ id[2] \in Nat
           /\ id[1] <= Effective(s, c) /\ id[2] <= Global
           /\ id[1] < Effective(s, c) \/ id[2] < Global
    BY <2>1 DEF LeftBehind
  <2>4. \A id \in left[<<s, c>>] :
           /\ id[1] <= Effective(s, c)' /\ id[2] <= Global'
           /\ id[1] < Effective(s, c)' \/ id[2] < Global'
    BY <2>2, <2>3
  <2>5. CASE Covers(rs, rc, s, c)
    <3>1. left'[<<s, c>>] = left[<<s, c>>] \cup {<<Effective(s, c), Global>>}
      BY <1>1, <2>5, StepOfCell
    <3>2. Effective(s, c) < Effective(s, c)' \/ Global < Global'
      BY <1>1, <2>5, NoSaturation, BumpRenames
    <3> QED
      BY <2>1, <2>2, <2>4, <3>1, <3>2
  <2>6. CASE ~Covers(rs, rc, s, c)
    <3>1. left'[<<s, c>>] = left[<<s, c>>]
      BY <1>1, <2>6, StepOfCell
    <3> QED
      BY <2>1, <2>4, <3>1
  <2> QED
    BY <2>5, <2>6
<1>3. left' = [cell \in Scope \X Class |-> left'[cell]]
  BY <1>1 DEF Leave
<1>4. left' \in [Scope \X Class -> SUBSET (Nat \X Nat)]
  BY <1>2, <1>3
<1> QED
  BY <1>2, <1>4 DEF LeftBehind

\* Every bump is an invalidation of the abstract store.
LEMMA StepRetires ==
    ASSUME GenTypeOK, LeftBehind, RNext
    PROVE  Store!Next
<1>1. PICK rs \in Scope \cup {Blank}, rc \in Class \cup {Blank}  :
         Bump(rs, rc) /\ Leave(rs, rc)
  BY StepLeaves
<1> DEFINE cells == Store!CoveredCells(rs, rc)
<1>2. \A s \in Scope, c \in Class : <<s, c>> \in cells <=> Covers(rs, rc, s, c)
  BY DEF Store!CoveredCells, Store!Cell, Covers
<1>3. cells \subseteq Scope \X Class
  BY DEF Store!CoveredCells, Store!Cell
<1>4. ASSUME NEW s \in Scope, NEW c \in Class
      PROVE  /\ <<s, c>> \in cells =>
                   /\ NamespaceOf'[<<s, c>>] \in Nat \X Nat
                   /\ NamespaceOf'[<<s, c>>] \notin left[<<s, c>>] \cup {NamespaceOf[<<s, c>>]}
                   /\ left'[<<s, c>>] = left[<<s, c>>] \cup {NamespaceOf[<<s, c>>]}
             /\ <<s, c>> \notin cells =>
                   /\ NamespaceOf'[<<s, c>>] = NamespaceOf[<<s, c>>]
                   /\ left'[<<s, c>>] = left[<<s, c>>]
  <2>1. Effective(s, c)' \in Nat /\ Global' \in Nat
    BY <1>1, BumpMonotone
  <2>2. NamespaceOf'[<<s, c>>] = <<Effective(s, c)', Global'>>
    BY <1>1, StepOfCell
  <2>3. CASE <<s, c>> \in cells
    <3>1. Covers(rs, rc, s, c)
      BY <1>2, <2>3
    <3>2. /\ NamespaceOf'[<<s, c>>] # NamespaceOf[<<s, c>>]
          /\ NamespaceOf'[<<s, c>>] \notin left[<<s, c>>]
          /\ left'[<<s, c>>] = left[<<s, c>>] \cup {NamespaceOf[<<s, c>>]}
      BY <1>1, <3>1, StepOfCell
    <3> HIDE DEF cells
    <3> QED
      BY <2>1, <2>2, <2>3, <3>2
  <2>4. CASE <<s, c>> \notin cells
    BY <1>1, <1>2, <2>4, StepOfCell
  <2> QED
    BY <2>3, <2>4
<1> HIDE DEF cells
<1>5. \A cell \in cells :
         /\ NamespaceOf'[cell] \in Nat \X Nat
         /\ NamespaceOf'[cell] \notin left[cell] \cup {NamespaceOf[cell]}
  BY <1>3, <1>4
<1>6. NamespaceOf' = [cell \in Scope \X Class |->
                         IF cell \in cells THEN NamespaceOf'[cell] ELSE NamespaceOf[cell]]
  <2>1. NamespaceOf' = [cell \in Scope \X Class |-> NamespaceOf'[cell]]
    BY DEF NamespaceOf
  <2>2. \A cell \in Scope \X Class :
           cell \notin cells => NamespaceOf'[cell] = NamespaceOf[cell]
    BY <1>4
  <2> QED
    BY <2>1, <2>2
<1>7. left' = [cell \in Scope \X Class |->
                  IF cell \in cells THEN left[cell] \cup {NamespaceOf[cell]}
                                    ELSE left[cell]]
  <2>1. left' = [cell \in Scope \X Class |-> left'[cell]]
    BY <1>1 DEF Leave
  <2>2. \A cell \in Scope \X Class :
           left'[cell] = IF cell \in cells THEN left[cell] \cup {NamespaceOf[cell]}
                                           ELSE left[cell]
    BY <1>4
  <2> QED
    BY <2>1, <2>2
<1>8. Store!Retire(cells)
  BY <1>5, <1>6, <1>7 DEF Store!Retire, Store!Cell
<1> QED
  BY <1>8 DEF Store!Next, cells

\* The counters behave as a store whose invalidations give every pair they
\* cover a namespace never used before, and no other pair (Get, Bump,
\* BumpScope, BumpServerClass and BumpAll).
THEOREM CountersImplementStore == RSpec => ImplementsStore
<1>1. RInit => GenTypeOK /\ LeftBehind /\ Store!Init
  <2> SUFFICES ASSUME RInit PROVE GenTypeOK /\ LeftBehind /\ Store!Init
    OBVIOUS
  <2>1. GenTypeOK
    BY WidthAssumption DEF RInit, GenInit, GenTypeOK
  <2>2. LeftBehind
    BY DEF RInit, LeftBehind
  <2>3. \A s \in Scope, c \in Class : Effective(s, c) \in Nat /\ Global \in Nat
    BY <2>1, NamespaceTyped
  <2>4. Store!Init
    BY <2>3 DEF RInit, Store!Init, Store!Cell, NamespaceOf
  <2> QED
    BY <2>1, <2>2, <2>4
<1>2. GenTypeOK /\ LeftBehind /\ [RNext]_<<gen, left>> =>
         GenTypeOK' /\ LeftBehind' /\ [Store!Next]_<<NamespaceOf, left>>
  <2>1. ASSUME GenTypeOK, LeftBehind, RNext
        PROVE  GenTypeOK' /\ LeftBehind' /\ Store!Next
    <3>1. GenTypeOK'
      BY <2>1, StepLeaves, BumpCounters
    <3> QED
      BY <2>1, <3>1, LeftBehindInductive, StepRetires
  <2>2. ASSUME GenTypeOK, LeftBehind, UNCHANGED <<gen, left>>
        PROVE  GenTypeOK' /\ LeftBehind' /\ UNCHANGED <<NamespaceOf, left>>
    BY <2>2 DEF GenTypeOK, LeftBehind, NamespaceOf, Effective, Global, SaturatedAdd
  <2> QED
    BY <2>1, <2>2
<1> QED
  BY <1>1, <1>2, PTL DEF RSpec, ImplementsStore, Store!Spec

=============================================================================
