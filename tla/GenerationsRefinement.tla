----------------------- MODULE GenerationsRefinement -----------------------
(***************************************************************************)
(* The counters of Generations implement GenerationStore: the namespace of *)
(* a pair is the pair of numbers Get returns, and the namespaces it has    *)
(* left are recorded by the history variable left.                         *)
(*                                                                         *)
(* The promise needs sums that do not saturate.  MaxGen is the number of   *)
(* bumps a counter sees; three counters bumped once a nanosecond stay      *)
(* below 2^64 for centuries.                                               *)
(***************************************************************************)
EXTENDS Generations

ASSUME NoSaturation == 3 * MaxGen <= MaxUint64

VARIABLE left

NamespaceOf == [cell \in Scope \X Class |->
                   <<Effective(cell[1], cell[2]), Global>>]

RInit == GenInit /\ left = [cell \in Scope \X Class |-> {}]

\* The history records what the caller of a bump was promised, not what the
\* counters made of it: a bump that renamed nothing would be seen here.
Leave(rs, rc) ==
    left' = [cell \in Scope \X Class |->
                IF Covers(rs, rc, cell[1], cell[2])
                THEN left[cell] \cup {NamespaceOf[cell]}
                ELSE left[cell]]

RNext ==
    \/ \E s \in Scope, c \in Class : BumpClass(s, c) /\ Leave(s, c)
    \/ \E s \in Scope : BumpScope(s) /\ Leave(s, Blank)
    \/ \E c \in Class : BumpServerClass(c) /\ Leave(Blank, c)
    \/ BumpAll /\ Leave(Blank, Blank)

RSpec == RInit /\ [][RNext]_<<gen, left>>

Store == INSTANCE GenerationStore
             WITH Id <- Nat \X Nat, ns <- NamespaceOf, retired <- left

-----------------------------------------------------------------------------
(* Every bump retires exactly the namespaces it concerns and names each of  *)
(* them afresh: a scope bump retires every class of that scope "without     *)
(* enumerating recorded classes", a server-class bump that class of every   *)
(* scope, "leaving artwork, playback and unrelated library classes warm"    *)
(* (generations.go, BumpScope and BumpServerClass).                         *)
ImplementsStore == Store!Spec

=============================================================================
