-------------------------- MODULE GenerationStore --------------------------
(***************************************************************************)
(* What a GenerationStore promises its callers (the interface and comments *)
(* of internal/cache/generations.go): each (scope, class) pair has a       *)
(* current namespace; an invalidation gives a new, never used namespace to *)
(* every pair it covers and leaves the other pairs warm.                   *)
(***************************************************************************)
CONSTANTS Scope, Class, Blank, Id

VARIABLES
    ns,         \* ns[cell]: the current namespace of a (scope, class) pair
    retired     \* retired[cell]: the namespaces the pair has left

Cell == Scope \X Class

CoveredCells(rs, rc) ==
    {cell \in Cell : rs \in {Blank, cell[1]} /\ rc \in {Blank, cell[2]}}

Init == ns \in [Cell -> Id] /\ retired = [cell \in Cell |-> {}]

Retire(cells) ==
    /\ \A cell \in cells : /\ ns'[cell] \in Id
                           /\ ns'[cell] \notin retired[cell] \cup {ns[cell]}
    /\ ns' = [cell \in Cell |-> IF cell \in cells THEN ns'[cell] ELSE ns[cell]]
    /\ retired' = [cell \in Cell |->
                      IF cell \in cells THEN retired[cell] \cup {ns[cell]}
                                        ELSE retired[cell]]

Next == \E rs \in Scope \cup {Blank}, rc \in Class \cup {Blank} :
            Retire(CoveredCells(rs, rc))

Spec == Init /\ [][Next]_<<ns, retired>>

=============================================================================
