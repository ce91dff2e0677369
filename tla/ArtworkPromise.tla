--------------------------- MODULE ArtworkPromise ---------------------------
(***************************************************************************)
(* What the shared artwork store promises its callers: a read of a variant *)
(* key misses, or returns the bytes of the last publication of that very   *)
(* key.  The store may forget keys whenever it likes.                      *)
(***************************************************************************)
CONSTANTS
    Variants,   \* variant keys: hashed, scope-bound transform references
    Digests,    \* contents, named by their digest
    None        \* no content

VARIABLES
    content,    \* the publication each key offers
    served      \* what the read of the last step returned

Init == content = [k \in Variants |-> None] /\ served = None

Publish(k, d) == content' = [content EXCEPT ![k] = d] /\ served' = None

Forget(K) ==
    /\ content' = [k \in Variants |-> IF k \in K THEN None ELSE content[k]]
    /\ served' = None

Hit(k) ==
    /\ content[k] # None
    /\ served' = <<k, content[k]>>
    /\ UNCHANGED content

Next ==
    \/ \E k \in Variants, d \in Digests : Publish(k, d)
    \/ \E K \in SUBSET Variants : Forget(K)
    \/ \E k \in Variants : Hit(k)

Spec == Init /\ [][Next]_<<content, served>>
=============================================================================
