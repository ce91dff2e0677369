-------------------------- MODULE MCResponseCache --------------------------
(***************************************************************************)
(* Finite instances of ResponseCache for TLC: one account on one device    *)
(* that browses one resource, with the numbers of concurrent handlers that *)
(* each configuration gives.                                               *)
(***************************************************************************)
EXTENDS ResponseCacheInv, TLC, FiniteSetsExt

CONSTANTS s1, c1, u1, r1, r2, p1,
    MaxBumps    \* bound: number of generation bumps explored

OneResource == (p1 :> c1)

OneDevice == (u1 :> {s1})

\* At most MaxBumps bumps have been committed, over all rows.
FewBumps == MapThenSumSet(LAMBDA row : gen[row], Row) <= 1 + MaxBumps

\* PMS keeps accepting the credential; MCWrites explores rejections.
AccessKept == access[u1]

ReaderSymmetry == Permutations({r1, r2})
=============================================================================
