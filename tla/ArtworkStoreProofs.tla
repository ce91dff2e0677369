------------------------- MODULE ArtworkStoreProofs -------------------------
(***************************************************************************)
(* Proofs about the shared artwork store: no file is ever without an owner *)
(* once the store has recovered, eviction respects the tiers, and the      *)
(* store implements ArtworkPromise.  All hold for any number of keys,      *)
(* contents, transfers and tiers in use, and whatever the byte limits.     *)
(***************************************************************************)
EXTENDS ArtworkStore, TLAPS

DbType ==
    [blobs : SUBSET Digests,
     variants : [Variants -> VariantRow \cup {NoRow}],
     res : [Ids -> ReservationRow \cup {NoRow}],
     stray : SUBSET Digests, oldCounted : {0, OldBytes}]
FsType ==
    [files : [Digests -> {"absent", "good", "bad"}],
     tmp : [Ids -> Digests \cup {None}],
     old : {0, OldBytes}]

\* A transfer whose candidate is recorded knows its content, and the
\* reservation of a transfer that has recorded none names none.
TransfersKnown ==
    \A i \in Ids :
        /\ transfer[i].pc = "staged" => transfer[i].digest \in Digests
        /\ transfer[i].pc = "reserved" /\ db.res[i] # NoRow =>
               db.res[i].candidate = None

\* The contents somebody will look for: rows, strays, candidates.
Owned(b) == b.blobs \cup b.stray \cup {b.res[i].candidate : i \in Rows(b.res)}

\* The inductive invariant.
IInv ==
    /\ TypeOK
    /\ TransfersKnown
    /\ ready => Present(fs) \subseteq Owned(db)

----------------------------------------------------------------------------
(* What the building blocks of a transaction return.                        *)

LEMMA RowKinds ==
    /\ \A r \in VariantRow : r # NoRow
    /\ \A r \in ReservationRow : r # NoRow
BY DEF VariantRow, ReservationRow, NoRow

LEMMA WithoutFilesFacts ==
    ASSUME NEW f \in FsType, NEW D
    PROVE  /\ WithoutFiles(f, D) \in FsType
           /\ WithoutFiles(f, D).tmp = f.tmp
           /\ \A d \in Digests : WithoutFiles(f, D).files[d] =
                  IF d \in D THEN "absent" ELSE f.files[d]
           /\ Present(WithoutFiles(f, D)) = Present(f) \ D
BY DEF WithoutFiles, FsType, Present

LEMMA DropBlobsFacts ==
    ASSUME NEW b \in DbType, NEW D
    PROVE  /\ DropBlobs(b, D) \in DbType
           /\ DropBlobs(b, D).blobs = b.blobs \ D
           /\ DropBlobs(b, D).res = b.res
           /\ DropBlobs(b, D).stray = b.stray
           /\ \A k \in Variants : DropBlobs(b, D).variants[k] =
                  IF b.variants[k] # NoRow /\ b.variants[k].digest \in D
                  THEN NoRow ELSE b.variants[k]
BY Zenon DEF DropBlobs, DbType

LEMMA DropVariantsFacts ==
    ASSUME NEW b \in DbType, NEW K
    PROVE  /\ DropVariants(b, K) \in DbType
           /\ DropVariants(b, K).blobs = b.blobs
           /\ DropVariants(b, K).res = b.res
           /\ DropVariants(b, K).stray = b.stray
           /\ \A k \in Variants : DropVariants(b, K).variants[k] =
                  IF k \in K THEN NoRow ELSE b.variants[k]
BY DEF DropVariants, DbType

LEMMA ReleaseRowsFacts ==
    ASSUME NEW b \in DbType, NEW I
    PROVE  /\ ReleaseRows(b, I) \in DbType
           /\ ReleaseRows(b, I).blobs = b.blobs
           /\ ReleaseRows(b, I).variants = b.variants
           /\ ReleaseRows(b, I).stray = b.stray
           /\ \A i \in Ids : ReleaseRows(b, I).res[i] =
                  IF i \in I THEN NoRow ELSE b.res[i]
BY DEF ReleaseRows, DbType

\* Releasing reservations removes no file of a blob, and every file that only
\* they would have owned.
LEMMA ReleaseFilesFacts ==
    ASSUME NEW b \in DbType, NEW f \in FsType, NEW I \in SUBSET Ids
    PROVE  /\ ReleaseFiles(b, f, I) \in FsType
           /\ Present(ReleaseFiles(b, f, I)) \subseteq Present(f)
           /\ \A d \in b.blobs : ReleaseFiles(b, f, I).files[d] = f.files[d]
           /\ \A d \in Present(ReleaseFiles(b, f, I)) : \A i \in I :
                  b.res[i] # NoRow /\ b.res[i].candidate = d => d \in b.blobs
<1> DEFINE held == {i \in I : b.res[i] # NoRow}
           orphans == {b.res[i].candidate : i \in held} \ ({None} \cup b.blobs)
           g == [f EXCEPT !.tmp = [i \in Ids |-> IF i \in I THEN None ELSE @[i]]]
<1>1. g \in FsType /\ g.files = f.files
  BY DEF FsType
<1>2. ReleaseFiles(b, f, I) = WithoutFiles(g, orphans)
  BY DEF ReleaseFiles
<1>3. Present(g) = Present(f)
  BY <1>1 DEF Present
<1>4. Present(f) \subseteq Digests /\ b.blobs \subseteq Digests
  BY DEF Present, DbType
<1> HIDE DEF g, orphans
<1>5. /\ ReleaseFiles(b, f, I) \in FsType
      /\ Present(ReleaseFiles(b, f, I)) = Present(f) \ orphans
      /\ \A d \in Digests : ReleaseFiles(b, f, I).files[d] =
             IF d \in orphans THEN "absent" ELSE f.files[d]
  BY <1>1, <1>2, <1>3, WithoutFilesFacts
<1> QED
  BY <1>4, <1>5, LimitAssumption DEF orphans
----------------------------------------------------------------------------
(* Steps that only take away: rows go, files go, and no file is left that   *)
(* the remaining rows do not own.                                           *)

Tidies(b, f, c, g) ==
    /\ c \in DbType /\ g \in FsType
    /\ \A k \in Variants : c.variants[k] \in {b.variants[k], NoRow}
    /\ \A i \in Ids : c.res[i] \in {b.res[i], NoRow}
    /\ Present(f) \subseteq Owned(b) => Present(g) \subseteq Owned(c)

LEMMA OwnedIs ==
    ASSUME NEW b \in DbType
    PROVE  \A d : d \in Owned(b) <=>
               \/ d \in b.blobs \cup b.stray
               \/ \E i \in Ids : b.res[i] # NoRow /\ b.res[i].candidate = d
<1>1. DOMAIN b.res = Ids
  BY DEF DbType
<1> QED
  BY <1>1 DEF Owned, Rows

LEMMA TidiesTransitive ==
    ASSUME NEW b, NEW f, NEW c, NEW g, NEW d, NEW h,
           Tidies(b, f, c, g), Tidies(c, g, d, h)
    PROVE  Tidies(b, f, d, h)
BY DEF Tidies

LEMMA TidyRollback ==
    ASSUME NEW b \in DbType, NEW f, NEW g \in FsType, Present(g) \subseteq Present(f)
    PROVE  Tidies(b, f, b, g)
BY DEF Tidies

LEMMA TidyRelease ==
    ASSUME NEW b \in DbType, NEW f \in FsType, NEW I \in SUBSET Ids
    PROVE  Tidies(b, f, ReleaseRows(b, I), ReleaseFiles(b, f, I))
<1> DEFINE c == ReleaseRows(b, I)
           g == ReleaseFiles(b, f, I)
<1>1. /\ c \in DbType /\ c.blobs = b.blobs /\ c.variants = b.variants
      /\ c.stray = b.stray
      /\ \A i \in Ids : c.res[i] = IF i \in I THEN NoRow ELSE b.res[i]
  BY ReleaseRowsFacts
<1>2. /\ g \in FsType /\ Present(g) \subseteq Present(f)
      /\ \A d \in Present(g) : \A i \in I :
             b.res[i] # NoRow /\ b.res[i].candidate = d => d \in b.blobs
  BY ReleaseFilesFacts
<1> HIDE DEF c, g
<1>3. ASSUME Present(f) \subseteq Owned(b), NEW d \in Present(g)
      PROVE  d \in Owned(c)
  <2>1. d \in Owned(b)
    BY <1>2, <1>3
  <2>2. CASE d \in b.blobs \cup b.stray
    BY <1>1, <2>2, OwnedIs
  <2>3. CASE \E i \in Ids : b.res[i] # NoRow /\ b.res[i].candidate = d
    BY <1>1, <1>2, <1>3, <2>3, OwnedIs
  <2> QED
    BY <2>1, <2>2, <2>3, OwnedIs
<1> QED
  BY <1>1, <1>2, <1>3 DEF Tidies, c, g

LEMMA TidyDropBlobs ==
    ASSUME NEW b \in DbType, NEW f \in FsType, NEW D
    PROVE  Tidies(b, f, DropBlobs(b, D), WithoutFiles(f, D))
<1> DEFINE c == DropBlobs(b, D)
           g == WithoutFiles(f, D)
<1>1. /\ c \in DbType /\ c.blobs = b.blobs \ D /\ c.res = b.res
      /\ c.stray = b.stray
      /\ \A k \in Variants : c.variants[k] \in {b.variants[k], NoRow}
  BY DropBlobsFacts
<1>2. g \in FsType /\ Present(g) = Present(f) \ D
  BY WithoutFilesFacts
<1> HIDE DEF c, g
<1>3. Present(f) \subseteq Owned(b) => Present(g) \subseteq Owned(c)
  BY <1>1, <1>2, OwnedIs
<1> QED
  BY <1>1, <1>2, <1>3 DEF Tidies, c, g

LEMMA TidyDropVariants ==
    ASSUME NEW b \in DbType, NEW f \in FsType, NEW K
    PROVE  Tidies(b, f, DropVariants(b, K), f)
<1>1. Owned(DropVariants(b, K)) = Owned(b)
  BY DropVariantsFacts DEF Owned
<1> QED
  BY <1>1, DropVariantsFacts DEF Tidies

\* cleanExpired, complete and stopped half-way.
LEMMA TidyCleaning ==
    ASSUME TypeOK
    PROVE  /\ Tidies(db, fs, Cleaned(db), CleanedFiles)
           /\ \A f \in PartlyCleaned : Tidies(db, fs, db, f)
<1>1. db \in DbType /\ fs \in FsType
  BY DEF TypeOK, DbType, FsType
<1>2. Expired(db.res) \subseteq Ids
  BY <1>1 DEF Expired, Rows, DbType
<1>3. Tidies(db, fs, Cleaned(db), CleanedFiles)
  BY <1>1, <1>2, TidyRelease DEF Cleaned, CleanedFiles
<1>4. ASSUME NEW I \in SUBSET Expired(db.res)
      PROVE  Tidies(db, fs, db, ReleaseFiles(db, fs, I))
  BY <1>1, <1>2, ReleaseFilesFacts, TidyRollback
<1> QED
  BY <1>3, <1>4 DEF PartlyCleaned

\* A step that only takes away, and at most ends or fails transfers.
Tidying ==
    /\ Tidies(db, fs, db', fs')
    /\ served' = None
    /\ ready' \in BOOLEAN /\ (ready' => ready)
    /\ transfer' \in [Ids -> Transfer \cup {Idle}]
    /\ \A i \in Ids : \/ transfer'[i] = transfer[i]
                      \/ transfer'[i].pc \in {"idle", "failed"}

LEMMA TidyingKeeps ==
    ASSUME IInv, Tidying
    PROVE  IInv'
<1> USE DEF Tidying
<1>1. TypeOK'
  BY DEF IInv, TypeOK, Tidies, DbType, FsType
<1>2. TransfersKnown'
  BY DEF IInv, TransfersKnown, Tidies
<1>3. ready' => Present(fs)' \subseteq Owned(db)'
  <2>1. Present(fs') = Present(fs)' /\ Owned(db') = Owned(db)'
    BY DEF Present, Owned, Rows
  <2> QED
    BY <2>1 DEF IInv, Tidies
<1> QED
  BY <1>1, <1>2, <1>3 DEF IInv

\* A transfer in progress.
LEMMA TransferIs ==
    ASSUME TypeOK, NEW i \in Ids, transfer[i].pc # "idle"
    PROVE  transfer[i] \in Transfer
BY DEF TypeOK, Transfer, Idle

----------------------------------------------------------------------------
(* The actions that only take away.                                         *)

LEMMA CancelTidies ==
    ASSUME IInv, NEW i \in Ids, Cancel(i)
    PROVE  Tidying
<1>1. db \in DbType /\ fs \in FsType /\ TypeOK
  BY DEF IInv, TypeOK, DbType, FsType
<1>2. /\ Tidies(db, fs, ReleaseRows(db, {i}), ReleaseFiles(db, fs, {i}))
      /\ Tidies(db, fs, db, fs)
      /\ Tidies(db, fs, db, ReleaseFiles(db, fs, {i}))
  BY <1>1, TidyRelease, TidyRollback, ReleaseFilesFacts
<1>3. Tidies(db, fs, db', fs')
  BY <1>2 DEF Cancel, Commit, Rollback
<1>4. /\ transfer' = [transfer EXCEPT ![i] = Idle]
      /\ served' = None /\ ready' = ready
  BY DEF Cancel
<1> QED
  BY <1>1, <1>3, <1>4 DEF Tidying, TypeOK, Idle

LEMMA EvictTidies ==
    ASSUME IInv, EvictLowPriority
    PROVE  Tidying
<1>1. db \in DbType /\ fs \in FsType /\ TypeOK
  BY DEF IInv, TypeOK, DbType, FsType
<1>2. \A D : /\ Tidies(db, fs, DropBlobs(db, D), WithoutFiles(fs, D))
             /\ Tidies(db, fs, db, WithoutFiles(fs, D))
  BY <1>1, TidyDropBlobs, TidyRollback, WithoutFilesFacts
<1>3. Tidies(db, fs, db', fs')
  BY <1>2 DEF EvictLowPriority, Commit, Rollback
<1> QED
  BY <1>1, <1>3 DEF EvictLowPriority, Tidying, TypeOK

\* Cleaned up, a batch pruned, blobs dropped with their files.
LEMMA TidyMaintenance ==
    ASSUME TypeOK, NEW K, NEW D, NEW E
    PROVE  LET b == DropVariants(Cleaned(db), K)
               c == DropBlobs(b, D)
               f == WithoutFiles(CleanedFiles, D)
           IN  /\ Tidies(db, fs, b, CleanedFiles)
               /\ Tidies(db, fs, c, f)
               /\ Tidies(db, fs, DropBlobs(c, E), WithoutFiles(f, E))
               /\ Tidies(db, fs, db, CleanedFiles)
               /\ Tidies(db, fs, db, f)
<1> DEFINE a == Cleaned(db)
           b == DropVariants(a, K)
           c == DropBlobs(b, D)
           f == WithoutFiles(CleanedFiles, D)
<1>1. /\ Tidies(db, fs, a, CleanedFiles)
      /\ a \in DbType /\ CleanedFiles \in FsType
  BY TidyCleaning DEF Tidies
<1>2. Tidies(db, fs, b, CleanedFiles) /\ b \in DbType
  BY <1>1, TidyDropVariants, TidiesTransitive DEF Tidies
<1>3. Tidies(db, fs, c, f) /\ c \in DbType /\ f \in FsType
  <2>1. Tidies(b, CleanedFiles, c, f)
    BY <1>1, <1>2, TidyDropBlobs
  <2> QED
    BY <1>2, <2>1, TidiesTransitive DEF Tidies
<1>4. Tidies(db, fs, DropBlobs(c, E), WithoutFiles(f, E))
  <2>1. Tidies(c, f, DropBlobs(c, E), WithoutFiles(f, E))
    BY <1>3, TidyDropBlobs
  <2> QED
    BY <1>3, <2>1, TidiesTransitive
<1>5. Tidies(db, fs, db, CleanedFiles) /\ Tidies(db, fs, db, f)
  <2>1. db \in DbType /\ CleanedFiles \in PartlyCleaned
    BY DEF TypeOK, DbType, CleanedFiles, PartlyCleaned
  <2>2. Tidies(db, fs, db, CleanedFiles)
    BY <2>1, TidyCleaning
  <2>3. Tidies(db, CleanedFiles, db, f)
    BY <1>1, <2>1, WithoutFilesFacts, TidyRollback
  <2> QED
    BY <2>2, <2>3, TidiesTransitive
<1> QED
  BY <1>2, <1>3, <1>4, <1>5

LEMMA SweepFailsTidies ==
    ASSUME IInv, SweepFails
    PROVE  Tidying
<1>1. TypeOK
  BY DEF IInv
<1>2. Tidies(db, fs, db', fs')
  BY <1>1, TidyCleaning, TidyMaintenance DEF SweepFails, Rollback
<1> QED
  BY <1>1, <1>2 DEF SweepFails, Tidying, TypeOK

LEMMA SweepCommitsTidies ==
    ASSUME IInv, SweepCommits
    PROVE  Tidying
<1>1. TypeOK
  BY DEF IInv
<1>2. \E K, D, E :
         LET c == DropBlobs(DropVariants(Cleaned(db), K), D)
             f == WithoutFiles(CleanedFiles, D)
         IN  db' = DropBlobs(c, E) /\ fs' = WithoutFiles(f, E)
  BY DEF SweepCommits, Commit
<1>3. Tidies(db, fs, db', fs')
  BY <1>1, <1>2, TidyMaintenance
<1> QED
  BY <1>1, <1>3 DEF SweepCommits, Tidying, TypeOK

LEMMA RecoverFailsTidies ==
    ASSUME IInv, RecoverFails
    PROVE  Tidying
<1>1. TypeOK
  BY DEF IInv
<1>2. Tidies(db, fs, db', fs')
  BY <1>1, TidyCleaning, TidyMaintenance DEF RecoverFails, Rollback
<1> QED
  BY <1>1, <1>2, Zenon DEF RecoverFails, Tidying, TypeOK

----------------------------------------------------------------------------
(* The other actions.                                                       *)

\* A reservation is booked after what Reserve takes away.
Books(i, k, p) ==
    \E b, f :
        /\ Tidies(db, fs, b, f)
        /\ db' = [b EXCEPT !.res[i] = [kind |-> "row", candidate |-> None,
                                       priority |-> p, live |-> TRUE]]
        /\ fs' = f
        /\ transfer' = [transfer EXCEPT ![i] =
              [pc |-> "reserved", key |-> k, digest |-> None, priority |-> p]]

LEMMA ReserveTidiesOrBooks ==
    ASSUME IInv, NEW i \in Ids, NEW k \in Variants, NEW p \in Priorities,
           Reserve(i, k, p)
    PROVE  Tidying \/ Books(i, k, p)
<1>1. TypeOK
  BY DEF IInv
<1>2. CASE (\E f \in PartlyCleaned : Rollback(f)) /\ UNCHANGED transfer
  <2>1. Tidies(db, fs, db', fs')
    BY <1>1, <1>2, TidyCleaning DEF Rollback
  <2> QED
    BY <1>1, <1>2, <2>1 DEF Reserve, Tidying, TypeOK
<1>3. CASE \E K \in PruneBatches(db) :
              /\ Rollback(CleanedFiles) /\ UNCHANGED transfer
  <2>1. Tidies(db, fs, db', fs')
    BY <1>1, <1>3, TidyMaintenance DEF Rollback
  <2> QED
    BY <1>1, <1>3, <2>1 DEF Reserve, Tidying, TypeOK
<1>4. ASSUME NEW K, NEW D
      PROVE  LET b2 == DropBlobs(DropVariants(Cleaned(db), K), D)
                 f2 == WithoutFiles(CleanedFiles, D)
                 row == [kind |-> "row", candidate |-> None,
                         priority |-> p, live |-> TRUE]
             IN  /\ Rollback(f2) /\ UNCHANGED transfer => Tidying
                 /\ Commit(b2, f2) /\ UNCHANGED transfer => Tidying
                 /\ /\ Commit([b2 EXCEPT !.res[i] = row], f2)
                    /\ transfer' = [transfer EXCEPT ![i] =
                          [pc |-> "reserved", key |-> k,
                           digest |-> None, priority |-> p]]
                    => Books(i, k, p)
  <2> DEFINE b2 == DropBlobs(DropVariants(Cleaned(db), K), D)
             f2 == WithoutFiles(CleanedFiles, D)
  <2>1. Tidies(db, fs, b2, f2) /\ Tidies(db, fs, db, f2)
    BY <1>1, TidyMaintenance
  <2> HIDE DEF b2, f2
  <2>2. served' = None /\ ready' = ready
    BY DEF Reserve
  <2>3. Rollback(f2) /\ UNCHANGED transfer => Tidying
    BY <1>1, <2>1, <2>2 DEF Rollback, Tidying, TypeOK
  <2>4. Commit(b2, f2) /\ UNCHANGED transfer => Tidying
    BY <1>1, <2>1, <2>2 DEF Commit, Tidying, TypeOK
  <2> QED
    BY <2>1, <2>3, <2>4 DEF Commit, Books, b2, f2
<1> QED
  BY <1>2, <1>3, <1>4, Zenon DEF Reserve

LEMMA ReserveKeeps ==
    ASSUME IInv, NEW i \in Ids, NEW k \in Variants, NEW p \in Priorities,
           Reserve(i, k, p)
    PROVE  IInv'
<1>1. CASE Tidying
  BY <1>1, TidyingKeeps
<1>2. CASE Books(i, k, p)
  <2>1. PICK b, f : /\ Tidies(db, fs, b, f)
                    /\ db' = [b EXCEPT !.res[i] =
                                [kind |-> "row", candidate |-> None,
                                 priority |-> p, live |-> TRUE]]
                    /\ fs' = f
                    /\ transfer' = [transfer EXCEPT ![i] =
                         [pc |-> "reserved", key |-> k, digest |-> None, priority |-> p]]
    BY <1>2, Zenon DEF Books
  <2> DEFINE row == [kind |-> "row", candidate |-> None, priority |-> p, live |-> TRUE]
  <2>2. b \in DbType /\ f \in FsType /\ row \in ReservationRow
    BY <2>1 DEF Tidies, ReservationRow
  <2>3. /\ db' \in DbType /\ db'.blobs = b.blobs /\ db'.stray = b.stray
        /\ \A j \in Ids : db'.res[j] = IF j = i THEN row ELSE b.res[j]
    BY <2>1, <2>2, Zenon DEF DbType
  <2>4. db.res[i] = NoRow /\ b.res[i] = NoRow
    BY <2>1 DEF Reserve, Tidies
  <2>5. ready /\ ready' = ready /\ served' = None
    BY DEF Reserve
  <2>6. TypeOK'
    BY <2>1, <2>2, <2>3, <2>5, Zenon DEF IInv, TypeOK, DbType, FsType, Transfer
  <2>7. TransfersKnown'
    <3> SUFFICES ASSUME NEW j \in Ids
                 PROVE  /\ transfer'[j].pc = "staged" => transfer'[j].digest \in Digests
                        /\ transfer'[j].pc = "reserved" /\ db'.res[j] # NoRow =>
                               db'.res[j].candidate = None
      BY DEF TransfersKnown
    <3>1. CASE j = i
      BY <2>1, <2>3, <3>1 DEF IInv, TypeOK
    <3>2. CASE j # i
      BY <2>1, <2>3, <3>2 DEF IInv, TypeOK, TransfersKnown, Tidies
    <3> QED
      BY <3>1, <3>2
  <2>8. Present(fs') \subseteq Owned(db')
    <3>1. Present(f) \subseteq Owned(b)
      BY <2>1, <2>5 DEF IInv, Tidies
    <3>2. \A d \in Owned(b) : d \in Owned(db')
      BY <2>2, <2>3, <2>4, OwnedIs
    <3> QED
      BY <2>1, <3>1, <3>2, Zenon
  <2>9. Present(fs') = Present(fs)' /\ Owned(db') = Owned(db)'
    BY DEF Present, Owned, Rows
  <2> QED
    BY <2>6, <2>7, <2>8, <2>9 DEF IInv
<1> QED
  BY <1>1, <1>2, ReserveTidiesOrBooks

LEMMA StageKeeps ==
    ASSUME IInv, NEW i \in Ids, NEW d \in Digests, Stage(i, d)
    PROVE  IInv'
<1>1. /\ db \in DbType /\ TypeOK /\ transfer[i] \in Transfer
      /\ db.res[i] \in ReservationRow /\ db.res[i].candidate = None
  <2>1. TypeOK /\ db \in DbType
    BY DEF IInv, TypeOK, DbType
  <2> QED
    BY <2>1, TransferIs DEF Stage, IInv, TransfersKnown, DbType
<1>2. /\ db' = [db EXCEPT !.res[i].candidate = d] /\ fs' = fs
      /\ transfer' = [transfer EXCEPT ![i].pc = "staged", ![i].digest = d]
      /\ served' = None /\ ready' = ready
  BY DEF Stage, Commit
<1>3. /\ db' \in DbType /\ db'.blobs = db.blobs /\ db'.stray = db.stray
      /\ \A j \in Ids : j # i => db'.res[j] = db.res[j]
      /\ db'.res[i].candidate = d /\ db'.res[i] # NoRow
  <2>1. [db.res[i] EXCEPT !.candidate = d] \in ReservationRow
    BY <1>1 DEF ReservationRow
  <2> QED
    BY <1>1, <1>2, <2>1, RowKinds DEF DbType
<1>4. [transfer[i] EXCEPT !.pc = "staged", !.digest = d] \in Transfer
  BY <1>1, Zenon DEF Transfer
<1>5. TypeOK'
  BY <1>1, <1>2, <1>3, <1>4, Zenon DEF TypeOK, DbType
<1>6. TransfersKnown'
  <2> SUFFICES ASSUME NEW j \in Ids
               PROVE  /\ transfer'[j].pc = "staged" => transfer'[j].digest \in Digests
                      /\ transfer'[j].pc = "reserved" /\ db'.res[j] # NoRow =>
                             db'.res[j].candidate = None
    BY DEF TransfersKnown
  <2>1. CASE j = i
    BY <1>1, <1>2, <2>1 DEF TypeOK, Transfer
  <2>2. CASE j # i
    BY <1>1, <1>2, <1>3, <2>2 DEF IInv, TypeOK, TransfersKnown
  <2> QED
    BY <2>1, <2>2
<1>7. ready' => Present(fs') \subseteq Owned(db')
  <2>1. \A e \in Owned(db) \cap Digests : e \in Owned(db')
    BY <1>1, <1>3, OwnedIs, LimitAssumption
  <2>2. Present(fs) \subseteq Digests
    BY DEF Present
  <2> QED
    BY <1>2, <2>1, <2>2 DEF IInv
<1>8. Present(fs') = Present(fs)' /\ Owned(db') = Owned(db)'
  BY DEF Present, Owned, Rows
<1> QED
  BY <1>5, <1>6, <1>7, <1>8 DEF IInv

LEMMA MaxIn ==
    ASSUME NEW S \in SUBSET (0..3), S # {}
    PROVE  Max(S) \in S /\ \A x \in S : x <= Max(S)
<1>1. \E x \in S : \A y \in S : x >= y
  <2>1. CASE 3 \in S
    BY <2>1
  <2>2. CASE 3 \notin S /\ 2 \in S
    BY <2>2
  <2>3. CASE 3 \notin S /\ 2 \notin S /\ 1 \in S
    BY <2>3
  <2>4. CASE 3 \notin S /\ 2 \notin S /\ 1 \notin S
    <3>1. \A y \in S : y = 0
      BY <2>4
    <3>2. PICK x : x \in S
      OBVIOUS
    <3> QED
      BY <3>1, <3>2
  <2> QED
    BY <2>1, <2>2, <2>3, <2>4
<1>2. Max(S) \in S /\ \A x \in S : Max(S) >= x
  BY <1>1, Zenon DEF Max
<1> QED
  BY <1>2

\* The rows of a publication: the key offers its new content, all other keys
\* what they offered, and the content needs its reservation no longer.
LEMMA PublishedFacts ==
    ASSUME IInv, NEW i \in Ids, transfer[i].pc = "staged", StillHeld(i)
    PROVE  LET d == transfer[i].digest
               k == transfer[i].key
               c == PublishedRows(i)
           IN  /\ d \in Digests /\ k \in Variants
               /\ c \in DbType
               /\ c.blobs = (db.blobs \cup {d}) \ Previous(db, k, d)
               /\ d \notin Previous(db, k, d)
               /\ c.stray = db.stray
               /\ \A j \in Ids : c.res[j] = IF j = i THEN NoRow ELSE db.res[j]
               /\ \A x \in Variants \ {k} : c.variants[x] = db.variants[x]
               /\ c.variants[k] # NoRow
               /\ c.variants[k].live /\ c.variants[k].digest = d
<1> DEFINE t == transfer[i]
           d == t.digest
           k == t.key
           was == db.variants[k]
           row == [kind |-> "row", digest |-> d, live |-> TRUE,
                   priority |-> IF was = NoRow THEN t.priority
                                ELSE Max({was.priority, t.priority})]
           b == [db EXCEPT !.blobs = @ \cup {d}, !.variants[k] = row, !.res[i] = NoRow]
           gone == Previous(db, k, d)
<1>1. db \in DbType /\ TypeOK
  BY DEF IInv, TypeOK, DbType
<1>2. t \in Transfer /\ d \in Digests /\ k \in Variants /\ t.priority \in Priorities
  <2>1. t \in Transfer
    BY <1>1, TransferIs
  <2> QED
    BY <2>1 DEF Transfer, IInv, TransfersKnown
<1>3. row \in VariantRow
  <2>1. CASE was = NoRow
    BY <1>2, <2>1 DEF VariantRow
  <2>2. CASE was # NoRow
    <3>1. was.priority \in Priorities
      BY <1>1, <1>2, <2>2 DEF DbType, VariantRow
    <3>2. Max({was.priority, t.priority}) \in {was.priority, t.priority}
      BY <1>2, <3>1, MaxIn, LimitAssumption
    <3> QED
      BY <1>2, <2>2, <3>1, <3>2 DEF VariantRow
  <2> QED
    BY <2>1, <2>2
<1>4. row # NoRow /\ row.live /\ row.digest = d
  BY <1>3, RowKinds, Zenon
<1> HIDE DEF row
<1>5. /\ b \in DbType
      /\ b.blobs = db.blobs \cup {d} /\ b.stray = db.stray
      /\ \A j \in Ids : b.res[j] = IF j = i THEN NoRow ELSE db.res[j]
      /\ \A x \in Variants : b.variants[x] = IF x = k THEN row ELSE db.variants[x]
  BY <1>1, <1>2, <1>3, Zenon DEF DbType
<1>6. PublishedRows(i) = DropBlobs(b, gone)
  BY DEF PublishedRows, row
<1>7. d \notin gone /\ \A x \in Variants \ {k} : db.variants[x] # NoRow =>
                           db.variants[x].digest \notin gone
  <2>1. DOMAIN db.variants = Variants
    BY <1>1 DEF DbType
  <2> QED
    BY <2>1 DEF Previous, Rows
<1> HIDE DEF b, gone
<1>8. LET c == DropBlobs(b, gone)
      IN  /\ c \in DbType /\ c.blobs = b.blobs \ gone
          /\ c.res = b.res /\ c.stray = b.stray
          /\ \A x \in Variants : c.variants[x] =
                 IF b.variants[x] # NoRow /\ b.variants[x].digest \in gone
                 THEN NoRow ELSE b.variants[x]
  BY <1>5, DropBlobsFacts
<1> QED
  BY <1>2, <1>4, <1>5, <1>6, <1>7, <1>8 DEF gone

\* What Publish may do to the rows and files.
LEMMA PublishCases ==
    ASSUME IInv, NEW i \in Ids, Publish(i)
    PROVE  LET d == transfer[i].digest
               renamed == [fs EXCEPT !.files[d] = "good"]
               tidied == WithoutFiles(renamed, Previous(db, transfer[i].key, d))
           IN  \/ Tidying
               \/ /\ StillHeld(i) /\ db' = db /\ fs' \in {renamed, tidied}
                  /\ transfer' = [transfer EXCEPT ![i].pc = "failed"]
               \/ /\ StillHeld(i) /\ db' = PublishedRows(i) /\ fs' = tidied
                  /\ \/ transfer' = [transfer EXCEPT ![i] = Idle]
                     \/ transfer' = [transfer EXCEPT ![i].pc = "failed"]
<1>1. db \in DbType /\ fs \in FsType /\ TypeOK
  BY DEF IInv, TypeOK, DbType, FsType
<1>2. transfer[i] \in Transfer /\ transfer[i].digest \in Digests
  BY <1>1, TransferIs DEF Publish, IInv, TransfersKnown
<1>3. transfer' = [transfer EXCEPT ![i].pc = "failed"] =>
         /\ transfer' \in [Ids -> Transfer \cup {Idle}]
         /\ \A j \in Ids : \/ transfer'[j] = transfer[j]
                           \/ transfer'[j].pc \in {"idle", "failed"}
  <2>1. [transfer[i] EXCEPT !.pc = "failed"] \in Transfer
    BY <1>2 DEF Transfer
  <2> QED
    BY <1>1, <1>2, <2>1 DEF TypeOK, Transfer
<1>4. ASSUME NEW f \in {fs, [fs EXCEPT !.tmp[i] = transfer[i].digest]}, Rollback(f),
             transfer' = [transfer EXCEPT ![i].pc = "failed"]
      PROVE  Tidying
  <2>1. f \in FsType /\ Present(f) = Present(fs)
    BY <1>1, <1>2, <1>4 DEF FsType, Present
  <2>2. Tidies(db, fs, db', fs')
    BY <1>1, <1>4, <2>1, TidyRollback DEF Rollback
  <2> QED
    BY <1>1, <1>3, <1>4, <2>2 DEF Publish, Tidying, TypeOK
<1> QED
  BY <1>4 DEF Publish, Rollback, Commit

LEMMA PublishKeeps ==
    ASSUME IInv, NEW i \in Ids, Publish(i)
    PROVE  IInv'
<1> DEFINE d == transfer[i].digest
           k == transfer[i].key
           renamed == [fs EXCEPT !.files[d] = "good"]
           tidied == WithoutFiles(renamed, Previous(db, k, d))
<1>1. db \in DbType /\ fs \in FsType /\ TypeOK
  BY DEF IInv, TypeOK, DbType, FsType
<1>2. transfer[i].pc = "staged" /\ transfer[i] \in Transfer /\ d \in Digests
  BY <1>1, TransferIs DEF Publish, IInv, TransfersKnown
<1>3. /\ renamed \in FsType /\ tidied \in FsType
      /\ Present(renamed) \subseteq Present(fs) \cup {d}
      /\ Present(tidied) = Present(renamed) \ Previous(db, k, d)
  <2>1. renamed \in FsType /\ Present(renamed) \subseteq Present(fs) \cup {d}
    BY <1>1, <1>2 DEF FsType, Present
  <2> QED
    BY <2>1, WithoutFilesFacts
<1>4. served' = None /\ ready' = ready
  BY DEF Publish
<1>5. ASSUME \/ transfer' = [transfer EXCEPT ![i] = Idle]
             \/ transfer' = [transfer EXCEPT ![i].pc = "failed"]
      PROVE  /\ transfer' \in [Ids -> Transfer \cup {Idle}]
             /\ \A j \in Ids : \/ transfer'[j] = transfer[j]
                               \/ transfer'[j].pc \in {"idle", "failed"}
  <2>1. [transfer[i] EXCEPT !.pc = "failed"] \in Transfer
    BY <1>2 DEF Transfer
  <2> QED
    BY <1>1, <1>2, <1>5, <2>1 DEF TypeOK, Transfer, Idle
<1> HIDE DEF renamed, tidied
<1>6. CASE Tidying
  BY <1>6, TidyingKeeps
<1>7. ASSUME db' \in DbType, fs' \in FsType,
             \A j \in Ids : db'.res[j] \in {db.res[j], NoRow},
             \/ transfer' = [transfer EXCEPT ![i] = Idle]
             \/ transfer' = [transfer EXCEPT ![i].pc = "failed"],
             ready => Present(fs') \subseteq Owned(db')
      PROVE  IInv'
  <2>1. TypeOK'
    BY <1>1, <1>4, <1>5, <1>7 DEF TypeOK, DbType, FsType
  <2>2. TransfersKnown'
    BY <1>5, <1>7 DEF IInv, TransfersKnown
  <2>3. Present(fs') = Present(fs)' /\ Owned(db') = Owned(db)'
    BY DEF Present, Owned, Rows
  <2> QED
    BY <1>4, <1>7, <2>1, <2>2, <2>3 DEF IInv
<1>8. CASE /\ StillHeld(i) /\ db' = db /\ fs' \in {renamed, tidied}
           /\ transfer' = [transfer EXCEPT ![i].pc = "failed"]
  <2>1. d \in Owned(db)
    BY <1>1, <1>8, OwnedIs DEF StillHeld
  <2> QED
    BY <1>1, <1>3, <1>7, <1>8, <2>1 DEF IInv
<1>9. CASE /\ StillHeld(i) /\ db' = PublishedRows(i) /\ fs' = tidied
           /\ \/ transfer' = [transfer EXCEPT ![i] = Idle]
              \/ transfer' = [transfer EXCEPT ![i].pc = "failed"]
  <2> DEFINE c == PublishedRows(i)
  <2>1. /\ c \in DbType /\ c.blobs = (db.blobs \cup {d}) \ Previous(db, k, d)
        /\ d \notin Previous(db, k, d) /\ c.stray = db.stray
        /\ \A j \in Ids : c.res[j] = IF j = i THEN NoRow ELSE db.res[j]
    BY <1>2, <1>9, PublishedFacts
  <2> HIDE DEF c
  <2>2. ASSUME ready, NEW e \in Present(tidied)
        PROVE  e \in Owned(c)
    <3>1. e \notin Previous(db, k, d) /\ (e = d \/ e \in Owned(db))
      BY <1>3, <2>2 DEF IInv
    <3>2. db.res[i].candidate = d
      BY <1>9 DEF StillHeld
    <3> QED
      BY <1>1, <2>1, <3>1, <3>2, OwnedIs
  <2>3. db' = c
    BY <1>9 DEF c
  <2> QED
    BY <1>3, <1>7, <1>9, <2>1, <2>2, <2>3
<1> QED
  BY <1>6, <1>8, <1>9, PublishCases DEF renamed, tidied

\* Recovery leaves exactly the files that a row or a reservation owns and
\* those it could not remove, which it counts.
LEMMA RecoverFacts ==
    ASSUME IInv, NEW stuck \in SUBSET Digests, RecoverCommits(stuck)
    PROVE  /\ db' \in DbType /\ fs' \in FsType
           /\ \A k \in Variants : db'.variants[k] \in {db.variants[k], NoRow}
           /\ \A i \in Ids : db'.res[i] \in {db.res[i], NoRow}
           /\ Present(fs') \subseteq Owned(db')
<1> DEFINE a == Pruned(Cleaned(db))
           b == Settled(a)
           f == WithoutFiles(CleanedFiles, Unreferenced(a))
           g == WithoutFiles(f, Stray(b, f) \ stuck)
           tidy == [g EXCEPT !.tmp = [i \in Ids |-> IF b.res[i] = NoRow THEN None ELSE @[i]]]
           c == DropBlobs(b, b.blobs \ Present(tidy))
<1>1. /\ Tidies(db, fs, b, f) /\ b \in DbType /\ f \in FsType
  BY TidyMaintenance, Zenon DEF IInv, Pruned, Settled, Tidies
<1>2. /\ db' = [c EXCEPT !.stray = stuck, !.oldCounted = f.old] /\ fs' = tidy
      /\ stuck \subseteq Stray(b, f)
  BY DEF RecoverCommits, Commit
<1> HIDE DEF a, b, f
<1>3. g \in FsType /\ Present(g) = Present(f) \ (Stray(b, f) \ stuck)
  BY <1>1, WithoutFilesFacts
<1> HIDE DEF g
<1>4. tidy \in FsType /\ tidy.files = g.files
  BY <1>3 DEF FsType
<1>5. Present(tidy) = Present(g)
  BY <1>4 DEF Present
<1> HIDE DEF tidy
<1>6. /\ c \in DbType /\ c.blobs = b.blobs \cap Present(tidy) /\ c.res = b.res
      /\ \A k \in Variants : c.variants[k] \in {b.variants[k], NoRow}
  BY <1>1, DropBlobsFacts
<1> HIDE DEF c
<1>7. /\ db' \in DbType /\ db'.blobs = c.blobs /\ db'.stray = stuck
      /\ db'.res = c.res /\ db'.variants = c.variants
  BY <1>1, <1>2, <1>6, Zenon DEF DbType, FsType
<1>8. ASSUME NEW e \in Present(tidy)
      PROVE  e \in Owned(db')
  <2>1. e \in Present(f) /\ (e \in stuck \/ e \notin Stray(b, f))
    BY <1>3, <1>5
  <2>2. DOMAIN b.res = Ids
    BY <1>1 DEF DbType
  <2>3. \/ e \in stuck
        \/ e \in b.blobs
        \/ \E i \in Ids : b.res[i] # NoRow /\ b.res[i].candidate = e
    BY <2>1, <2>2 DEF Stray, Rows
  <2> QED
    BY <1>6, <1>7, <1>8, <2>3, OwnedIs
<1>9. /\ \A k \in Variants : db'.variants[k] \in {db.variants[k], NoRow}
      /\ \A i \in Ids : db'.res[i] \in {db.res[i], NoRow}
  BY <1>1, <1>6, <1>7 DEF Tidies
<1> QED
  BY <1>2, <1>4, <1>7, <1>8, <1>9

LEMMA RecoverCommitsKeeps ==
    ASSUME IInv, NEW stuck \in SUBSET Digests, RecoverCommits(stuck)
    PROVE  IInv'
<1>1. transfer' = transfer /\ served' = None /\ ready' = TRUE
  BY DEF RecoverCommits
<1>2. TypeOK'
  BY <1>1, RecoverFacts DEF IInv, TypeOK, DbType, FsType
<1>3. TransfersKnown'
  BY <1>1, RecoverFacts DEF IInv, TransfersKnown
<1>4. Present(fs') = Present(fs)' /\ Owned(db') = Owned(db)'
  BY DEF Present, Owned, Rows
<1> QED
  BY <1>2, <1>3, <1>4, RecoverFacts DEF IInv

LEMMA ExpireReservationKeeps ==
    ASSUME IInv, NEW i \in Ids, ExpireReservation(i)
    PROVE  IInv'
<1>1. db \in DbType /\ TypeOK /\ db.res[i] \in ReservationRow
  BY DEF IInv, TypeOK, DbType, ExpireReservation
<1>2. /\ db' = [db EXCEPT !.res[i].live = FALSE]
      /\ fs' = fs /\ ready' = ready /\ transfer' = transfer /\ served' = None
  BY DEF ExpireReservation
<1>3. /\ db' \in DbType /\ db'.blobs = db.blobs /\ db'.stray = db.stray
      /\ \A j \in Ids : j # i => db'.res[j] = db.res[j]
      /\ db'.res[i] # NoRow /\ db'.res[i].candidate = db.res[i].candidate
  <2>1. [db.res[i] EXCEPT !.live = FALSE] \in ReservationRow
    BY <1>1, Zenon DEF ReservationRow
  <2> QED
    BY <1>1, <1>2, <2>1, RowKinds, Zenon DEF DbType, ReservationRow
<1>4. TypeOK'
  BY <1>1, <1>2, <1>3, Zenon DEF TypeOK, DbType
<1>5. TransfersKnown'
  BY <1>1, <1>2, <1>3, RowKinds DEF IInv, TransfersKnown
<1>6. \A e \in Owned(db) : e \in Owned(db')
  BY <1>1, <1>3, OwnedIs
<1>7. Present(fs') = Present(fs)' /\ Owned(db') = Owned(db)'
  BY DEF Present, Owned, Rows
<1> QED
  BY <1>2, <1>4, <1>5, <1>6, <1>7, Zenon DEF IInv

LEMMA ExpireVariantKeeps ==
    ASSUME IInv, NEW k \in Variants, ExpireVariant(k)
    PROVE  IInv'
<1>1. db \in DbType /\ TypeOK /\ db.variants[k] \in VariantRow
  BY DEF IInv, TypeOK, DbType, ExpireVariant
<1>2. /\ db' = [db EXCEPT !.variants[k].live = FALSE]
      /\ fs' = fs /\ ready' = ready /\ transfer' = transfer /\ served' = None
  BY DEF ExpireVariant
<1>3. /\ db' \in DbType /\ db'.blobs = db.blobs /\ db'.stray = db.stray
      /\ db'.res = db.res
  <2>1. [db.variants[k] EXCEPT !.live = FALSE] \in VariantRow
    BY <1>1, Zenon DEF VariantRow
  <2> QED
    BY <1>1, <1>2, <2>1, Zenon DEF DbType
<1>4. TypeOK'
  BY <1>1, <1>2, <1>3, Zenon DEF TypeOK, DbType
<1>5. TransfersKnown'
  BY <1>2, <1>3 DEF IInv, TransfersKnown
<1>6. Present(fs)' = Present(fs) /\ Owned(db)' = Owned(db)
  BY <1>2, <1>3 DEF Present, Owned, Rows
<1> QED
  BY <1>2, <1>4, <1>5, <1>6 DEF IInv

\* Lost processes and files take away, too.
LEMMA LossTidies ==
    ASSUME IInv, Crash \/ RemoveOld \/ \E d \in Digests : Damage(d)
    PROVE  Tidying
<1>1. db \in DbType /\ fs \in FsType /\ TypeOK
  BY DEF IInv, TypeOK, DbType, FsType
<1>2. CASE Crash
  <2>1. Tidies(db, fs, db', fs')
    BY <1>1, <1>2, TidyRollback DEF Crash
  <2> QED
    BY <1>1, <1>2, <2>1, Zenon DEF Crash, Tidying, TypeOK, Idle
<1>3. CASE RemoveOld
  <2>1. fs' \in FsType /\ Present(fs') = Present(fs) /\ db' = db
    BY <1>1, <1>3 DEF RemoveOld, FsType, Present
  <2>2. Tidies(db, fs, db', fs')
    BY <1>1, <2>1, TidyRollback
  <2> QED
    BY <1>1, <1>3, <2>2 DEF RemoveOld, Tidying, TypeOK
<1>4. ASSUME NEW d \in Digests, Damage(d)
      PROVE  Tidying
  <2>1. fs' \in FsType /\ Present(fs') \subseteq Present(fs) /\ db' = db
    BY <1>1, <1>4 DEF Damage, FsType, Present
  <2>2. Tidies(db, fs, db', fs')
    BY <1>1, <2>1, TidyRollback
  <2> QED
    BY <1>1, <1>4, <2>2 DEF Damage, Tidying, TypeOK
<1> QED
  BY <1>2, <1>3, <1>4

LEMMA GetKeeps ==
    ASSUME IInv, NEW k \in Variants, Get(k)
    PROVE  IInv'
<1>1. db.variants[k] \in VariantRow
  BY DEF IInv, TypeOK, Get
<1>2. db.variants[k].digest \in Digests
  BY <1>1 DEF VariantRow
<1>3. TypeOK'
  BY <1>2 DEF IInv, TypeOK, Get
<1> QED
  BY <1>3 DEF IInv, Get, TransfersKnown, Present, Owned, Rows

LEMMA InitIInv == Init => IInv
<1> SUFFICES ASSUME Init PROVE IInv
  OBVIOUS
<1>1. TypeOK
  BY LimitAssumption, Zenon DEF Init, TypeOK
<1> QED
  BY <1>1 DEF Init, IInv, TransfersKnown, Idle

\* The steps that only take away.
Maintains ==
    \/ \E i \in Ids : Cancel(i)
    \/ EvictLowPriority \/ SweepFails \/ SweepCommits \/ RecoverFails
    \/ Crash \/ RemoveOld \/ \E d \in Digests : Damage(d)

LEMMA MaintainsTidies ==
    ASSUME IInv, Maintains
    PROVE  Tidying
BY CancelTidies, EvictTidies, SweepFailsTidies, SweepCommitsTidies,
   RecoverFailsTidies, LossTidies DEF Maintains

LEMMA NextIInv == IInv /\ [Next]_vars => IInv'
<1> SUFFICES ASSUME IInv, [Next]_vars PROVE IInv'
  OBVIOUS
<1>1. ASSUME NEW i \in Ids, NEW k \in Variants, NEW p \in Priorities, Reserve(i, k, p)
      PROVE  IInv'
  BY <1>1, ReserveKeeps
<1>2. ASSUME NEW i \in Ids, NEW d \in Digests, Stage(i, d)
      PROVE  IInv'
  BY <1>2, StageKeeps
<1>3. ASSUME NEW i \in Ids, Publish(i)
      PROVE  IInv'
  BY <1>3, PublishKeeps
<1>4. ASSUME NEW k \in Variants, Get(k)
      PROVE  IInv'
  BY <1>4, GetKeeps
<1>5. CASE Maintains
  BY <1>5, MaintainsTidies, TidyingKeeps
<1>6. ASSUME NEW stuck \in SUBSET Digests, RecoverCommits(stuck)
      PROVE  IInv'
  BY <1>6, RecoverCommitsKeeps
<1>7. ASSUME NEW i \in Ids, ExpireReservation(i)
      PROVE  IInv'
  BY <1>7, ExpireReservationKeeps
<1>8. ASSUME NEW k \in Variants, ExpireVariant(k)
      PROVE  IInv'
  BY <1>8, ExpireVariantKeeps
<1>9. CASE UNCHANGED vars
  BY <1>9 DEF vars, IInv, TypeOK, TransfersKnown, Present, Owned, Rows
<1> QED
  BY <1>1, <1>2, <1>3, <1>4, <1>5, <1>6, <1>7, <1>8, <1>9 DEF Next, Maintains

LEMMA AlwaysIInv == Spec => []IInv
BY InitIInv, NextIInv, PTL DEF Spec

\* Rows, files and transfers keep their types, through every failure and crash.
THEOREM StoreTypeCorrect == Spec => []TypeOK
<1>1. IInv => TypeOK
  BY DEF IInv
<1> QED
  BY <1>1, AlwaysIInv, PTL

\* Once the store has recovered, no file is without an owner: a blob row, a
\* reservation that recorded it before the rename, or recovery's count
\* (Reservation.Commit, releaseReservation, recover).
THEOREM OrphansOwnedAlways == Spec => []OrphansOwned
<1>1. IInv => OrphansOwned
  <2> SUFFICES ASSUME IInv, ready, NEW d \in Present(fs)
               PROVE  \/ d \in db.blobs \cup db.stray
                      \/ \E i \in Rows(db.res) : db.res[i].candidate = d
    BY DEF OrphansOwned
  <2> QED
    BY DEF IInv, Owned
<1> QED
  BY <1>1, AlwaysIInv, PTL

----------------------------------------------------------------------------
(* The store keeps its promise.                                             *)

\* What a key offers.
LEMMA OfferedIs ==
    /\ Offered = [k \in Variants |-> Offered[k]]
    /\ \A k \in Variants : Offered[k] =
           IF db.variants[k] # NoRow /\ db.variants[k].live
           THEN db.variants[k].digest ELSE None
BY DEF Offered

\* A step after which every key offers what it did, or nothing.
LEMMA Forgetting ==
    ASSUME served' = None,
           \A k \in Variants : Offered'[k] \in {Offered[k], None}
    PROVE  \E K \in SUBSET Variants : Promise!Forget(K)
<1> DEFINE K == {k \in Variants : Offered'[k] # Offered[k]}
<1>1. Offered' = [k \in Variants |-> Offered'[k]]
  BY DEF Offered
<1>2. Offered' = [k \in Variants |-> IF k \in K THEN None ELSE Offered[k]]
  <2>1. \A k \in Variants : Offered'[k] = IF k \in K THEN None ELSE Offered[k]
    OBVIOUS
  <2> HIDE DEF K
  <2> QED
    BY <1>1, <2>1
<1>3. Promise!Forget(K)
  BY <1>2 DEF Promise!Forget
<1> QED
  BY <1>3

\* Rows that only go make keys forget.
LEMMA RowsGone ==
    ASSUME served' = None,
           \A k \in Variants : db'.variants[k] \in {db.variants[k], NoRow}
    PROVE  Promise!Next
<1>1. \A k \in Variants : Offered'[k] \in {Offered[k], None}
  BY DEF Offered
<1> QED
  BY <1>1, Forgetting DEF Promise!Next

LEMMA PublishPromised ==
    ASSUME IInv, NEW i \in Ids, Publish(i)
    PROVE  Promise!Next
<1>1. served' = None /\ transfer[i].pc = "staged"
  BY DEF Publish
<1>2. CASE Tidying
  BY <1>2, RowsGone DEF Tidying, Tidies
<1>3. CASE db' = db
  BY <1>1, <1>3, RowsGone
<1>4. CASE StillHeld(i) /\ db' = PublishedRows(i)
  <2> DEFINE k == transfer[i].key
             d == transfer[i].digest
  <2>1. /\ d \in Digests /\ k \in Variants
        /\ \A x \in Variants \ {k} : db'.variants[x] = db.variants[x]
        /\ db'.variants[k] # NoRow
        /\ db'.variants[k].live /\ db'.variants[k].digest = d
    BY <1>1, <1>4, PublishedFacts
  <2> HIDE DEF k, d
  <2>2. \A x \in Variants : Offered'[x] = IF x = k THEN d ELSE Offered[x]
    BY <2>1 DEF Offered
  <2>3. Offered' = [Offered EXCEPT ![k] = d]
    BY <2>1, <2>2, Zenon DEF Offered
  <2>4. Promise!Publish(k, d)
    BY <1>1, <2>3 DEF Promise!Publish
  <2> QED
    BY <2>1, <2>4 DEF Promise!Next
<1> QED
  BY <1>2, <1>3, <1>4, PublishCases, Zenon

LEMMA GetPromised ==
    ASSUME IInv, NEW k \in Variants, Get(k)
    PROVE  Promise!Next
<1>1. db.variants[k] \in VariantRow /\ db.variants[k].live
  BY DEF IInv, TypeOK, Get
<1>2. db.variants[k].digest \in Digests
  BY <1>1 DEF VariantRow
<1>3. Offered[k] = db.variants[k].digest /\ Offered[k] # None
  BY <1>1, <1>2, LimitAssumption, RowKinds DEF Offered
<1>4. Offered' = Offered
  BY DEF Offered, Get
<1>5. Promise!Hit(k)
  BY <1>3, <1>4 DEF Promise!Hit, Get
<1> QED
  BY <1>5 DEF Promise!Next

LEMMA ReservePromised ==
    ASSUME IInv, NEW i \in Ids, NEW k \in Variants, NEW p \in Priorities,
           Reserve(i, k, p)
    PROVE  Promise!Next
<1>1. CASE Tidying
  BY <1>1, RowsGone DEF Tidying, Tidies
<1>2. CASE Books(i, k, p)
  <2>1. PICK b, f : /\ Tidies(db, fs, b, f)
                    /\ db' = [b EXCEPT !.res[i] =
                                [kind |-> "row", candidate |-> None,
                                 priority |-> p, live |-> TRUE]]
    BY <1>2, Zenon DEF Books
  <2>2. db'.variants = b.variants
    BY <2>1 DEF Tidies, DbType
  <2> QED
    BY <2>1, <2>2, RowsGone DEF Tidies, Reserve
<1> QED
  BY <1>1, <1>2, ReserveTidiesOrBooks

\* Every step of the store is a step of the promise: only the commit of a
\* publication changes what a key offers, and it changes that key alone,
\* although contents are shared between keys.
LEMMA StepPromised ==
    IInv /\ [Next]_vars => [Promise!Next]_<<Offered, served>>
<1> SUFFICES ASSUME IInv, [Next]_vars
             PROVE  [Promise!Next]_<<Offered, served>>
  OBVIOUS
<1>1. ASSUME NEW i \in Ids, NEW k \in Variants, NEW p \in Priorities, Reserve(i, k, p)
      PROVE  Promise!Next
  BY <1>1, ReservePromised
<1>2. ASSUME NEW i \in Ids, NEW d \in Digests, Stage(i, d)
      PROVE  Promise!Next
  <2>1. db'.variants = db.variants /\ served' = None
    BY <1>2 DEF IInv, TypeOK, Stage, Commit
  <2> QED
    BY <2>1, RowsGone
<1>3. ASSUME NEW i \in Ids, Publish(i)
      PROVE  Promise!Next
  BY <1>3, PublishPromised
<1>4. ASSUME NEW k \in Variants, Get(k)
      PROVE  Promise!Next
  BY <1>4, GetPromised
<1>5. CASE Maintains
  <2>1. Tidying
    BY <1>5, MaintainsTidies
  <2> QED
    BY <2>1, RowsGone DEF Tidying, Tidies
<1>6. ASSUME NEW stuck \in SUBSET Digests, RecoverCommits(stuck)
      PROVE  Promise!Next
  BY <1>6, RecoverFacts, RowsGone, Zenon DEF RecoverCommits
<1>7. ASSUME NEW i \in Ids, ExpireReservation(i)
      PROVE  Promise!Next
  <2>1. db'.variants = db.variants /\ served' = None
    BY <1>7 DEF IInv, TypeOK, ExpireReservation
  <2> QED
    BY <2>1, RowsGone
<1>8. ASSUME NEW k \in Variants, ExpireVariant(k)
      PROVE  Promise!Next
  <2>1. /\ served' = None
        /\ \A x \in Variants : x # k => db'.variants[x] = db.variants[x]
        /\ ~db'.variants[k].live
    BY <1>8 DEF IInv, TypeOK, ExpireVariant, VariantRow
  <2>2. \A x \in Variants : Offered'[x] \in {Offered[x], None}
    BY <2>1 DEF Offered
  <2> QED
    BY <2>1, <2>2, Forgetting DEF Promise!Next
<1>9. CASE UNCHANGED vars
  BY <1>9 DEF vars, Offered
<1> QED
  BY <1>1, <1>2, <1>3, <1>4, <1>5, <1>6, <1>7, <1>8, <1>9 DEF Next, Maintains

\* The store implements ArtworkPromise: whatever mixture of publications,
\* evictions, failures, crashes and recoveries, a read returns what was last
\* published under its own key (Get, Reservation.Commit).
THEOREM StoreKeepsPromise == Spec => KeepsPromise
<1>1. Init => Promise!Init
  BY DEF Init, Promise!Init, Offered
<1> QED
  BY <1>1, StepPromised, AlwaysIInv, PTL DEF Spec, KeepsPromise, Promise!Spec

----------------------------------------------------------------------------
(* Tiers.                                                                   *)

LEMMA TierIs ==
    ASSUME NEW b \in DbType, NEW d
    PROVE  Tier(b, d) \in 0..3
<1> DEFINE S == {0} \cup {b.variants[x].priority : x \in LiveRefs(b, d)}
<1>1. \A x \in LiveRefs(b, d) : b.variants[x].priority \in 0..3
  BY LimitAssumption, Zenon DEF LiveRefs, Rows, DbType, VariantRow
<1>2. S \in SUBSET (0..3) /\ S # {}
  BY <1>1
<1>3. Tier(b, d) = Max(S)
  BY DEF Tier
<1> HIDE DEF S
<1> QED
  BY <1>2, <1>3, MaxIn, Zenon

\* A live reference lifts its blob to at least its own tier.
LEMMA TierLifts ==
    ASSUME NEW b \in DbType, NEW k \in Variants, b.variants[k] # NoRow,
           b.variants[k].live
    PROVE  b.variants[k].priority <= Tier(b, b.variants[k].digest)
<1> DEFINE d == b.variants[k].digest
           S == {0} \cup {b.variants[x].priority : x \in LiveRefs(b, d)}
<1>1. LiveRefs(b, d) \subseteq Variants /\ k \in LiveRefs(b, d)
  BY DEF LiveRefs, Rows, DbType
<1>2. \A x \in LiveRefs(b, d) : b.variants[x].priority \in 0..3
  BY <1>1, LimitAssumption, Zenon DEF LiveRefs, Rows, DbType, VariantRow
<1>3. S \in SUBSET (0..3) /\ b.variants[k].priority \in S
  BY <1>1, <1>2
<1>4. Tier(b, d) = Max(S)
  BY DEF Tier
<1> HIDE DEF S
<1> QED
  BY <1>3, <1>4, MaxIn, Zenon

\* makeRoom looks only at blobs of the incoming tier and below.
LEMMA RoomEvictable ==
    ASSUME NEW b, NEW f, NEW p, NEW need, NEW pneed,
           NEW out \in MakeRoom(b, f, p, need, pneed)
    PROVE  out[1] \subseteq Evictable(b, p)
<1> DEFINE fits(D) == Room(b, DropBlobs(b, D), WithoutFiles(f, D), need, pneed)
           enough == {<<D, TRUE>> : D \in
               {D \in UNION {SUBSET K : K \in Looked(b, p)} :
                   /\ fits(D)
                   /\ \E d \in D : ~fits(D \ {d}) /\ \A e \in D : Tier(b, e) <= Tier(b, d)}}
           short == {<<D, FALSE>> : D \in
               {D \in UNION {SUBSET K : K \in
                   {K \in Looked(b, p) : Cardinality(K) =
                       Min({Batch, Cardinality(Evictable(b, p))})}} : ~fits(D)}}
<1>1. \A K \in Looked(b, p) : K \subseteq Evictable(b, p)
  BY DEF Looked
<1>2. out \in {<<{}, TRUE>>} \cup enough \cup short
  BY Zenon DEF MakeRoom
<1> HIDE DEF fits
<1>3. CASE out = <<{}, TRUE>>
  BY <1>3
<1>4. CASE out \in enough
  <2>1. PICK D \in UNION {SUBSET K : K \in Looked(b, p)} : out = <<D, TRUE>>
    BY <1>4, Zenon
  <2>2. D \subseteq Evictable(b, p)
    BY <1>1, <2>1
  <2> QED
    BY <2>1, <2>2
<1>5. CASE out \in short
  <2>1. PICK D \in UNION {SUBSET K : K \in
                {K \in Looked(b, p) : Cardinality(K) =
                    Min({Batch, Cardinality(Evictable(b, p))})}} : out = <<D, FALSE>>
    BY <1>5, Zenon
  <2>2. D \subseteq Evictable(b, p)
    BY <1>1, <2>1
  <2> QED
    BY <2>1, <2>2
<1> QED
  BY <1>2, <1>3, <1>4, <1>5, Zenon

\* Reserve takes no blob that a live reference of a higher tier holds.
LEMMA ReserveSpares ==
    ASSUME IInv, NEW i \in Ids, NEW x \in Variants, NEW p \in Priorities,
           Reserve(i, x, p), NEW k \in Variants, db.variants[k] # NoRow,
           db.variants[k].live, p < db.variants[k].priority
    PROVE  ~Takes(db.variants[k].digest)
<1> DEFINE d == db.variants[k].digest
<1>1. db \in DbType /\ fs \in FsType /\ TypeOK
  BY DEF IInv, TypeOK, DbType, FsType
<1>2. SUFFICES ASSUME d \in db.blobs
               PROVE  d \in db'.blobs /\ fs'.files[d] = fs.files[d]
  BY DEF Takes
<1>3. /\ d \in Digests /\ p \in 0..3 /\ db.variants[k].priority \in 0..3
      /\ Expired(db.res) \subseteq Ids
  BY <1>1, <1>2, LimitAssumption DEF DbType, VariantRow, Expired, Rows
<1>4. \A I \in SUBSET Expired(db.res) : ReleaseFiles(db, fs, I).files[d] = fs.files[d]
  BY <1>1, <1>2, <1>3, ReleaseFilesFacts
<1>5. CleanedFiles \in FsType /\ CleanedFiles.files[d] = fs.files[d]
  BY <1>1, <1>3, <1>4, ReleaseFilesFacts DEF CleanedFiles
<1>6. ASSUME NEW K \in PruneBatches(db)
      PROVE  LET b == DropVariants(Cleaned(db), K)
             IN  /\ b \in DbType /\ d \in b.blobs /\ d \notin Evictable(b, p)
  <2> DEFINE a == Cleaned(db)
             b == DropVariants(a, K)
  <2>1. a \in DbType /\ a.blobs = db.blobs /\ a.variants = db.variants
    BY <1>1, ReleaseRowsFacts DEF Cleaned
  <2>2. k \notin K
    BY DEF PruneBatches, Expired
  <2> HIDE DEF a
  <2>3. b \in DbType /\ b.blobs = db.blobs /\ b.variants[k] = db.variants[k]
    BY <2>1, <2>2, DropVariantsFacts
  <2> HIDE DEF b
  <2>4. db.variants[k].priority <= Tier(b, d)
    BY <2>3, TierLifts
  <2>5. Tier(b, d) \in 0..3
    BY <2>3, TierIs
  <2>6. ~(Tier(b, d) <= p)
    BY <1>3, <2>4, <2>5
  <2> QED
    BY <1>2, <2>3, <2>6, Zenon DEF Evictable, a, b
<1>7. CASE \E f \in PartlyCleaned : Rollback(f)
  BY <1>2, <1>4, <1>7 DEF PartlyCleaned, Rollback
<1>8. CASE Rollback(CleanedFiles)
  BY <1>2, <1>5, <1>8 DEF Rollback
<1>9. ASSUME NEW K \in PruneBatches(db), NEW D,
             D \subseteq Evictable(DropVariants(Cleaned(db), K), p)
      PROVE  LET b2 == DropBlobs(DropVariants(Cleaned(db), K), D)
                 f2 == WithoutFiles(CleanedFiles, D)
             IN  b2 \in DbType /\ d \in b2.blobs /\ f2.files[d] = fs.files[d]
  <2> DEFINE b == DropVariants(Cleaned(db), K)
  <2>1. b \in DbType /\ d \in b.blobs /\ d \notin D
    BY <1>6, <1>9
  <2> HIDE DEF b
  <2>2. DropBlobs(b, D) \in DbType /\ d \in DropBlobs(b, D).blobs
    BY <2>1, DropBlobsFacts
  <2>3. WithoutFiles(CleanedFiles, D).files[d] = fs.files[d]
    BY <1>3, <1>5, <2>1, WithoutFilesFacts
  <2> QED
    BY <2>2, <2>3 DEF b
<1>10. ASSUME NEW K \in PruneBatches(db), NEW pneed,
              NEW out \in MakeRoom(DropVariants(Cleaned(db), K), CleanedFiles, p,
                                   ReservationBytes, pneed),
              LET b2 == DropBlobs(DropVariants(Cleaned(db), K), out[1])
                  f2 == WithoutFiles(CleanedFiles, out[1])
              IN  \/ Rollback(f2)
                  \/ Commit(b2, f2)
                  \/ \E row : Commit([b2 EXCEPT !.res[i] = row], f2)
       PROVE  d \in db'.blobs /\ fs'.files[d] = fs.files[d]
  <2> DEFINE b2 == DropBlobs(DropVariants(Cleaned(db), K), out[1])
             f2 == WithoutFiles(CleanedFiles, out[1])
  <2>1. b2 \in DbType /\ d \in b2.blobs /\ f2.files[d] = fs.files[d]
    BY <1>9, RoomEvictable, Zenon
  <2>2. \/ fs' = f2 /\ db' = db
        \/ fs' = f2 /\ db' = b2
        \/ \E row : fs' = f2 /\ db' = [b2 EXCEPT !.res[i] = row]
    BY <1>10 DEF Rollback, Commit
  <2> HIDE DEF b2, f2
  <2> QED
    BY <1>2, <2>1, <2>2 DEF DbType
<1> QED
  BY <1>7, <1>8, <1>10, Zenon DEF Reserve

\* The operator's eviction takes no blob with a live reference above tier 0.
LEMMA EvictSpares ==
    ASSUME IInv, EvictLowPriority, NEW k \in Variants, db.variants[k] # NoRow,
           db.variants[k].live, db.variants[k].priority # 0
    PROVE  ~Takes(db.variants[k].digest)
<1> DEFINE d == db.variants[k].digest
<1>1. db \in DbType /\ fs \in FsType
  BY DEF IInv, TypeOK, DbType, FsType
<1>2. d \in Digests /\ db.variants[k].priority \in 0..3
  BY <1>1, LimitAssumption, Zenon DEF DbType, VariantRow
<1>3. Tier(db, d) # 0
  BY <1>1, <1>2, TierLifts, TierIs
<1>4. PICK D : /\ D \subseteq {e \in db.blobs : Tier(db, e) = 0}
               /\ fs' = WithoutFiles(fs, D)
               /\ db' = db \/ db' = DropBlobs(db, D)
  BY DEF EvictLowPriority, Rollback, Commit
<1>5. d \notin D
  BY <1>3, <1>4
<1> QED
  BY <1>1, <1>2, <1>4, <1>5, DropBlobsFacts, WithoutFilesFacts DEF Takes

\* No admission takes a blob that a live reference of a higher tier holds, and
\* no operator's eviction takes one held above tier 0, whatever aliases of
\* lower tiers share it (makeRoom, EvictLowPriority).
THEOREM TierRespectedAlways == Spec => TierRespected
<1>1. ASSUME IInv, [Next]_vars, NEW k \in Variants, db.variants[k] # NoRow,
             db.variants[k].live, Takes(db.variants[k].digest)
      PROVE  /\ ~\E i \in Ids, x \in Variants, p \in Priorities :
                    p < db.variants[k].priority /\ Reserve(i, x, p)
             /\ db.variants[k].priority = 0 \/ ~EvictLowPriority
  BY <1>1, ReserveSpares, EvictSpares
<1>2. IInv /\ [Next]_vars =>
         [\A k \in Variants :
            (db.variants[k] # NoRow /\ db.variants[k].live
                /\ Takes(db.variants[k].digest)) =>
              /\ ~\E i \in Ids, x \in Variants, p \in Priorities :
                     p < db.variants[k].priority /\ Reserve(i, x, p)
              /\ db.variants[k].priority = 0 \/ ~EvictLowPriority]_vars
  BY <1>1
<1> QED
  BY <1>2, AlwaysIInv, PTL DEF Spec, TierRespected
=============================================================================
