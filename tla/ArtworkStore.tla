---------------------------- MODULE ArtworkStore ----------------------------
(***************************************************************************)
(* The shared, content-addressed artwork store (internal/artwork/shared.go *)
(* and operations.go): rows in Postgres, files on disk.                    *)
(*                                                                         *)
(* Every operation runs inside one transaction that holds the row lock of  *)
(* the store, exclusively for a writer, so the operations of the model are *)
(* atomic for each other.  They are not atomic for failures: a transaction *)
(* that rolls back, or whose process dies, undoes its rows and keeps what  *)
(* it did to the files.  An action that fails therefore leaves `db' alone  *)
(* and moves `fs' by the file operations it had already made.              *)
(*                                                                         *)
(* Deadlines are a `live' flag that an Expire step clears.  Recency of use *)
(* only orders victims of one tier, so the victim is any of them.          *)
(***************************************************************************)
EXTENDS Integers, FiniteSets, FiniteSetsExt

CONSTANTS
    Variants, Digests, None,
    Ids,                \* reservation identifiers, one per transfer
    Priorities,         \* the retention tiers in use, a subset of 0..3
    Size,               \* the bytes of each content
    MaxBody, VariantOverhead, BlobOverhead,
    MaxBytes, LowWatermark, ProtectedBytes, MaxReservations,
    MinFree, Disk,      \* the filesystem's floor and its size
    Batch,              \* rows handled by one maintenance query (128)
    OldBytes            \* flat-cache files found below the directory

ASSUME SizeAssumption == Size \in [Digests -> 1..MaxBody]
ASSUME LimitAssumption ==
    /\ {MaxBody, VariantOverhead, BlobOverhead, MaxBytes, LowWatermark,
        ProtectedBytes, MinFree, Disk, OldBytes} \subseteq Nat
    /\ LowWatermark <= MaxBytes
    /\ ProtectedBytes <= MaxBytes
    /\ MaxReservations \in Nat \ {0} /\ Batch \in Nat \ {0}
    /\ Priorities \subseteq 0..3
    /\ None \notin Digests

Protected == 3
ReservationBytes == MaxBody + VariantOverhead + BlobOverhead

VARIABLES
    db,         \* the committed rows: blobs, variants, reservations, and the
                \* files untracked_bytes counts (blob files, old files)
    fs,         \* the directory: blob files, temporary files, old files
    ready,      \* this process has completed a recovery
    transfer,   \* the Reservation objects held by requests
    served      \* what the read of the last step returned

vars == <<db, fs, ready, transfer, served>>

NoRow == [kind |-> "none"]
VariantRow == [kind : {"row"}, digest : Digests, priority : Priorities, live : BOOLEAN]
ReservationRow == [kind : {"row"}, candidate : Digests \cup {None},
                   priority : Priorities, live : BOOLEAN]
Idle == [pc |-> "idle"]
Transfer == [pc : {"reserved", "staged", "failed"}, key : Variants,
             digest : Digests \cup {None}, priority : Priorities]

TypeOK ==
    /\ db \in [blobs : SUBSET Digests,
               variants : [Variants -> VariantRow \cup {NoRow}],
               res : [Ids -> ReservationRow \cup {NoRow}],
               stray : SUBSET Digests, oldCounted : {0, OldBytes}]
    /\ fs \in [files : [Digests -> {"absent", "good", "bad"}],
               tmp : [Ids -> Digests \cup {None}],
               old : {0, OldBytes}]
    /\ ready \in BOOLEAN
    /\ transfer \in [Ids -> Transfer \cup {Idle}]
    /\ served \in {None} \cup (Variants \X Digests)

Init ==
    /\ db = [blobs |-> {}, variants |-> [k \in Variants |-> NoRow],
             res |-> [i \in Ids |-> NoRow],
             stray |-> {}, oldCounted |-> 0]
    /\ fs = [files |-> [d \in Digests |-> "absent"],
             tmp |-> [i \in Ids |-> None], old |-> OldBytes]
    /\ ready = FALSE
    /\ transfer = [i \in Ids |-> Idle]
    /\ served = None

----------------------------------------------------------------------------
(* Accounting: the numbers stats reads, for given rows and files.           *)

SizeOf(D) == MapThenSumSet(LAMBDA d : Size[d], D)
Rows(f) == {x \in DOMAIN f : f[x] # NoRow}
Reserved(b) == Cardinality(Rows(b.res)) * ReservationBytes
Untracked(b) == SizeOf(b.stray) + b.oldCounted

Total(b) ==
    SizeOf(b.blobs) + Cardinality(b.blobs) * BlobOverhead
        + Cardinality(Rows(b.variants)) * VariantOverhead
        + Reserved(b) + Untracked(b)

LiveRefs(b, d) ==
    {k \in Rows(b.variants) : b.variants[k].live /\ b.variants[k].digest = d}

\* Mutant: any one live reference decides the tier of a shared blob.
TierOfSomeReference(b, d) ==
    IF LiveRefs(b, d) = {} THEN 0
    ELSE Min({b.variants[k].priority : k \in LiveRefs(b, d)})

Tier(b, d) == Max({0} \cup {b.variants[k].priority : k \in LiveRefs(b, d)})

ProtectedTotal(b) ==
    LET refs(d) == {k \in LiveRefs(b, d) : b.variants[k].priority = Protected}
        held == {d \in b.blobs : refs(d) # {}}
    IN  SizeOf(held) + Cardinality(held) * BlobOverhead
        + Cardinality(UNION {refs(d) : d \in b.blobs}) * VariantOverhead
        + Cardinality({i \in Rows(b.res) : b.res[i].priority = Protected})
            * ReservationBytes

Present(f) == {d \in Digests : f.files[d] # "absent"}
TmpBytes(f) == MapThenSumSet(LAMBDA i : IF f.tmp[i] = None THEN 0 ELSE Size[f.tmp[i]], Ids)
OnDisk(f) == SizeOf(Present(f)) + TmpBytes(f) + f.old
Free(f) == Disk - OnDisk(f)

----------------------------------------------------------------------------
(* Building blocks of a transaction, on rows b and files f.                 *)

WithoutFiles(f, D) ==
    [f EXCEPT !.files = [d \in Digests |-> IF d \in D THEN "absent" ELSE @[d]]]

\* Deleting a blob row cascades to the variants that reference it.
DropBlobs(b, D) ==
    [b EXCEPT !.blobs = @ \ D,
              !.variants = [k \in Variants |->
                  IF @[k] # NoRow /\ @[k].digest \in D THEN NoRow ELSE @[k]]]

DropVariants(b, K) ==
    [b EXCEPT !.variants = [k \in Variants |-> IF k \in K THEN NoRow ELSE @[k]]]

Expired(rows) == {x \in Rows(rows) : ~rows[x].live}
Unreferenced(b) ==
    {d \in b.blobs : \A k \in Rows(b.variants) : b.variants[k].digest # d}

\* Mutant: releasing a reservation forgets the candidate it may have published.
ReleaseFilesTmpOnly(b, f, I) ==
    [f EXCEPT !.tmp = [i \in Ids |-> IF i \in I THEN None ELSE @[i]]]

\* The files releaseReservation removes for the reservations I.
ReleaseFiles(b, f, I) ==
    LET held == {i \in I : b.res[i] # NoRow}
        orphans == {b.res[i].candidate : i \in held} \ ({None} \cup b.blobs)
    IN  WithoutFiles(
            [f EXCEPT !.tmp = [i \in Ids |-> IF i \in I THEN None ELSE @[i]]],
            orphans)

ReleaseRows(b, I) ==
    [b EXCEPT !.res = [i \in Ids |-> IF i \in I THEN NoRow ELSE @[i]]]

\* One batch of expired variants, at most Batch rows.
PruneBatches(b) ==
    LET all == Expired(b.variants)
    IN  {K \in SUBSET all : Cardinality(K) = Min({Batch, Cardinality(all)})}

----------------------------------------------------------------------------
(* makeRoom.                                                                *)

\* Mutant: admission ignores the bytes already promised to other transfers.
RoomWithoutReserved(b0, b, f, need, pneed) ==
    /\ Total(b) - Reserved(b) + need <= MaxBytes
    /\ pneed = 0 \/ ProtectedTotal(b) + pneed <= ProtectedBytes

\* Is there room, where b0 is the state makeRoom started from?
Room(b0, b, f, need, pneed) ==
    LET pressure == Total(b0) + need > MaxBytes
        target == Min({LowWatermark, MaxBytes - need})
    IN  /\ Total(b) + need <= MaxBytes
        /\ pressure => Total(b) <= target
        /\ Free(f) >= MinFree + Reserved(b) + need
        /\ pneed = 0 \/ ProtectedTotal(b) + pneed <= ProtectedBytes

Evictable(b, p) == {d \in b.blobs : Tier(b, d) <= p}

\* The sets of blobs one call may have looked at: lower tiers first.
Looked(b, p) ==
    {K \in SUBSET Evictable(b, p) :
        /\ Cardinality(K) <= Batch
        /\ \A d \in K, e \in Evictable(b, p) \ K : Tier(b, d) <= Tier(b, e)}

\* The sets a call may remove, with the verdict it returns.  A blob whose
\* file cannot be removed is skipped; the first removal that makes room ends
\* the call.
MakeRoom(b, f, p, need, pneed) ==
    LET fits(D) == Room(b, DropBlobs(b, D), WithoutFiles(f, D), need, pneed)
        enough == {<<D, TRUE>> : D \in
            {D \in UNION {SUBSET K : K \in Looked(b, p)} :
                /\ fits(D)
                /\ \E d \in D : ~fits(D \ {d}) /\ \A e \in D : Tier(b, e) <= Tier(b, d)}}
        short == {<<D, FALSE>> : D \in
            {D \in UNION {SUBSET K : K \in
                {K \in Looked(b, p) : Cardinality(K) =
                    Min({Batch, Cardinality(Evictable(b, p))})}} : ~fits(D)}}
    IN  IF fits({}) THEN {<<{}, TRUE>>} ELSE enough \cup short

----------------------------------------------------------------------------
(* Steps that commit or roll back.  A rollback keeps the rows.              *)

Commit(b, f) == db' = b /\ fs' = f

Rollback(f) == fs' = f /\ UNCHANGED db

\* What cleanExpired leaves, and what it may leave when it stops half-way.
Cleaned(b) == ReleaseRows(b, Expired(b.res))
CleanedFiles == ReleaseFiles(db, fs, Expired(db.res))
PartlyCleaned == {ReleaseFiles(db, fs, I) : I \in SUBSET Expired(db.res)}

(* Reserve: clean up, make room, book the largest possible transfer.        *)
Reserve(i, k, p) ==
    /\ ready
    /\ transfer[i] = Idle /\ db.res[i] = NoRow /\ fs.tmp[i] = None
    /\ served' = None /\ UNCHANGED ready
    /\ \/ /\ \E f \in PartlyCleaned : Rollback(f)
          /\ UNCHANGED transfer
       \/ \E K \in PruneBatches(db) :
            LET b == DropVariants(Cleaned(db), K)
                pneed == IF p = Protected THEN ReservationBytes ELSE 0
            IN  \/ /\ Cardinality(Rows(b.res)) >= MaxReservations
                   /\ Rollback(CleanedFiles) /\ UNCHANGED transfer
                \/ /\ Cardinality(Rows(b.res)) < MaxReservations
                   /\ \E out \in MakeRoom(b, CleanedFiles, p, ReservationBytes, pneed) :
                        LET b2 == DropBlobs(b, out[1])
                            f2 == WithoutFiles(CleanedFiles, out[1])
                            row == [kind |-> "row", candidate |-> None,
                                    priority |-> p, live |-> TRUE]
                        IN  \/ Rollback(f2) /\ UNCHANGED transfer
                            \/ /\ ~out[2]          \* keep completed evictions
                               /\ Commit(b2, f2) /\ UNCHANGED transfer
                            \/ /\ out[2]
                               /\ Commit([b2 EXCEPT !.res[i] = row], f2)
                               /\ transfer' = [transfer EXCEPT ![i] =
                                    [pc |-> "reserved", key |-> k,
                                     digest |-> None, priority |-> p]]

(* Reservation.Commit, first transaction: own the possible orphan.          *)
Stage(i, d) ==
    /\ transfer[i].pc = "reserved"
    /\ db.res[i] # NoRow /\ db.res[i].live
    /\ Commit([db EXCEPT !.res[i].candidate = d], fs)
    /\ transfer' = [transfer EXCEPT ![i].pc = "staged", ![i].digest = d]
    /\ served' = None /\ UNCHANGED ready

\* Mutant: the previous blob of the key is removed although shared.
PreviousOfShared(b, k, d) ==
    {b.variants[x].digest : x \in {k} \cap Rows(b.variants)} \ {d}

\* The blob the key referenced before, when nothing references it any more.
Previous(b, k, d) ==
    {e \in {b.variants[x].digest : x \in {k} \cap Rows(b.variants)} \ {d} :
        \A x \in Rows(b.variants) \ {k} : b.variants[x].digest # e}

\* The rows a publication commits.
PublishedRows(i) ==
    LET t == transfer[i]
        was == db.variants[t.key]
        row == [kind |-> "row", digest |-> t.digest, live |-> TRUE,
                priority |-> IF was = NoRow THEN t.priority
                             ELSE Max({was.priority, t.priority})]
        b == [db EXCEPT !.blobs = @ \cup {t.digest},
                        !.variants[t.key] = row, !.res[i] = NoRow]
    IN  DropBlobs(b, Previous(db, t.key, t.digest))

\* The second transaction of a Commit reads the reservation again.
StillHeld(i) ==
    /\ db.res[i] # NoRow /\ db.res[i].live
    /\ db.res[i].candidate = transfer[i].digest

(* Reservation.Commit, second transaction: write the temporary file, rename *)
(* it, insert the rows, remove the previous blob, commit.  A file that is   *)
(* already there and matches its digest is kept and the temporary one goes. *)
Publish(i) ==
    /\ transfer[i].pc = "staged"
    /\ served' = None /\ UNCHANGED ready
    /\ LET d == transfer[i].digest
           written == [fs EXCEPT !.tmp[i] = d]
           renamed == [fs EXCEPT !.files[d] = "good"]
           previous == Previous(db, transfer[i].key, d)
           failed == transfer' = [transfer EXCEPT ![i].pc = "failed"]
       IN  \/ Rollback(fs) /\ failed       \* expired, no space, or an error
           \/ /\ StillHeld(i)
              /\ Free(fs) >= MinFree + Size[d]
              /\ \/ Rollback(written) /\ failed
                 \/ Rollback(renamed) /\ failed
                 \/ Rollback(WithoutFiles(renamed, previous)) /\ failed
                 \/ /\ Commit(PublishedRows(i), WithoutFiles(renamed, previous))
                    /\ transfer' = [transfer EXCEPT ![i] = Idle]
                 \/ /\ Commit(PublishedRows(i), WithoutFiles(renamed, previous))
                    /\ failed              \* committed, the answer was lost

(* Cancel, or the cleanup of a failed Commit: the reservation is released,  *)
(* or stays until it expires when the release fails.                        *)
Cancel(i) ==
    /\ transfer[i].pc \in {"reserved", "failed"}
    /\ transfer' = [transfer EXCEPT ![i] = Idle]
    /\ served' = None /\ UNCHANGED ready
    /\ \/ Commit(ReleaseRows(db, {i}), ReleaseFiles(db, fs, {i}))
       \/ \E f \in {fs, ReleaseFiles(db, fs, {i})} : Rollback(f)

(* GetContext: a hit; a miss changes nothing.                               *)
Get(k) ==
    /\ ready /\ db.variants[k] # NoRow /\ db.variants[k].live
    /\ fs.files[db.variants[k].digest] = "good"
    /\ served' = <<k, db.variants[k].digest>>
    /\ UNCHANGED <<db, fs, ready, transfer>>

(* EvictLowPriority, the operator's action.                                 *)
EvictLowPriority ==
    /\ ready
    /\ served' = None /\ UNCHANGED <<ready, transfer>>
    /\ \E D \in SUBSET {d \in db.blobs : Tier(db, d) = 0} :
          /\ Cardinality(D) <= Batch
          /\ \/ Rollback(WithoutFiles(fs, D))
             \/ /\ Cardinality(D) = Min({Batch, Cardinality(
                        {d \in db.blobs : Tier(db, d) = 0})})
                /\ Commit(DropBlobs(db, D), WithoutFiles(fs, D))

(* sweep: routine maintenance.                                              *)
SweepFails ==
    /\ ready
    /\ served' = None /\ UNCHANGED <<ready, transfer>>
    /\ \/ \E f \in PartlyCleaned : Rollback(f)
       \/ \E K \in PruneBatches(db) :
            \E D \in SUBSET Unreferenced(DropVariants(db, K)) :
                Rollback(WithoutFiles(CleanedFiles, D))

\* Mutant: maintenance does not look at expired reservations.
SweepWithoutCleaning ==
    /\ ready
    /\ served' = None /\ UNCHANGED <<ready, transfer>>
    /\ \E K \in PruneBatches(db) :
          LET b == DropVariants(db, K)
              D == Unreferenced(b)
          IN  Commit(DropBlobs(b, D), WithoutFiles(fs, D))

SweepCommits ==
    /\ ready
    /\ served' = None /\ UNCHANGED <<ready, transfer>>
    /\ \E K \in PruneBatches(db) :
          LET b == DropVariants(Cleaned(db), K)
              D == Unreferenced(b)
              b2 == DropBlobs(b, D)
              f2 == WithoutFiles(CleanedFiles, D)
              over == \/ Total(b2) > MaxBytes
                      \/ Free(f2) < MinFree + Reserved(b2)
              rooms == IF over THEN MakeRoom(b2, f2, Protected, 0, 0)
                               ELSE {<<{}, TRUE>>}
          IN  \E out \in rooms :
                Commit(DropBlobs(b2, out[1]), WithoutFiles(f2, out[1]))

\* The rows recovery starts its walk of the directory from.
Pruned(b) == DropVariants(b, Expired(b.variants))
Settled(b) == DropBlobs(b, Unreferenced(b))

(* recover: reconcile rows and files after a crash.  A file that belongs to *)
(* no row and to no reservation is removed, or counted when it cannot be.   *)
RecoverFails ==
    /\ ready' = FALSE /\ served' = None /\ UNCHANGED transfer
    /\ \/ \E f \in PartlyCleaned : Rollback(f)
       \/ \E D \in SUBSET Unreferenced(Pruned(db)) :
            Rollback(WithoutFiles(CleanedFiles, D))

Stray(b, f) ==
    Present(f) \ (b.blobs \cup {b.res[i].candidate : i \in Rows(b.res)})

RecoverCommits(stuck) ==
    LET b == Settled(Pruned(Cleaned(db)))
        f == WithoutFiles(CleanedFiles, Unreferenced(Pruned(Cleaned(db))))
        tidy == [WithoutFiles(f, Stray(b, f) \ stuck) EXCEPT !.tmp =
                    [i \in Ids |-> IF b.res[i] = NoRow THEN None ELSE @[i]]]
        missing == b.blobs \ Present(tidy)
    IN  /\ stuck \subseteq Stray(b, f)
        /\ Commit([DropBlobs(b, missing) EXCEPT !.stray = stuck, !.oldCounted = f.old], tidy)
        /\ ready' = TRUE /\ served' = None /\ UNCHANGED transfer

----------------------------------------------------------------------------
(* Time, crashes and the outside world.                                     *)

\* Two minutes, or seven days, have passed.
ExpireReservation(i) ==
    /\ db.res[i] # NoRow /\ db.res[i].live
    /\ db' = [db EXCEPT !.res[i].live = FALSE]
    /\ served' = None /\ UNCHANGED <<fs, ready, transfer>>

ExpireVariant(k) ==
    /\ db.variants[k] # NoRow /\ db.variants[k].live
    /\ db' = [db EXCEPT !.variants[k].live = FALSE]
    /\ served' = None /\ UNCHANGED <<fs, ready, transfer>>

\* The process dies: Reservation objects and `ready' are lost, nothing else.
Crash ==
    /\ ready
    /\ ready' = FALSE /\ transfer' = [i \in Ids |-> Idle] /\ served' = None
    /\ UNCHANGED <<db, fs>>

\* A file is lost, or damaged in place, behind the store's back.
Damage(d) ==
    /\ fs.files[d] = "good"
    /\ \E v \in {"absent", "bad"} : fs' = [fs EXCEPT !.files[d] = v]
    /\ served' = None /\ UNCHANGED <<db, ready, transfer>>

\* The operator removes the flat-cache files of the previous version.
RemoveOld ==
    /\ fs.old # 0
    /\ fs' = [fs EXCEPT !.old = 0]
    /\ served' = None /\ UNCHANGED <<db, ready, transfer>>

Next ==
    \/ \E i \in Ids, k \in Variants, p \in Priorities : Reserve(i, k, p)
    \/ \E i \in Ids, d \in Digests : Stage(i, d)
    \/ \E i \in Ids : Publish(i)
    \/ \E i \in Ids : Cancel(i)
    \/ \E k \in Variants : Get(k)
    \/ EvictLowPriority
    \/ SweepFails
    \/ SweepCommits
    \/ RecoverFails
    \/ \E stuck \in SUBSET Digests : RecoverCommits(stuck)
    \/ \E i \in Ids : ExpireReservation(i)
    \/ \E k \in Variants : ExpireVariant(k)
    \/ Crash
    \/ \E d \in Digests : Damage(d)
    \/ RemoveOld

Spec == Init /\ [][Next]_vars

----------------------------------------------------------------------------
(* Properties.                                                              *)

\* A file of the store that nothing references is known to somebody who will
\* remove it: a reservation holds its digest, or recovery has counted it.
OrphansOwned ==
    ready => \A d \in Present(fs) :
        \/ d \in db.blobs \cup db.stray
        \/ \E i \in Rows(db.res) : db.res[i].candidate = d

\* Once the store has recovered, every file of it is owned, and every byte
\* below its directory is charged to something admission counts: a blob row, a
\* reservation, or the bytes recovery could not remove.  Publication renames
\* the file before its row commits, so this rests on the candidate recorded
\* beforehand and on a cleanup that frees a reservation only after its files
\* are gone.
DiskAccounted ==
    /\ OrphansOwned
    /\ ready => OnDisk(fs) <= SizeOf(db.blobs) + Reserved(db) + Untracked(db)

\* The rows and the outstanding reservations never exceed the byte budget,
\* whatever mixture of admissions, publications, evictions and failures led
\* here: a publication costs at most what its reservation had booked.
HardBudget == Total(db) - Untracked(db) <= MaxBytes

\* What a step takes away from readers: the row or the file of a blob.
Takes(d) == d \in db.blobs /\ (d \notin db'.blobs \/ fs'.files[d] # fs.files[d])

\* makeRoom `never evicts a higher tier for a lower-tier incoming image', and
\* a low alias never lets the operator's eviction take a shared blob.
TierRespected ==
    [][\A k \in Variants :
        (db.variants[k] # NoRow /\ db.variants[k].live /\ Takes(db.variants[k].digest)) =>
            /\ ~\E i \in Ids, x \in Variants, p \in Priorities :
                   p < db.variants[k].priority /\ Reserve(i, x, p)
            /\ db.variants[k].priority = 0 \/ ~EvictLowPriority]_vars

\* The store keeps the promise of ArtworkPromise: whatever is read under a
\* key is what was last published under that key, and nothing but a
\* publication of the key changes it.
Offered ==
    [k \in Variants |-> IF db.variants[k] # NoRow /\ db.variants[k].live
                        THEN db.variants[k].digest ELSE None]
Promise == INSTANCE ArtworkPromise WITH content <- Offered
KeepsPromise == Promise!Spec

\* A reservation is held: progress is that it does not stay so.
Holds(i) == db.res[i] # NoRow
=============================================================================
