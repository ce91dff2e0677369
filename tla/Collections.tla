---------------------------- MODULE Collections ----------------------------
(***************************************************************************)
(* Collection snapshots of one library: internal/sync/collections.go and   *)
(* the collection loops of sync.go.                                        *)
(*                                                                         *)
(* A scan reads the catalog of collections page by page and, for each one, *)
(* its ordered members page by page, into snapshots of a fresh generation. *)
(* When everything was read, one transaction publishes the generation,     *)
(* drops the collections it does not have, and records that the cached     *)
(* collection responses must be invalidated; the invalidation itself (a    *)
(* generation bump, see Generations) happens after the commit and is       *)
(* cleared last.  A single collection can be refreshed in the same way.    *)
(*                                                                         *)
(* The content hash is a function of the members, so members stand for it. *)
(* Snapshot generations come from a sequence and are compared for equality *)
(* only: a fresh one is any value no row holds.                            *)
(***************************************************************************)
EXTENDS Integers, Sequences, FiniteSets, SequencesExt, FiniteSetsExt

CONSTANTS Colls,         \* collection rating keys
          Members,       \* item rating keys
          PageSize,      \* collectionPageSize
          InitCatalog, InitMembers,
          MaxStaged,     \* bound on the snapshots that failed refreshes of one
                         \* collection leave behind
          MaxChanges, MaxFails

CollectionConstants ==
    /\ PageSize \in Nat \ {0}
    /\ MaxStaged \in Nat /\ MaxChanges \in Nat /\ MaxFails \in Nat

VARIABLES
    catalog,    \* PMS: the sequence of collections
    members,    \* PMS: collection -> sequence of members
    reports,    \* whether this PMS build reports totalSize
    rows,       \* library_collections: published and catalog generations
    snaps,      \* collection_snapshots: <<collection, generation>> -> snapshot
    pending,    \* library_collection_syncs.invalidation_pending
    done,       \* ... last_completed_at IS NOT NULL
    dirty,      \* Worker.collectionsDirty
    scan,       \* the scan in flight
    covered,    \* history: what was published when the cache was last bumped
    changes, fails

vars == <<catalog, members, reports, rows, snaps, pending, done, dirty, scan,
          covered, changes, fails>>
pms == <<catalog, members, reports>>
store == <<rows, snaps, pending, done>>

NoGen == 0
Gens == 1 .. (2 * Cardinality(Colls) + MaxStaged + MaxChanges + MaxFails + 1)
Unknown == -1
NoColl == "none"

\* A paging loop: offset, expected total, keys seen.
Start == [at |-> 0, total |-> Unknown, seen |-> <<>>]

Idle == [phase |-> "idle", one |-> FALSE, gen |-> NoGen, cat |-> Start,
         queue |-> <<>>, last |-> FALSE, coll |-> NoColl, kids |-> Start,
         quiet |-> TRUE, misled |-> FALSE, sawEmpty |-> FALSE]

Published == [c \in {d \in DOMAIN rows : rows[d].pub # NoGen} |->
                 snaps[<<c, rows[c].pub>>].list]

TypeOK ==
    /\ catalog \in Seq(Colls)
    /\ \A c \in Colls : members[c] \in Seq(Members)
    /\ DOMAIN rows \subseteq Colls
    /\ \A c \in DOMAIN rows : rows[c] \in [pub : Gens \cup {NoGen}, cat : Gens \cup {NoGen}]
    /\ \A k \in DOMAIN snaps :
          /\ k \in (DOMAIN rows) \X Gens
          /\ snaps[k].list \in Seq(Members) /\ snaps[k].complete \in BOOLEAN
    /\ pending \in BOOLEAN /\ done \in BOOLEAN /\ dirty \in BOOLEAN
    /\ scan.phase \in {"idle", "catalog", "stage", "kids", "publish", "pending", "clear"}
    /\ changes \in 0 .. MaxChanges /\ fails \in 0 .. MaxFails

Init ==
    /\ catalog = InitCatalog /\ members = InitMembers /\ reports \in BOOLEAN
    /\ rows = <<>> /\ snaps = <<>> /\ pending = FALSE /\ done = FALSE
    /\ dirty = FALSE /\ scan = Idle /\ covered = <<>>
    /\ changes = 0 /\ fails = 0

----------------------------------------------------------------------------
(* PMS.  Its answers are honest, or (bounded) one of the two wrong ones    *)
(* the code is written against.                                            *)

Changing ==
    /\ changes < MaxChanges /\ changes' = changes + 1
    /\ scan' = [scan EXCEPT !.quiet = FALSE]
    /\ UNCHANGED <<reports, store, dirty, covered, fails>>

ChangeCatalog ==
    /\ \E c \in Colls :
          catalog' = IF Contains(catalog, c) THEN Remove(catalog, c)
                     ELSE Append(catalog, c)
    /\ UNCHANGED members /\ Changing

ChangeMembers ==
    /\ \E c \in ToSet(catalog), i \in Members :
          members' = [members EXCEPT ![c] =
              IF Contains(@, i) THEN Remove(@, i) ELSE Append(@, i)]
    /\ UNCHANGED catalog /\ Changing

Answer(list, at) ==
    [items |-> SubSeq(list, at + 1, Min({at + PageSize, Len(list)})),
     total |-> IF reports THEN Len(list) ELSE Unknown, wrong |-> FALSE]

\* An empty container, or the first page again with no offset to show it.
WrongAnswers(list) ==
    {[items |-> <<>>, total |-> Unknown, wrong |-> TRUE],
     [Answer(list, 0) EXCEPT !.wrong = TRUE]}

Answers(list, at) ==
    {Answer(list, at)} \cup IF fails < MaxFails THEN WrongAnswers(list) ELSE {}

Count(a) == fails' = IF a.wrong THEN fails + 1 ELSE fails

----------------------------------------------------------------------------
(* Paging.                                                                 *)

\* Mutant: totals that change from page to page are accepted.
PageVerdictTrusting(l, n, t) ==
    CASE l.total = Unknown /\ t = Unknown -> IF n < PageSize THEN "done" ELSE "more"
      [] OTHER -> IF l.at + n = Max({l.total, t}) THEN "done"
                  ELSE IF n = 0 THEN "error" ELSE "more"

\* collectionPageComplete: "error", "more" or "done" for a page of n items
\* read at loop l with the advertised total t.
collectionPageComplete(l, n, t) ==
    CASE t # Unknown /\ l.total # Unknown /\ l.total # t -> "error"
      [] t # Unknown /\ n > t - l.at -> "error"
      [] t = Unknown /\ l.total # Unknown -> "error"
      [] l.at = 0 /\ n = 0 /\ t # 0 -> "error"
      [] t = Unknown -> IF n < PageSize THEN "done" ELSE "more"
      [] OTHER -> IF l.at + n = t THEN "done" ELSE IF n = 0 THEN "error" ELSE "more"

Repeats(l, items) == \E k \in DOMAIN items : Contains(l.seen, items[k])

\* The checks, in their order: the page, then each key it brings.
Verdict(l, a) ==
    IF Repeats(l, a.items) THEN "error"
    ELSE collectionPageComplete(l, Len(a.items), a.total)

Advance(l, a) ==
    [at |-> l.at + Len(a.items), total |-> a.total, seen |-> l.seen \o a.items]

----------------------------------------------------------------------------
(* A scan.                                                                 *)

FreshGen == Min(Gens \ ({k[2] : k \in DOMAIN snaps} \cup {rows[c].pub : c \in DOMAIN rows}
                          \cup {rows[c].cat : c \in DOMAIN rows}))

\* MarkCollectionsDirty, from a collection refresh event or a failed scan.
MarkCollectionsDirty ==
    /\ dirty' = TRUE
    /\ UNCHANGED <<pms, store, scan, covered, changes, fails>>

\* The collection loop reaches the library: on a full pass, on the admin's
\* request, when it is dirty or was never synced.
Begin(asked) ==
    /\ scan.phase = "idle" /\ (asked \/ dirty \/ ~done)
    /\ scan' = [Idle EXCEPT !.phase = "catalog", !.gen = FreshGen]
    /\ UNCHANGED <<pms, store, dirty, covered, changes, fails>>

\* SyncCollectionOnce: one published collection.
BeginOne(c) ==
    /\ scan.phase = "idle" /\ c \in DOMAIN rows /\ rows[c].pub # NoGen
    /\ Cardinality(DOMAIN snaps) < MaxStaged
    /\ scan' = [Idle EXCEPT !.phase = "stage", !.one = TRUE, !.gen = FreshGen,
                            !.queue = <<c>>, !.last = TRUE]
    /\ UNCHANGED <<pms, store, dirty, covered, changes, fails>>

\* Errors end the scan; a library scan marks the section dirty again.
Stop ==
    /\ scan' = Idle
    /\ dirty' = IF scan.one THEN dirty ELSE TRUE

CatalogPage ==
    /\ scan.phase = "catalog"
    /\ \E a \in Answers(catalog, scan.cat.at) :
         /\ Count(a)
         /\ LET verdict == Verdict(scan.cat, a) IN
              IF verdict = "error" THEN Stop
              ELSE /\ scan' = [scan EXCEPT !.cat = Advance(@, a), !.queue = a.items,
                                 !.last = verdict = "done", !.phase = "stage",
                                 !.misled = @ \/ a.wrong,
                                 !.sawEmpty = @ \/ catalog = <<>>]
                   /\ UNCHANGED dirty
    /\ UNCHANGED <<pms, store, covered, changes>>

\* stageCollection: the catalog row if it is new, and an open snapshot.
StageBegin ==
    /\ scan.phase = "stage" /\ scan.queue # <<>>
    /\ LET c == Head(scan.queue) IN
         /\ rows' = IF c \in DOMAIN rows THEN rows
                    ELSE [d \in DOMAIN rows \cup {c} |->
                             IF d = c THEN [pub |-> NoGen, cat |-> NoGen] ELSE rows[d]]
         /\ snaps' = [k \in DOMAIN snaps \cup {<<c, scan.gen>>} |->
                         IF k = <<c, scan.gen>> THEN [list |-> <<>>, complete |-> FALSE]
                         ELSE snaps[k]]
         /\ scan' = [scan EXCEPT !.phase = "kids", !.coll = c, !.kids = Start,
                                 !.queue = Tail(@)]
    /\ UNCHANGED <<pms, pending, done, dirty, covered, changes, fails>>

\* A page of members; the last one completes the snapshot.
KidsPage ==
    /\ scan.phase = "kids"
    /\ LET k == <<scan.coll, scan.gen>> IN
       \E a \in Answers(members[scan.coll], scan.kids.at) :
         /\ Count(a)
         /\ LET verdict == Verdict(scan.kids, a) IN
              IF verdict = "error" \/ ~Contains(catalog, scan.coll)
              THEN Stop /\ UNCHANGED snaps
              ELSE /\ snaps' = [snaps EXCEPT ![k] =
                         [list |-> @.list \o a.items, complete |-> verdict = "done"]]
                   /\ scan' = [scan EXCEPT !.kids = Advance(@, a), !.misled = @ \/ a.wrong,
                                 !.phase = IF verdict = "done" THEN "stage" ELSE "kids"]
                   /\ UNCHANGED dirty
    /\ UNCHANGED <<pms, rows, pending, done, covered, changes>>

\* The catalog page is staged: the next page, or publication.
StageEnd ==
    /\ scan.phase = "stage" /\ scan.queue = <<>>
    /\ scan' = [scan EXCEPT !.phase = IF scan.last THEN "publish" ELSE "catalog"]
    /\ UNCHANGED <<pms, store, dirty, covered, changes, fails>>

\* Whether collection c's staged content differs from its published one.
Differs(c) ==
    rows[c].pub = NoGen \/ snaps[<<c, scan.gen>>].list # snaps[<<c, rows[c].pub>>].list

Staged == {c \in DOMAIN rows : <<c, scan.gen>> \in DOMAIN snaps}

Changed == \E c \in DOMAIN rows : c \notin Staged \/ Differs(c)

\* Mutant: a publication replaces the invalidations still owed.
PendingOverwritten(changed) == changed

PendingAfter(changed) == pending \/ changed

PublishRows(c) ==
    [pub |-> IF Differs(c) THEN scan.gen ELSE rows[c].pub, cat |-> scan.gen]

KeepPublished(rs) ==
    [k \in {j \in DOMAIN snaps : j[1] \in DOMAIN rs /\ rs[j[1]].pub = j[2]} |-> snaps[k]]

\* publishCollections, the transaction.
publishCollections ==
    /\ scan.phase = "publish" /\ ~scan.one
    /\ rows' = [c \in Staged |-> PublishRows(c)]
    /\ snaps' = KeepPublished(rows')
    /\ pending' = PendingAfter(Changed)
    /\ done' = TRUE
    /\ scan' = [scan EXCEPT !.phase = "pending"]
    /\ UNCHANGED <<pms, dirty, covered, changes, fails>>

\* publishOneCollection, the transaction: siblings keep their snapshots.
publishOneCollection ==
    /\ scan.phase = "publish" /\ scan.one
    /\ LET c == scan.coll IN
         /\ rows' = [rows EXCEPT ![c].pub = IF Differs(c) THEN scan.gen ELSE @]
         /\ snaps' = [k \in {j \in DOMAIN snaps : j[1] # c \/ rows'[c].pub = j[2]} |-> snaps[k]]
         /\ pending' = PendingAfter(Differs(c))
    /\ scan' = [scan EXCEPT !.phase = "pending"]
    /\ UNCHANGED <<pms, done, dirty, covered, changes, fails>>

\* The scan is over and succeeded: clearCollectionsDirty.
Succeed ==
    /\ scan' = Idle
    /\ dirty' = IF scan.one THEN dirty ELSE FALSE

\* Mutant: the invalidation that is owed is never sent.
FlushNever ==
    /\ scan.phase = "pending"
    /\ Succeed
    /\ UNCHANGED <<pms, store, covered, changes, fails>>

\* flushCollectionInvalidation: read the flag and bump the cache generation.
flushCollectionInvalidation ==
    /\ scan.phase = "pending"
    /\ IF pending
       THEN /\ covered' = Published
            /\ scan' = [scan EXCEPT !.phase = "clear"]
            /\ UNCHANGED dirty
       ELSE Succeed /\ UNCHANGED covered
    /\ UNCHANGED <<pms, store, changes, fails>>

ClearPending ==
    /\ scan.phase = "clear"
    /\ pending' = FALSE
    /\ Succeed
    /\ UNCHANGED <<pms, rows, snaps, done, covered, changes, fails>>

\* A request, a statement, a commit or the bump fails.
Fail ==
    /\ scan.phase # "idle" /\ fails < MaxFails /\ fails' = fails + 1
    /\ Stop
    /\ UNCHANGED <<pms, store, covered, changes>>

\* The process stops: marks are lost with it.
Crash ==
    /\ fails < MaxFails /\ fails' = fails + 1
    /\ scan' = Idle /\ dirty' = FALSE
    /\ UNCHANGED <<pms, store, covered, changes>>

Worker ==
    \/ CatalogPage \/ StageBegin \/ KidsPage \/ StageEnd
    \/ publishCollections \/ publishOneCollection
    \/ flushCollectionInvalidation \/ ClearPending

Next ==
    \/ ChangeCatalog \/ ChangeMembers
    \/ MarkCollectionsDirty
    \/ \E asked \in BOOLEAN : Begin(asked)
    \/ \E c \in Colls : BeginOne(c)
    \/ Worker \/ Fail \/ Crash

Spec == Init /\ [][Next]_vars

----------------------------------------------------------------------------
(* Properties.  A formula with primed variables is about every step.       *)

\* Every published generation is a snapshot that is there and was read to its
\* end: neither pruning nor a failed scan or crash leaves a collection
\* pointing at missing or partial members.
PublishedComplete ==
    \A c \in DOMAIN rows : rows[c].pub # NoGen =>
        /\ <<c, rows[c].pub>> \in DOMAIN snaps
        /\ snaps[<<c, rows[c].pub>>].complete
        /\ IsInjective(snaps[<<c, rows[c].pub>>].list)

\* "A pending invalidation survives a crash between DB publication and cache
\* invalidation": whenever what is published differs from what was published
\* at the last bump, the flag is up.
InvalidationOwed == Published # covered => pending

\* Publishing a library during a scan in which PMS did not change publishes
\* what PMS lists: all collections, all members, in order.  With totals this
\* holds even if some answers were wrong; a build without them has to answer
\* every page correctly, since a short page ends the list.
PublishesWhatIsListed ==
    (publishCollections /\ scan.quiet /\ (reports \/ ~scan.misled)) =>
          /\ DOMAIN Published' = ToSet(catalog)
          /\ \A c \in DOMAIN Published' : Published'[c] = members[c]

\* The published catalog is emptied only by a scan that PMS gave an empty
\* catalog to when it was empty: an answer without a total never erases it.
NeverErasedByMistake ==
    (DOMAIN Published # {} /\ DOMAIN Published' = {}) => scan.sawEmpty

\* A server the scan can read to its end: one that reports totals, or has no
\* empty list (an empty list without a total is refused as ambiguous).
Readable ==
    \/ reports
    \/ catalog # <<>> /\ \A c \in ToSet(catalog) : members[c] # <<>>
============================================================================
