----------------------------- MODULE MCProgress -----------------------------
(***************************************************************************)
(* What must happen in the end, component by component and side by side:   *)
(* browse requests, the reservations of the artwork store, the library and *)
(* its collections, and the Valkey client.                                 *)
(*                                                                         *)
(* The initial state chooses the component that moves; the variables of the *)
(* others rest.  The components share no variable, so a step of one commutes *)
(* with a step of another.  A behaviour of one component stays fair when the *)
(* steps of the others are taken out, and each fairness condition below is *)
(* about one component.                                                    *)
(***************************************************************************)
EXTENDS MCResponseCache

VARIABLES
    part,   \* the part that moves
    db, fs, ready, transfer, served,   \* ArtworkStore
    origin, announced, libs, index, cursor, dirty, pass, changes, fails,   \* LibrarySync
    catalog, members, reports, rows, snaps, owed, done, cDirty, scan, covered,   \* Collections
    cChanges, cFails,
    mem, executed, up, wire, back, dead, conn, holder, call, answer, calls   \* ValkeyClient

Shelves == [s1 |-> <<"i1", "i2">>]

Store == INSTANCE ArtworkStore
    WITH Variants <- {"key"}, Digests <- {"body"}, Size <- [body |-> 1], Ids <- {"one"},
         Priorities <- {0}, None <- None, MaxBody <- 2, VariantOverhead <- 1,
         BlobOverhead <- 1, MaxBytes <- 9, LowWatermark <- 8, ProtectedBytes <- 4,
         MaxReservations <- 2, MinFree <- 1, Disk <- 13, Batch <- 1, OldBytes <- 0

Sync == INSTANCE LibrarySync
    WITH Sections <- DOMAIN Shelves, Items <- {"i1", "i2"}, InitOrigin <- Shelves,
         PageSize <- 1, MaxChanges <- 1, MaxFails <- 1

Colls == INSTANCE Collections
    WITH Colls <- {"c1"}, Members <- {"i1", "i2"}, PageSize <- 1, MaxStaged <- 3,
         InitCatalog <- <<"c1">>, InitMembers <- [c1 |-> <<"i1", "i2">>],
         MaxChanges <- 1, MaxFails <- 1,
         pending <- owed, dirty <- cDirty, changes <- cChanges, fails <- cFails

Valkey == INSTANCE ValkeyClient
    WITH Callers <- Reader, Keys <- {"key"}, MaxCalls <- 2

-----------------------------------------------------------------------------
Rest == "rests"

StoreRests ==
    /\ db = Rest /\ fs = Rest /\ ready = Rest /\ transfer = Rest /\ served = Rest
SyncRests ==
    /\ origin = Rest /\ announced = Rest /\ libs = Rest /\ index = Rest /\ cursor = Rest
    /\ dirty = Rest /\ pass = Rest /\ changes = Rest /\ fails = Rest
CollsRests ==
    /\ catalog = Rest /\ members = Rest /\ reports = Rest /\ rows = Rest /\ snaps = Rest
    /\ owed = Rest /\ done = Rest /\ cDirty = Rest /\ scan = Rest /\ covered = Rest
    /\ cChanges = Rest /\ cFails = Rest
ValkeyRests ==
    /\ mem = Rest /\ executed = Rest /\ up = Rest /\ wire = Rest /\ back = Rest
    /\ dead = Rest /\ conn = Rest /\ holder = Rest /\ call = Rest /\ answer = Rest
    /\ calls = Rest

storeVars == <<db, fs, ready, transfer, served>>
syncVars == <<origin, announced, libs, index, cursor, dirty, pass, changes, fails>>
collectionsVars == <<catalog, members, reports, rows, snaps, owed, done, cDirty,
                     scan, covered, cChanges, cFails>>
valkeyVars == <<mem, executed, up, wire, back, dead, conn, holder, call, answer,
                calls>>

ProgressInit ==
    /\ part \in {"browsing", "store", "sync", "collections", "valkey"}
    /\ Init
    /\ IF part = "store" THEN Store!Init ELSE StoreRests
    /\ IF part = "sync" THEN Sync!Init ELSE SyncRests
    /\ IF part = "collections" THEN Colls!Init ELSE CollsRests
    /\ IF part = "valkey" THEN Valkey!Init ELSE ValkeyRests

ProgressNext ==
    \/ /\ part = "browsing" /\ Next
       /\ UNCHANGED <<part, storeVars, syncVars, collectionsVars, valkeyVars>>
    \/ /\ part = "store" /\ Store!Next
       /\ UNCHANGED <<part, vars, syncVars, collectionsVars, valkeyVars>>
    \/ /\ part = "sync" /\ Sync!Next
       /\ UNCHANGED <<part, vars, storeVars, collectionsVars, valkeyVars>>
    \/ /\ part = "collections" /\ Colls!Next
       /\ UNCHANGED <<part, vars, storeVars, syncVars, valkeyVars>>
    \/ /\ part = "valkey" /\ Valkey!Next
       /\ UNCHANGED <<part, vars, storeVars, syncVars, collectionsVars>>

progressVars == <<part, vars, storeVars, syncVars, collectionsVars, valkeyVars>>

ProgressSpec == ProgressInit /\ [][ProgressNext]_progressVars

\* A request's goroutine is always scheduled again, its calls to PMS and Valkey
\* carry timeouts, a Postgres statement ends at the latest with the request's
\* context, and waitForFlight gives up after two seconds.
BrowsingFair == \A r \in Reader : WF_vars(ReaderStep(r))

\* Deadlines of artwork reservations pass, and one of the two maintenance
\* transactions succeeds in the end: Run retries recovery every five seconds
\* and sweeps on a ticker.
ArtworkFair ==
    /\ WF_storeVars(part = "store" /\ Store!ExpireReservation("one"))
    /\ WF_storeVars(part = "store" /\ (Store!SweepCommits \/ Store!RecoverCommits({})))

\* The pass or scan in flight goes on, and a full tick in the end finds the
\* worker idle (full passes every six hours, collections every fifteen minutes).
WorkerFair ==
    /\ WF_syncVars(part = "sync" /\ Sync!Worker)
    /\ SF_syncVars(part = "sync" /\ Sync!Begin(TRUE))
    /\ WF_collectionsVars(part = "collections" /\ Colls!Worker)
    /\ SF_collectionsVars(part = "collections" /\ Colls!Begin(TRUE))

\* sync.Mutex hands the lock to a waiter that has waited, and the deadline ends
\* every write and read.  Valkey owes nothing.
ValkeyFair ==
    \A c \in Reader :
        /\ SF_valkeyVars(part = "valkey" /\ Valkey!Serve(c))
        /\ WF_valkeyVars(part = "valkey" /\ Valkey!Send(c))
        /\ WF_valkeyVars(part = "valkey" /\ Valkey!Read(c))

ProgressFair == ProgressSpec /\ BrowsingFair /\ ArtworkFair /\ WorkerFair /\ ValkeyFair

-----------------------------------------------------------------------------
\* Capacity is never lost for good: a reservation whose request vanished, or
\* whose release failed, is given back (Run's sweep and recovery).
ReservationsReleased ==
    (part = "store" /\ Store!Holds("one")) ~> (part = "store" => ~Store!Holds("one"))

\* Once PMS stops changing and failures stop, full passes bring the index to
\* what PMS lists and keep it there: items lost to a page that shifted while
\* it was read, to a crash or to a lost event come back (SyncOnce).
Converges == <>[](part = "sync" /\ DOMAIN origin # {} => Sync!Mirror)

\* An owed invalidation is carried out in the end if the server stays
\* readable: the flag is retried by every scan that publishes, "even if the
\* next origin scan is unchanged" (flushCollectionInvalidation).
Invalidated ==
    <>[](part = "collections" /\ Colls!Readable)
        => ((part = "collections" /\ owed) ~> (part = "collections" => ~owed))

\* Every call returns, whatever Valkey does: the deadline bounds the read, and
\* every way out of roundTrip releases the mutex.  Callers are interchangeable.
CallsReturn ==
    (part = "valkey" /\ call[r1].pc = "lock") ~> (part = "valkey" => call[r1].pc = "done")
=============================================================================
