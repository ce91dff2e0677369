----------------------------- MODULE MCLibrary ------------------------------
(***************************************************************************)
(* What the proxy knows of the library and what it lets callers see and play, *)
(* side by side: the leases of responses (three credentials, room for two), *)
(* the synchronisation of sections and items (two sections read a page at a *)
(* time), the rows one scan writes, the collections, the media policy and  *)
(* the playback sessions.                                                  *)
(*                                                                         *)
(* The initial state chooses the part that moves, a component in one of its *)
(* instances; the variables of the other components rest.  The components  *)
(* share no variable, so a step of one commutes with a step of another and a *)
(* property of one holds in every interleaving iff it holds while the others *)
(* rest: the states to explore add up instead of multiplying.              *)
(***************************************************************************)
EXTENDS ResourceGrants, Sequences, TLC

CONSTANTS s1, s2, i1, i2, i3,    \* sections and items of the synchronisation
          x, y, p1, p2, p3, NoId,  \* items and part identifiers of one scan
          c1, c2                   \* collections

VARIABLES
    part,   \* the part that moves
    origin, announced, libs, index, cursor, dirty, pass, changes, fails,   \* LibrarySync
    shelf, items, variants, parts, ref, iScan, iChanges, faults,   \* ItemTables
    catalog, members, reports, rows, snaps, owed, done, cDirty, scan, covered,   \* Collections
    cChanges, cFails,
    levels, stores, load, seen, item, outcome,   \* MediaPolicy
    listing, rowsOf, restricted, sessions, neg, grant, pChanges   \* Playback

\* With pages of one item the first section takes three requests.
Shelves == s1 :> <<i1, i2>> @@ s2 :> <<i3>>

\* Two versions; the first one replaced, lost its part, or gone; a second
\* part file; a part without identifier; a version split off as an item.
Versions ==
    { x :> << <<p1>>, <<p2>> >>,
      x :> << <<p3>>, <<p2>> >>,
      x :> << <<NoId>>, <<p2, p3>> >>,
      x :> << <<p2>> >>,
      x :> << <<p1>> >> @@ y :> << <<p2>> >>,
      y :> << <<p3>> >> }

\* Every field of a policy is configured by some configuration, and every
\* range, codec class, playability and missing measure occurs in some title.
Nothing == -1
Configuration(tri, num) ==
    [tri |-> tri @@ [f \in {"allow4K", "allowHDR", "allowDolbyVision", "allowTranscode",
                            "unknownDynamicRangeBehavior"} |-> "inherit"],
     num |-> num @@ [f \in {"maxSourceWidth", "maxSourceHeight", "maxSourceBitrateKbps",
                            "maxStreamingBitrateKbps", "maxAudioChannels"} |-> Nothing]]
Configurations ==
    { Configuration(("allow4K" :> "deny"), <<>>), Configuration(("allow4K" :> "allow"), <<>>),
      Configuration(("allow4K" :> "sometimes"), <<>>),
      Configuration([allowDolbyVision |-> "deny", unknownDynamicRangeBehavior |-> "deny"], <<>>),
      Configuration([allowHDR |-> "deny", allowTranscode |-> "deny"], <<>>),
      Configuration(<<>>, [maxSourceBitrateKbps |-> 8000, maxStreamingBitrateKbps |-> 4000]),
      Configuration(<<>>, [maxSourceWidth |-> 1920, maxSourceHeight |-> 1080,
                           maxAudioChannels |-> 2]) }

Variant(i, w, h, rate, range, codec, ch, play, ok) ==
    [index |-> i, width |-> w, height |-> h, rate |-> rate, range |-> range,
     codec |-> codec, channels |-> ch, play |-> play, available |-> ok]
Film(i) == Variant(i, 3840, 2160, 40000, "DOLBY_VISION", "hevc", 8, "DirectStream", TRUE)
Disc(i) == Variant(i, 3840, 2160, 30000, "HDR10", "av1", 6, "DirectStream", TRUE)
Tall(i) == Variant(i, 1440, 1440, 9000, "HLG", "vp9", 2, "DirectPlay", TRUE)
Full(i) == Variant(i, 1920, 1080, 8000, "SDR", "h264", 2, "DirectPlay", TRUE)
Loud(i) == Variant(i, 1920, 1080, 8000, "SDR", "h264", 6, "Transcode", TRUE)
Odd(i)  == Variant(i, Nothing, Nothing, Nothing, "UNKNOWN", "", Nothing, "Unknown", TRUE)
Lost(i) == Variant(i, 1920, 1080, 8000, "HDR10_PLUS", "h264", 2, "DirectPlay", FALSE)

Titles ==
    [film |-> <<Film(0), Full(1)>>, disc |-> <<Disc(0), Film(1), Loud(2)>>,
     tall |-> <<Tall(0), Film(1)>>, odd |-> <<Odd(0), Loud(1)>>,
     gone |-> <<Loud(0), Full(1), Lost(2)>>, loud |-> <<Loud(0)>>,
     mixed |-> <<Tall(0), Odd(1), Disc(2)>>]

\* One version or two, in either order, or one of them replaced.
VersionLists == {<<"hd">>, <<"uhd">>, <<"hd", "uhd">>, <<"uhd", "hd">>, <<"new", "uhd">>}

Sync == INSTANCE LibrarySync
    WITH Sections <- DOMAIN Shelves, Items <- {i1, i2, i3}, InitOrigin <- Shelves,
         PageSize <- 1, MaxChanges <- 1, MaxFails <- 1

Tables == INSTANCE ItemTables
    WITH Contents <- Versions, Sessions <- {"playing"}, MaxChanges <- 2, MaxFaults <- 1,
         origin <- shelf, scan <- iScan, changes <- iChanges

Colls == INSTANCE Collections
    WITH Colls <- {c1, c2}, Members <- {i1, i2}, PageSize <- 1, MaxStaged <- 3,
         InitCatalog <- <<c1>>, InitMembers <- (c1 :> <<i1, i2>> @@ c2 :> <<i1>>),
         MaxChanges <- 1, MaxFails <- 2,
         pending <- owed, dirty <- cDirty, changes <- cChanges, fails <- cFails

Policy == INSTANCE MediaPolicy
    WITH Configs <- Configurations, Items <- DOMAIN Titles, Variants <- Titles,
         MaxStores <- 1, rows <- levels

Player == INSTANCE Playback
    WITH Lists <- VersionLists, Users <- {"kid", "adult"}, Restrictable <- "kid",
         Resolves <- {TRUE}, MaxChanges <- 1, MaxSessions <- 2,
         origin <- listing, index <- rowsOf, changes <- pChanges

ASSUME SyncSyncConstants == Sync!SyncConstants
ASSUME TablesItemConstants == Tables!ItemConstants
ASSUME CollsCollectionConstants == Colls!CollectionConstants
ASSUME PlayerPlaybackConstants == Player!PlaybackConstants

-----------------------------------------------------------------------------
Rest == "rests"

SyncRests ==
    /\ origin = Rest /\ announced = Rest /\ libs = Rest /\ index = Rest /\ cursor = Rest
    /\ dirty = Rest /\ pass = Rest /\ changes = Rest /\ fails = Rest
TablesRests ==
    /\ shelf = Rest /\ items = Rest /\ variants = Rest /\ parts = Rest /\ ref = Rest
    /\ iScan = Rest /\ iChanges = Rest /\ faults = Rest
CollsRests ==
    /\ catalog = Rest /\ members = Rest /\ reports = Rest /\ rows = Rest /\ snaps = Rest
    /\ owed = Rest /\ done = Rest /\ cDirty = Rest /\ scan = Rest /\ covered = Rest
    /\ cChanges = Rest /\ cFails = Rest
PolicyRests ==
    /\ levels = Rest /\ stores = Rest /\ load = Rest /\ seen = Rest /\ item = Rest
    /\ outcome = Rest
PlayerRests ==
    /\ listing = Rest /\ rowsOf = Rest /\ restricted = Rest /\ sessions = Rest
    /\ neg = Rest /\ grant = Rest /\ pChanges = Rest

syncVars == <<origin, announced, libs, index, cursor, dirty, pass, changes, fails>>
itemsVars == <<shelf, items, variants, parts, ref, iScan, iChanges, faults>>
collectionsVars == <<catalog, members, reports, rows, snaps, owed, done, cDirty,
                     scan, covered, cChanges, cFails>>
policyVars == <<levels, stores, load, seen, item, outcome>>
playbackVars == <<listing, rowsOf, restricted, sessions, neg, grant, pChanges>>

LibraryInit ==
    /\ part \in {"leases", "sync", "items", "collections", "policy", "playback"}
    /\ Init
    /\ IF part = "sync" THEN Sync!Init ELSE SyncRests
    /\ IF part = "items" THEN Tables!Init ELSE TablesRests
    /\ IF part = "collections" THEN Colls!Init ELSE CollsRests
    /\ IF part = "policy" THEN Policy!Init ELSE PolicyRests
    /\ IF part = "playback" THEN Player!Init ELSE PlayerRests

LibraryNext ==
    \/ /\ part = "leases" /\ Next
       /\ UNCHANGED <<part, syncVars, itemsVars, collectionsVars, policyVars, playbackVars>>
    \/ /\ part = "sync" /\ Sync!Next
       /\ UNCHANGED <<part, vars, itemsVars, collectionsVars, policyVars, playbackVars>>
    \/ /\ part = "items" /\ Tables!Next
       /\ UNCHANGED <<part, vars, syncVars, collectionsVars, policyVars, playbackVars>>
    \/ /\ part = "collections" /\ Colls!Next
       /\ UNCHANGED <<part, vars, syncVars, itemsVars, policyVars, playbackVars>>
    \/ /\ part = "policy" /\ Policy!Next
       /\ UNCHANGED <<part, vars, syncVars, itemsVars, collectionsVars, playbackVars>>
    \/ /\ part = "playback" /\ Player!Next
       /\ UNCHANGED <<part, vars, syncVars, itemsVars, collectionsVars, policyVars>>

libraryVars == <<part, vars, syncVars, itemsVars, collectionsVars, policyVars,
                 playbackVars>>

LibrarySpec == LibraryInit /\ [][LibraryNext]_libraryVars

-----------------------------------------------------------------------------
\* Every part keeps the types of its state.
LibraryTypeOK ==
    CASE part = "leases"      -> TypeOK
      [] part = "sync"        -> Sync!TypeOK
      [] part = "items"       -> Tables!TypeOK
      [] part = "collections" -> Colls!TypeOK
      [] part = "policy"      -> Policy!TypeOK
      [] part = "playback"    -> Player!TypeOK

\* A full pass during which PMS did not change and nothing failed leaves the
\* index equal to PMS, whatever earlier passes, crashes, stale cursors or lost
\* events left behind; no pass deletes a row it has itself seen at PMS; and
\* none takes an empty section list for the removal of everything (SyncOnce,
\* syncSections, syncSection's restart at zero, the sweep's generation).
SyncReconciles ==
    [][part = "sync" =>
        Sync!FullReconciles /\ Sync!SeenIsKept /\ Sync!NeverEmptied]_syncVars

\* A scan that reaches its end leaves every listed item exactly as the page
\* had it, whatever half-written rows earlier scans and faults left; on the
\* way "only genuinely absent rows are deleted", and a session never refers to
\* a row that is gone (upsertItem's upserts and prunes, ON DELETE SET NULL).
RowsMirror ==
    [][part = "items" =>
        /\ Tables!ScanMirrors /\ Tables!OnlyAbsentDeleted
        /\ Tables!HistoryNeverDangles']_itemsVars

\* "A pending invalidation survives a crash between DB publication and cache
\* invalidation": what is published differs from what was published at the
\* last bump only while the flag is up, and every published generation is a
\* snapshot that was read to its end (publishCollections).
InvalidationOwed ==
    part = "collections" => Colls!InvalidationOwed /\ Colls!PublishedComplete

\* A scan in which PMS did not change publishes what PMS lists, all members in
\* order, and the published catalog is emptied only by a scan that was given
\* an empty catalog when it was empty (fetchCollectionPages).
PublishesWhatIsListed ==
    [][part = "collections" =>
        Colls!PublishesWhatIsListed /\ Colls!NeverErasedByMistake]_collectionsVars

\* LoadEffective yields, per field, the most specific level that configures
\* it, although levels are stored while it reads them.  What Evaluate then
\* selects violates no limit, no permitted version is better, an item is
\* refused only if each of its versions is, and for a reason that holds of it.
DecisionsSound ==
    part = "policy" =>
        /\ Policy!LoadedIsMostSpecific
        /\ Policy!SelectedPermitted /\ Policy!BestOfPermitted
        /\ Policy!RefusedOnlyWhenForced /\ Policy!RejectionsExplained

\* "a database outage or a decision-skipping client must never promote a
\* restricted part": the restricted version is served only through a session
\* from before the restriction or after the version was replaced.  A session
\* serves only the user it is bound to ("not a bearer capability"), nothing
\* once it ended, names no version its stored policy denies, and while nothing
\* moved gives its caller every part of the selected version (EnforcePart).
BoundaryHolds ==
    [][part = "playback" =>
        /\ Player!RestrictedNotServed /\ Player!BoundToCaller
        /\ Player!EndedServesNothing /\ Player!PartsInSequence
        /\ Player!SelectionPermitted']_playbackVars
=============================================================================
