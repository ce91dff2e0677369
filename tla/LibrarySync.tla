---------------------------- MODULE LibrarySync ----------------------------
(***************************************************************************)
(* The owner library index: internal/sync/sync.go, library.go, cursors.go  *)
(* and events.go.                                                          *)
(*                                                                         *)
(* A worker copies the sections and items of one Plex Media Server (PMS)   *)
(* into Postgres, page by page, one pass at a time.  A full pass stamps    *)
(* the rows it sees with its own generation and deletes the others; a      *)
(* light pass visits the sections that an event marked dirty, or that      *)
(* have no items yet, and deletes nothing.  PMS keeps changing while a     *)
(* pass reads it, its notifications may be lost, any statement or request  *)
(* may fail, and the process may stop at any point.                        *)
(*                                                                         *)
(* The generation is the wall clock in nanoseconds.  It is only ever       *)
(* compared for equality, so a fresh one is any value that no row and no   *)
(* cursor holds, and the model needs no bound on the number of passes.     *)
(***************************************************************************)
EXTENDS Naturals, Sequences, FiniteSets, SequencesExt, FiniteSetsExt

CONSTANTS Sections,      \* the section identifiers PMS may list
          Items,         \* rating keys
          PageSize,      \* Worker.PageSize
          InitOrigin,    \* what PMS holds at first: section -> items in order
          MaxChanges,    \* bound on the changes PMS makes
          MaxFails       \* bound on failures and process restarts

SyncConstants ==
    /\ PageSize \in Nat \ {0}
    /\ MaxChanges \in Nat /\ MaxFails \in Nat

VARIABLES
    origin,     \* PMS: a function from the listed sections to their items
    announced,  \* sections with a finished refresh nobody has told us of yet
    libs,       \* rows of "libraries"
    index,      \* rows of "library_items": item -> section and sweep_gen
    cursor,     \* rows of "sync_cursors" of type 'section'
    dirty,      \* Worker.dirty
    pass,       \* the pass in flight
    changes, fails

vars == <<origin, announced, libs, index, cursor, dirty, pass, changes, fails>>

NoGen == 0
Gens == 1 .. (Cardinality(Items) + Cardinality(Sections) + 1)
NoCursor == [start |-> 0, gen |-> NoGen, status |-> "none"]
NoSection == "none"

Idle == [phase |-> "idle", full |-> FALSE, gen |-> NoGen, todo |-> {},
         never |-> {}, sec |-> NoSection, start |-> 0, seen |-> {},
         quiet |-> TRUE, clean |-> TRUE]

TypeOK ==
    /\ DOMAIN origin \subseteq Sections
    /\ \A s \in DOMAIN origin : origin[s] \in Seq(Items)
    /\ announced \subseteq Sections
    /\ libs \subseteq Sections
    /\ DOMAIN index \subseteq Items
    /\ \A i \in DOMAIN index :
          index[i] \in [lib : libs, gen : Gens \cup {NoGen}]
    /\ cursor \in [Sections ->
          [start : Nat, gen : Gens \cup {NoGen},
           status : {"none", "running", "complete", "error"}]]
    /\ dirty \subseteq Sections
    /\ pass.phase \in {"idle", "list", "visit", "page", "finish"}
    /\ pass.todo \subseteq Sections /\ pass.never \subseteq Sections
    /\ changes \in 0 .. MaxChanges /\ fails \in 0 .. MaxFails

Init ==
    /\ origin = InitOrigin /\ announced = {}
    /\ libs = {} /\ index = <<>>
    /\ cursor = [s \in Sections |-> NoCursor]
    /\ dirty = {} /\ pass = Idle
    /\ changes = 0 /\ fails = 0

Listed(s) == IF s \in DOMAIN origin THEN ToSet(origin[s]) ELSE {}
AllListed == UNION {Listed(s) : s \in Sections}
db == <<libs, index, cursor>>

----------------------------------------------------------------------------
(* PMS changes: external, modelled from what the worker reads of it.       *)

Changing ==
    /\ changes < MaxChanges /\ changes' = changes + 1
    /\ pass' = [pass EXCEPT !.quiet = FALSE]
    /\ UNCHANGED <<db, dirty, fails>>

\* An item appears anywhere in a section's order.
AddItem(s, i) ==
    /\ s \in DOMAIN origin /\ i \notin AllListed
    /\ \E k \in 1 .. Len(origin[s]) + 1 :
          origin' = [origin EXCEPT ![s] = InsertAt(@, k, i)]
    /\ announced' = announced \cup {s}
    /\ Changing

RemoveItem(s, i) ==
    /\ i \in Listed(s)
    /\ origin' = [origin EXCEPT ![s] = SelectSeq(@, LAMBDA j : j # i)]
    /\ announced' = announced \cup {s}
    /\ Changing

RemoveSection(s) ==
    /\ s \in DOMAIN origin
    /\ origin' = [t \in DOMAIN origin \ {s} |-> origin[t]]
    /\ UNCHANGED announced
    /\ Changing

----------------------------------------------------------------------------
(* Events.                                                                 *)

\* MarkDirty: called for a completed item refresh of a section.
MarkDirty(s) ==
    /\ dirty' = dirty \cup {s}

\* handleEventData on a library.refresh.items activity at 100 percent.
handleEventData(s) ==
    /\ s \in announced
    /\ announced' = announced \ {s}
    /\ MarkDirty(s)
    /\ UNCHANGED <<origin, db, pass, changes, fails>>

\* The stream was down (Subscribe reconnects with a growing pause and reads
\* nothing of what it missed), or the payload did not parse.
LoseEvent(s) ==
    /\ s \in announced
    /\ announced' = announced \ {s}
    /\ UNCHANGED <<origin, db, dirty, pass, changes, fails>>

----------------------------------------------------------------------------
(* A pass.                                                                 *)

\* SyncOnce up to the section listing; a second caller gets ErrInFlight.
Begin(full) ==
    /\ pass.phase = "idle"
    /\ pass' = [Idle EXCEPT !.phase = "list", !.full = full]
    /\ UNCHANGED <<origin, announced, db, dirty, changes, fails>>

Fail == fails < MaxFails /\ fails' = fails + 1

FreshGen == Min(Gens \ ({index[i].gen : i \in DOMAIN index}
                          \cup {cursor[s].gen : s \in Sections}))

\* Deleting a library removes its items and cursors with it.
DropLibraries(gone) ==
    /\ index' = [i \in {j \in DOMAIN index : index[j].lib \notin gone} |-> index[i]]
    /\ cursor' = [s \in Sections |-> IF s \in gone THEN NoCursor ELSE cursor[s]]

\* Mutant: an empty list means that every section is gone.
AbsentOnEmpty(listed) ==
    IF pass.full THEN libs \ listed ELSE {}

\* Which libraries a complete listing removes: none on a light pass, and
\* none when the listing is empty.
Absent(listed) ==
    IF pass.full /\ listed # {} THEN libs \ listed ELSE {}

AfterList(listed) ==
    /\ libs' = (libs \cup listed) \ Absent(listed)
    /\ DropLibraries(Absent(listed))
    /\ pass' = [pass EXCEPT
          !.phase = "visit", !.todo = listed,
          !.gen = IF pass.full THEN FreshGen ELSE NoGen,
          !.never = {s \in listed : \A i \in DOMAIN index : index[i].lib # s},
          !.clean = listed = DOMAIN origin]

\* syncSections and the fresh generation.  The listing may be empty although
\* PMS has sections (it is starting up, or a glitch).
syncSections ==
    /\ pass.phase = "list"
    /\ \/ AfterList(DOMAIN origin) /\ UNCHANGED fails
       \/ DOMAIN origin # {} /\ AfterList({}) /\ Fail
    /\ UNCHANGED <<origin, announced, dirty, changes>>

\* The request fails, or an upsert does after some libraries were written.
syncSectionsFails ==
    /\ pass.phase = "list" /\ Fail
    /\ \E some \in SUBSET DOMAIN origin : libs' = libs \cup some
    /\ pass' = Idle
    /\ UNCHANGED <<origin, announced, index, cursor, dirty, changes>>

\* Mutant: a full pass resumes at the cursor of an earlier one.
StartAtCursor(s) == cursor[s].start

\* Where syncSection starts reading: zero, unless a full pass finds a cursor
\* of its own generation.
StartOf(s) ==
    IF pass.full /\ cursor[s].gen = pass.gen THEN cursor[s].start ELSE 0

NeedsRefresh(s) == pass.full \/ s \in dirty \/ s \in pass.never

\* The next section of the loop: skipped, or opened.
Visit(s) ==
    /\ pass.phase = "visit" /\ s \in pass.todo
    /\ pass' = IF NeedsRefresh(s)
               THEN [pass EXCEPT !.phase = "page", !.todo = @ \ {s},
                                 !.sec = s, !.start = StartOf(s)]
               ELSE [pass EXCEPT !.todo = @ \ {s}]
    /\ UNCHANGED <<origin, announced, db, dirty, changes, fails>>

\* upsertItem's stamp: a light pass leaves the one that is there.
Stamp(i) ==
    CASE pass.full -> pass.gen
      [] ~pass.full /\ i \in DOMAIN index -> index[i].gen
      [] OTHER -> NoGen

Upserted(items) ==
    [i \in DOMAIN index \cup items |->
        IF i \in items THEN [lib |-> pass.sec, gen |-> Stamp(i)] ELSE index[i]]

PageAt(s, start) ==
    SubSeq(origin[s], start + 1, Min({start + PageSize, Len(origin[s])}))

\* The generation saveCursor records.
TrackGen == IF pass.full THEN pass.gen ELSE cursor[pass.sec].gen

LastPage(n, start, total) ==
    n < PageSize \/ (total >= 0 /\ start >= total)

\* One turn of the paging loop: fetch, upsert every item, save the cursor.
\* PMS reports totalSize, or is too old to (-1).
Page ==
    /\ pass.phase = "page" /\ pass.sec \in DOMAIN origin
    /\ LET s == pass.sec
           p == PageAt(s, pass.start)
           next == pass.start + Len(p) IN
         /\ index' = Upserted(ToSet(p))
         /\ cursor' = [cursor EXCEPT ![s] =
               [start |-> next, gen |-> TrackGen, status |-> "running"]]
         /\ \E total \in {-1, Len(origin[s])} :
               pass' = [pass EXCEPT !.start = next,
                          !.seen = @ \cup ToSet(p),
                          !.phase = IF LastPage(Len(p), next, total)
                                    THEN "finish" ELSE "page"]
    /\ UNCHANGED <<origin, announced, libs, dirty, changes, fails>>

\* The request or a statement fails: the items before it stay upserted, the
\* section is marked in error and the loop goes on to the next one.
Failed(s) ==
    /\ cursor' = [cursor EXCEPT ![s].status = "error"]
    /\ pass' = [pass EXCEPT !.phase = "visit", !.sec = NoSection,
                            !.start = 0, !.clean = FALSE]

PageFails ==
    /\ pass.phase = "page"
    /\ IF pass.sec \in DOMAIN origin
       THEN /\ Fail
            /\ \E k \in 0 .. Len(PageAt(pass.sec, pass.start)) :
                  index' = Upserted(ToSet(SubSeq(PageAt(pass.sec, pass.start), 1, k)))
       ELSE UNCHANGED <<fails, index>>
    /\ Failed(pass.sec)
    /\ UNCHANGED <<origin, announced, libs, dirty, changes>>

\* The rows the end of a section's sweep deletes.
Swept(s) ==
    IF pass.full
    THEN {i \in DOMAIN index : index[i].lib = s /\ index[i].gen # pass.gen}
    ELSE {}

\* The end of a section: the sweep, the cursor, and clearDirty.
FinishSection ==
    /\ pass.phase = "finish"
    /\ LET s == pass.sec IN
         /\ index' = [i \in DOMAIN index \ Swept(s) |-> index[i]]
         /\ cursor' = [cursor EXCEPT ![s].status = "complete"]
         /\ dirty' = dirty \ {s}
    /\ pass' = [pass EXCEPT !.phase = "visit", !.sec = NoSection, !.start = 0]
    /\ UNCHANGED <<origin, announced, libs, changes, fails>>

SweepFails ==
    /\ pass.phase = "finish" /\ pass.full /\ Fail
    /\ Failed(pass.sec)
    /\ UNCHANGED <<origin, announced, libs, index, dirty, changes>>

\* The item loop is over.  (The collection loop that follows is Collections.)
End ==
    /\ pass.phase = "visit" /\ pass.todo = {}
    /\ pass' = Idle
    /\ UNCHANGED <<origin, announced, db, dirty, changes, fails>>

\* The process stops: the pass and the marks are gone, the tables stay.
Crash ==
    /\ Fail
    /\ pass' = Idle /\ dirty' = {}
    /\ UNCHANGED <<origin, announced, db, changes>>

Worker ==
    \/ syncSections \/ syncSectionsFails
    \/ \E s \in Sections : Visit(s)
    \/ Page \/ PageFails \/ FinishSection \/ SweepFails \/ End

Next ==
    \/ \E s \in Sections, i \in Items : AddItem(s, i) \/ RemoveItem(s, i)
    \/ \E s \in Sections : RemoveSection(s) \/ handleEventData(s) \/ LoseEvent(s)
    \/ \E full \in BOOLEAN : Begin(full)
    \/ Worker
    \/ Crash

Spec == Init /\ [][Next]_vars

----------------------------------------------------------------------------
(* Properties.  A formula with primed variables is about every step.       *)

\* The index holds exactly what PMS lists, under the section that lists it.
Mirror ==
    /\ libs = DOMAIN origin
    /\ DOMAIN index = AllListed
    /\ \A i \in DOMAIN index : i \in Listed(index[i].lib)

\* A full pass during which PMS did not change and nothing failed leaves the
\* index equal to PMS, whatever earlier passes, crashes, stale cursors or lost
\* events left behind (SyncOnce, syncSection's restart at zero, the sweep).
FullReconciles ==
    (End /\ pass.full /\ pass.quiet /\ pass.clean /\ DOMAIN origin # {}) => Mirror

\* A pass deletes no row that it has itself seen at PMS, and a pass that is
\* not full deletes nothing: what an interrupted or light pass leaves is
\* never mistaken for absence (genOrNil, the sweep's generation).
SeenIsKept ==
    \A i \in DOMAIN index \ DOMAIN index' : pass.full /\ i \notin pass.seen

\* No pass ever takes an empty section list for the removal of everything:
\* once a library is known, some library stays known (syncSections).
NeverEmptied == libs # {} => libs' # {}

============================================================================
