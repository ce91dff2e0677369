----------------------------- MODULE ItemTables -----------------------------
(***************************************************************************)
(* How one item becomes rows: upsertItem of internal/sync/items.go.        *)
(*                                                                         *)
(* An item has media versions, a version has part files.  The worker       *)
(* writes them with separate statements outside any transaction: item,     *)
(* versions and parts are upserted in place under their natural keys       *)
(* (item; item and version index; version and part index), and what is     *)
(* absent is deleted afterwards.  Playback sessions refer to version and   *)
(* part rows; a deleted row sets the reference to NULL.  The schema also   *)
(* makes the server's part identifier unique over all rows                 *)
(* (media_parts_plex_part_id_idx).                                         *)
(*                                                                         *)
(* A page is given by the statements it causes, in their order.            *)
(***************************************************************************)
EXTENDS Naturals, Sequences, SequencesExt, FiniteSets

CONSTANTS Contents,   \* what PMS may hold: item -> versions, each a sequence
                      \* of part identifiers
          NoId,       \* a part that PMS lists without an identifier
          Sessions,
          MaxChanges, MaxFaults

ItemConstants ==
    /\ IsFiniteSet(Contents)
    /\ MaxChanges \in Nat /\ MaxFaults \in Nat

VARIABLES
    origin,     \* what PMS holds now
    items,      \* rows of library_items
    variants,   \* rows of media_variants: <<item, media_index>>
    parts,      \* rows of media_parts: <<item, media_index, part_index>> -> id
    ref,        \* playback_sessions: selected_media_variant_id / _part_id
    scan,       \* the scan in flight: what was fetched, statements to go
    changes, faults

vars == <<origin, items, variants, parts, ref, scan, changes, faults>>
tables == <<items, variants, parts, ref>>

NoRow == <<>>
NoScan == [on |-> FALSE, page |-> <<>>, todo |-> <<>>]

----------------------------------------------------------------------------
(* The statements of one page.                                             *)

Indexes(seq) == 0 .. Len(seq) - 1
At(seq, k) == seq[k + 1]

\* Parts without an identifier are skipped.
PartStatements(i, v, files) ==
    SelectSeq([k \in 1 .. Len(files) |->
                  [op |-> "part", row |-> <<i, v, k - 1>>, id |-> files[k]]],
              LAMBDA st : st.id # NoId)

KeptParts(files) == {k \in Indexes(files) : At(files, k) # NoId}

VariantStatements(i, v, files) ==
    <<[op |-> "variant", row |-> <<i, v>>]>>
        \o PartStatements(i, v, files)
        \o <<[op |-> "pruneParts", row |-> <<i, v>>, keep |-> KeptParts(files)]>>

upsertItem(i, media) ==
    <<[op |-> "item", row |-> <<i>>]>>
        \o FlattenSeq([k \in 1 .. Len(media) |->
                          VariantStatements(i, k - 1, media[k])])
        \o <<[op |-> "pruneVariants", row |-> <<i>>, keep |-> Indexes(media)]>>

Statements(page, full) ==
    FlattenSeq([k \in 1 .. Cardinality(DOMAIN page) |->
        LET i == SetToSeq(DOMAIN page)[k] IN upsertItem(i, page[i])])
    \o IF full THEN <<[op |-> "sweep", keep |-> DOMAIN page]>> ELSE <<>>

----------------------------------------------------------------------------
TypeOK ==
    /\ origin \in Contents
    /\ \A v \in variants : v[1] \in items
    /\ \A p \in DOMAIN parts : <<p[1], p[2]>> \in variants
    /\ \A p, q \in DOMAIN parts : parts[p] = parts[q] => p = q
    /\ \A s \in Sessions : DOMAIN ref[s] = {"variant", "part"}
    /\ changes \in 0 .. MaxChanges /\ faults \in 0 .. MaxFaults

Init ==
    /\ origin \in Contents
    /\ items = {} /\ variants = {} /\ parts = <<>>
    /\ ref = [s \in Sessions |-> [variant |-> NoRow, part |-> NoRow]]
    /\ scan = NoScan /\ changes = 0 /\ faults = 0

\* PMS: versions and parts appear, disappear, move to another item.
Change ==
    /\ changes < MaxChanges /\ changes' = changes + 1
    /\ origin' \in Contents \ {origin}
    /\ UNCHANGED <<tables, scan, faults>>

\* The engine stores a session for a version and its first part
\* (indexVariants joins the part with index 0).
Select(s) ==
    /\ \E p \in DOMAIN parts :
          /\ p[3] = 0
          /\ ref' = [ref EXCEPT ![s] = [variant |-> <<p[1], p[2]>>, part |-> p]]
    /\ UNCHANGED <<origin, items, variants, parts, scan, changes, faults>>

Begin(full) ==
    /\ ~scan.on
    /\ scan' = [on |-> TRUE, page |-> origin, todo |-> Statements(origin, full)]
    /\ UNCHANGED <<origin, tables, changes, faults>>

\* The next statement, of the given kind.
Step(op) ==
    /\ scan.on /\ scan.todo # <<>> /\ Head(scan.todo).op = op
    /\ scan' = [scan EXCEPT !.todo = Tail(@)]
    /\ UNCHANGED <<origin, changes, faults>>

UpsertRow ==
    /\ Step("item")
    /\ items' = items \cup {Head(scan.todo).row[1]}
    /\ UNCHANGED <<variants, parts, ref>>

UpsertVariant ==
    /\ Step("variant")
    /\ variants' = variants \cup {Head(scan.todo).row}
    /\ UNCHANGED <<items, parts, ref>>

\* Another row already holds this identifier.
Taken(st) ==
    \E p \in DOMAIN parts : p # st.row /\ parts[p] = st.id

UpsertPart ==
    /\ Step("part")
    /\ LET st == Head(scan.todo) IN
         /\ ~Taken(st)
         /\ parts' = [p \in DOMAIN parts \cup {st.row} |->
                         IF p = st.row THEN st.id ELSE parts[p]]
    /\ UNCHANGED <<items, variants, ref>>

\* Deleting rows cascades downwards and sets references to NULL.
Delete(goneItems, goneVariants, goneParts) ==
    LET gv == goneVariants \cup {v \in variants : v[1] \in goneItems}
        gp == goneParts \cup {p \in DOMAIN parts : <<p[1], p[2]>> \in gv} IN
      /\ items' = items \ goneItems
      /\ variants' = variants \ gv
      /\ parts' = [p \in DOMAIN parts \ gp |-> parts[p]]
      /\ ref' = [s \in Sessions |->
                    [variant |-> IF ref[s].variant \in gv THEN NoRow ELSE ref[s].variant,
                     part |-> IF ref[s].part \in gp THEN NoRow ELSE ref[s].part]]

PruneParts ==
    /\ Step("pruneParts")
    /\ LET st == Head(scan.todo) IN
         Delete({}, {}, {p \in DOMAIN parts :
                           <<p[1], p[2]>> = st.row /\ p[3] \notin st.keep})

\* Mutant: rows that PMS no longer lists are kept.
PrunedNone(st) == {}

Pruned(st) == {v \in variants : v[1] = st.row[1] /\ v[2] \notin st.keep}

PruneVariants ==
    /\ Step("pruneVariants")
    /\ Delete({}, Pruned(Head(scan.todo)), {})

Sweep ==
    /\ Step("sweep")
    /\ Delete({i \in items : i \notin Head(scan.todo).keep}, {}, {})

\* A statement that violates the unique index fails, and the section with it.
Conflict ==
    /\ scan.on /\ scan.todo # <<>> /\ Head(scan.todo).op = "part"
    /\ Taken(Head(scan.todo))
    /\ scan' = NoScan
    /\ UNCHANGED <<origin, tables, changes, faults>>

\* The database fails or the process stops.
Fault ==
    /\ scan.on /\ faults < MaxFaults /\ faults' = faults + 1
    /\ scan' = NoScan
    /\ UNCHANGED <<origin, tables, changes>>

End ==
    /\ scan.on /\ scan.todo = <<>>
    /\ scan' = NoScan
    /\ UNCHANGED <<origin, tables, changes, faults>>

Next ==
    \/ Change
    \/ \E s \in Sessions : Select(s)
    \/ \E full \in BOOLEAN : Begin(full)
    \/ UpsertRow \/ UpsertVariant \/ UpsertPart
    \/ PruneParts \/ PruneVariants \/ Sweep
    \/ Conflict \/ Fault \/ End

Spec == Init /\ [][Next]_vars

----------------------------------------------------------------------------
(* Properties.  A formula with primed variables is about every step.       *)

VariantRows(c) == UNION {{<<i, v>> : v \in Indexes(c[i])} : i \in DOMAIN c}
PartRows(c) ==
    UNION {{<<r[1], r[2], k>> : k \in KeptParts(At(c[r[1]], r[2]))} : r \in VariantRows(c)}

\* A scan that reaches its end leaves every listed item exactly as the page
\* had it, versions and parts, whatever half-written rows earlier scans,
\* faults and conflicts left (upsertItem's upserts and prunes).
ScanMirrors ==
    End => LET c == scan.page IN
          /\ DOMAIN c \subseteq items
          /\ {v \in variants : v[1] \in DOMAIN c} = VariantRows(c)
          /\ {p \in DOMAIN parts : p[1] \in DOMAIN c} = PartRows(c)
          /\ \A p \in PartRows(c) : parts[p] = At(At(c[p[1]], p[2]), p[3])

\* "only genuinely absent rows are deleted": a row whose natural key the page
\* still has is never deleted, so a reference to it survives.
OnlyAbsentDeleted ==
    /\ \A v \in variants \ variants' : v \notin VariantRows(scan.page)
    /\ \A p \in DOMAIN parts \ DOMAIN parts' : p \notin PartRows(scan.page)

\* "playback history referencing them survives via ON DELETE SET NULL": a
\* session never refers to a row that is gone.
HistoryNeverDangles ==
    \A s \in Sessions :
        /\ ref[s].variant # NoRow => ref[s].variant \in variants
        /\ ref[s].part # NoRow => ref[s].part \in DOMAIN parts

============================================================================
