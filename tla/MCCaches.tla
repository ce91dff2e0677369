------------------------------ MODULE MCCaches ------------------------------
(***************************************************************************)
(* The stores below the caches, side by side: the artwork store (two       *)
(* transfers around a budget that holds both contents but not both and a   *)
(* reservation; one transfer with two priority tiers), the artwork route   *)
(* (two keys; two credentials) and the Valkey client (two callers; three   *)
(* calls of one).                                                          *)
(*                                                                         *)
(* The initial state chooses the part that moves, a component in one of its *)
(* instances; the variables of the other components rest.  The components  *)
(* share no variable, so a step of one commutes with a step of another and a *)
(* property of one holds in every interleaving iff it holds while the others *)
(* rest: the states to explore add up instead of multiplying.              *)
(***************************************************************************)
EXTENDS ArtworkStore, TLC

CONSTANTS
    small, large,               \* two contents of artwork
    Transfers,                  \* reservations of the budget's instance
    Requests, Posters, Bodies,  \* of the artwork route: requests, keys, bodies
    Callers, Keys               \* of the Valkey client

VARIABLES
    part,   \* the part that moves
    bDb, bFs, bReady, bTransfer, bServed,   \* ArtworkStore, the budget
    content, shown, held, req, reserved, accepted, proven, answered,   \* ArtworkRoute
    mem, executed, up, wire, back, dead, conn, holder, call, answer, calls   \* ValkeyClient

ContentSize == [d \in Digests |-> IF d = small THEN 1 ELSE 2]
Symmetric == Permutations(Variants) \cup Permutations(Transfers)

Budget == INSTANCE ArtworkStore
    WITH Ids <- Transfers, Priorities <- {0}, OldBytes <- 1,
         db <- bDb, fs <- bFs, ready <- bReady, transfer <- bTransfer, served <- bServed

Route == INSTANCE ArtworkRoute
    WITH Fingerprints <- {"one"}, Variants <- Posters, Digests <- Bodies,
         served <- shown, grants <- held

Guests == INSTANCE ArtworkRoute
    WITH Fingerprints <- {"one", "two"}, Variants <- {"poster"}, Digests <- Bodies,
         served <- shown, grants <- held

Valkey == INSTANCE ValkeyClient
    WITH MaxCalls <- 2

Replies == INSTANCE ValkeyClient
    WITH Callers <- {"caller"}, MaxCalls <- 3

-----------------------------------------------------------------------------
Rest == "rests"

BudgetRests ==
    /\ bDb = Rest /\ bFs = Rest /\ bReady = Rest /\ bTransfer = Rest /\ bServed = Rest
RouteRests ==
    /\ content = Rest /\ shown = Rest /\ held = Rest /\ req = Rest /\ reserved = Rest
    /\ accepted = Rest /\ proven = Rest /\ answered = Rest
ValkeyRests ==
    /\ mem = Rest /\ executed = Rest /\ up = Rest /\ wire = Rest /\ back = Rest
    /\ dead = Rest /\ conn = Rest /\ holder = Rest /\ call = Rest /\ answer = Rest
    /\ calls = Rest

budgetVars == <<bDb, bFs, bReady, bTransfer, bServed>>
routeVars == <<content, shown, held, req, reserved, accepted, proven, answered>>
valkeyVars == <<mem, executed, up, wire, back, dead, conn, holder, call, answer,
                calls>>

CachesInit ==
    /\ part \in {"budget", "tiers", "route", "guests", "valkey", "replies"}
    /\ Init
    /\ IF part = "budget" THEN Budget!Init ELSE BudgetRests
    /\ CASE part = "route" -> Route!Init
         [] part = "guests" -> Guests!Init
         [] OTHER -> RouteRests
    /\ CASE part = "valkey" -> Valkey!Init
         [] part = "replies" -> Replies!Init
         [] OTHER -> ValkeyRests

CachesNext ==
    \/ /\ part = "tiers" /\ Next
       /\ UNCHANGED <<part, budgetVars, routeVars, valkeyVars>>
    \/ /\ part = "budget" /\ Budget!Next
       /\ UNCHANGED <<part, vars, routeVars, valkeyVars>>
    \/ /\ part = "route" /\ Route!Next
       /\ UNCHANGED <<part, vars, budgetVars, valkeyVars>>
    \/ /\ part = "guests" /\ Guests!Next
       /\ UNCHANGED <<part, vars, budgetVars, valkeyVars>>
    \/ /\ part = "valkey" /\ Valkey!Next
       /\ UNCHANGED <<part, vars, budgetVars, routeVars>>
    \/ /\ part = "replies" /\ Replies!Next
       /\ UNCHANGED <<part, vars, budgetVars, routeVars>>

cachesVars == <<part, vars, budgetVars, routeVars, valkeyVars>>

CachesSpec == CachesInit /\ [][CachesNext]_cachesVars

-----------------------------------------------------------------------------
\* Every part keeps the types of its state.
CachesTypeOK ==
    CASE part = "budget" -> Budget!TypeOK
      [] part = "tiers"  -> TypeOK
      [] part = "route"  -> Route!TypeOK
      [] part = "guests" -> Guests!TypeOK
      [] part = "valkey" -> Valkey!TypeOK
      [] part = "replies" -> Replies!TypeOK

\* In both instances of the store, every file below the directory is owned and
\* every byte charged to something admission counts (recover, releaseReservation).
BytesAccounted == DiskAccounted /\ (part = "budget" => Budget!DiskAccounted)

\* In both instances, rows and reservations stay within the byte budget
\* (makeRoom, Reserve, Commit).
BudgetHolds == HardBudget /\ (part = "budget" => Budget!HardBudget)

\* A body is served from disk to a credential only after PMS has answered that
\* very credential for that key in this run of the process, and it is a body
\* PMS gave for that key, although contents are shared between keys and
\* credentials (serveArtwork).
ServedAsShown ==
    [][/\ part = "guests" => Guests!OwnProof
       /\ part = "route" => Route!OwnBytes']_routeVars

\* What a call returns is the answer to its own command, although a shared
\* connection carries the replies earlier callers gave up on: a Get never
\* returns what was stored under another key, and a command reported as done
\* was executed by Valkey (roundTrip).
RepliesMatch ==
    /\ part = "replies" => Replies!HitsOwnKey
    /\ part = "valkey" => Valkey!AckedExecuted
=============================================================================
