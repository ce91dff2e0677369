------------------------------ MODULE MCAccess ------------------------------
(***************************************************************************)
(* Who is asking, and of which server, side by side: the identity of the   *)
(* installation (three callers), the resolution of a caller's token (two   *)
(* requests; one for longer), and                                          *)
(* onboarding: two requests that overlap, one request at a time with two   *)
(* machines, and one beside the refresher of credentials; and how long a   *)
(* record of it all is kept: the janitor (with a failing statement; with   *)
(* settings the API refuses).                                              *)
(*                                                                         *)
(* The initial state chooses the part that moves, a component in one of its *)
(* instances; the variables of the other components rest.  The components  *)
(* share no variable, so a step of one commutes with a step of another and a *)
(* property of one holds in every interleaving iff it holds while the others *)
(* rest: the states to explore add up instead of multiplying.              *)
(***************************************************************************)
EXTENDS InstallIdentity, Sequences, TLC

CONSTANT Requests   \* requests of a client, or of the admin panel

VARIABLES
    part,   \* the part that moves
    now, db, tv, accepted, flaps, link, mem, srvAt, req, lastYes, refused, clean,   \* Identity
    pin, mode, pending, expires, verified, servers, reqs, pins, tokens, revoked,   \* Onboarding
    reachable, listed, prefs, moves, faults, earned, proven,
    rows, session, settings, patch, purge, inForce, failures   \* Retention

\* Connections as plex.tv lists them: one that does not resolve before a
\* public one, behind the proxy's own URL or a private one, and a list whose
\* public connections are relayed or local.
Conn(h, s, relay, local, r) ==
    [host |-> h, https |-> s, relay |-> relay, local |-> local, resolves |-> r]
Edge == Conn("edge", TRUE, FALSE, FALSE, "public")
Unresolved == Conn("dns", TRUE, FALSE, FALSE, "unknown")
Public == Conn("wan", TRUE, FALSE, FALSE, "public")
Docker == Conn("docker", TRUE, FALSE, FALSE, "private")
Relayed == Conn("relay", TRUE, TRUE, FALSE, "public")
Lan == Conn("lan", FALSE, FALSE, TRUE, "public")
Usable == <<Edge, Unresolved, Public>>
Published == << <<Edge, Docker, Unresolved, Public>>, <<Docker, Unresolved, Relayed, Lan>> >>

Symmetric == Permutations(Requests)

Resolver == INSTANCE Identity
    WITH MemTTL <- 1, Validity <- 2, Revalidate <- 1, ServerTTL <- 1, Delay <- 1,
         MaxTime <- 3, MaxFlaps <- 2

Aging == INSTANCE Identity
    WITH Requests <- {"request"}, MemTTL <- 2, Validity <- 3, Revalidate <- 1, ServerTTL <- 1,
         Delay <- 1, MaxTime <- 7, MaxFlaps <- 1

Overlap == INSTANCE Onboarding
    WITH Machines <- {"m1"}, ConnectionLists <- <<Usable>>, MaxPins <- 0, MaxTokens <- 2,
         MaxServers <- 2, MaxFaults <- 1, MaxMoves <- 0, req <- reqs, origin <- reachable

Alone == INSTANCE Onboarding
    WITH Requests <- {"request"}, Machines <- {"m1", "m2"}, ConnectionLists <- Published,
         MaxPins <- 1, MaxTokens <- 2, MaxServers <- 2, MaxFaults <- 0, MaxMoves <- 1,
         req <- reqs, origin <- reachable

Renewal == INSTANCE Onboarding
    WITH Requests <- {"request"}, Machines <- {"m1"}, ConnectionLists <- <<Usable>>,
         MaxPins <- 1, MaxTokens <- 3, MaxServers <- 2, MaxFaults <- 0, MaxMoves <- 0,
         req <- reqs, origin <- reachable

Janitor == INSTANCE Retention
    WITH Startup <- [playback |-> 1, audit |-> 0], Sent <- {1}, MaxDays <- 1, MaxAge <- 2,
         Rows <- {1}, Batch <- 1, MaxFaults <- 1, pass <- purge, faults <- failures

Refused == INSTANCE Retention
    WITH Startup <- [playback |-> 1, audit |-> 0], Sent <- {0}, MaxDays <- 1, MaxAge <- 2,
         Rows <- {1}, Batch <- 1, MaxFaults <- 0, pass <- purge, faults <- failures

ASSUME ResolverIdentityConstants == Resolver!IdentityConstants
ASSUME JanitorAgesAssumption == Janitor!AgesAssumption

-----------------------------------------------------------------------------
Rest == "rests"

ResolverRests ==
    /\ now = Rest /\ db = Rest /\ tv = Rest /\ accepted = Rest /\ flaps = Rest
    /\ link = Rest /\ mem = Rest /\ srvAt = Rest /\ req = Rest /\ lastYes = Rest
    /\ refused = Rest /\ clean = Rest
OverlapRests ==
    /\ pin = Rest /\ mode = Rest /\ pending = Rest /\ expires = Rest /\ verified = Rest
    /\ servers = Rest /\ reqs = Rest /\ pins = Rest /\ tokens = Rest /\ revoked = Rest
    /\ reachable = Rest /\ listed = Rest /\ prefs = Rest /\ moves = Rest
    /\ faults = Rest /\ earned = Rest /\ proven = Rest
JanitorRests ==
    /\ rows = Rest /\ session = Rest /\ settings = Rest /\ patch = Rest /\ purge = Rest
    /\ inForce = Rest /\ failures = Rest

identityVars == <<now, db, tv, accepted, flaps, link, mem, srvAt, req, lastYes,
                  refused, clean>>
onboardingVars == <<pin, mode, pending, expires, verified, servers, reqs, pins,
                    tokens, revoked, reachable, listed, prefs, moves, faults,
                    earned, proven>>
janitorVars == <<rows, session, settings, patch, purge, inForce, failures>>

AccessInit ==
    /\ part \in {"install", "identity", "aging", "overlap", "alone", "renewal", "janitor", "refused"}
    /\ Init
    /\ CASE part = "identity" -> Resolver!Init
         [] part = "aging" -> Aging!Init
         [] OTHER -> ResolverRests
    /\ CASE part = "overlap" -> Overlap!Init
         [] part = "alone" -> Alone!Init
         [] part = "renewal" -> Renewal!Init
         [] OTHER -> OverlapRests
    /\ CASE part = "janitor" -> Janitor!Init
         [] part = "refused" -> Refused!Init
         [] OTHER -> JanitorRests

AccessNext ==
    \/ /\ part = "install" /\ Next
       /\ UNCHANGED <<part, identityVars, onboardingVars, janitorVars>>
    \/ /\ part = "identity" /\ Resolver!Next
       /\ UNCHANGED <<part, vars, onboardingVars, janitorVars>>
    \/ /\ part = "aging" /\ Aging!Next
       /\ UNCHANGED <<part, vars, onboardingVars, janitorVars>>
    \/ /\ part = "overlap" /\ Overlap!Next
       /\ UNCHANGED <<part, vars, identityVars, janitorVars>>
    \/ /\ part = "alone" /\ Alone!Next
       /\ UNCHANGED <<part, vars, identityVars, janitorVars>>
    \/ /\ part = "renewal" /\ Renewal!Next
       /\ UNCHANGED <<part, vars, identityVars, janitorVars>>
    \/ /\ part = "janitor" /\ Janitor!Next
       /\ UNCHANGED <<part, vars, identityVars, onboardingVars>>
    \/ /\ part = "refused" /\ Refused!Next
       /\ UNCHANGED <<part, vars, identityVars, onboardingVars>>

accessVars == <<part, vars, identityVars, onboardingVars, janitorVars>>

AccessSpec == AccessInit /\ [][AccessNext]_accessVars

-----------------------------------------------------------------------------
\* Every part keeps the types of its state.
AccessTypeOK ==
    /\ part = "identity" => Resolver!TypeOK
    /\ part = "aging" => Aging!TypeOK
    /\ part = "overlap" => Overlap!TypeOK
    /\ part = "alone" => Alone!TypeOK
    /\ part = "renewal" => Renewal!TypeOK
    /\ part = "janitor" => Janitor!TypeOK
    /\ part = "refused" => Refused!TypeOK

\* What the resolver says of a token was shown by plex.tv.  "Fresh means the
\* credential was proven valid within credentialValidityPeriod", give or take
\* the time an answer is kept; "only definitive 401/403 responses earn the
\* one-hour negative cache"; and with Postgres sound "a previous link still
\* resolves from the table" (resolve).
AnswersProven ==
    /\ part = "aging" => Aging!FreshIsProven
    /\ part = "identity" => Resolver!InvalidIsProven /\ Resolver!LinkHolds

\* What is recorded of the enabled binding was earned by it.  The panel says
\* verified only of a machine that passed the checks, and, with one request at
\* a time, only of the binding that passed them: "reselecting a server can
\* never inherit a stale verified state".  Its media origin can be reached by
\* clients, and a refresh never gives it the token of an earlier owner
\* (Status, selectMediaOrigin, RefreshOwnerJWT).
BindingEarned ==
    /\ part = "alone" => Alone!VerifiedProven /\ Alone!VerifiedEarned
    /\ part = "overlap" => Overlap!VerifiedProven /\ Overlap!MediaOriginReachable
    /\ part = "renewal" => Renewal!RefreshKeepsLineage

\* The janitor removes nothing that is still within its retention (PurgeOnce,
\* "without removing active sessions or unexpired audit data").
UnexpiredKept == [][part = "janitor" => Janitor!UnexpiredKept]_janitorVars
=============================================================================
