----------------------------- MODULE Onboarding -----------------------------
(***************************************************************************)
(* Owner onboarding (internal/onboarding): claiming a PIN or pasting a     *)
(* token, binding one PMS, verifying the binding, and the hourly refresh   *)
(* of the owner's JWT.                                                     *)
(*                                                                         *)
(* State lives in rows of app_settings, read and written one statement at  *)
(* a time, and in plex_servers with its owner credential, written in one   *)
(* transaction.  Each request to plex.tv or PMS and each statement is a    *)
(* step, so requests of the admin panel and the refresh interleave.        *)
(* Numbers name PINs, tokens and server rows in the order they appear.     *)
(* delSetting drops its error: with MaxFaults > 0 a delete may do nothing, *)
(* a checked statement may fail and end the request, and the process may   *)
(* stop between two statements.  The credential's status column is written *)
(* but never read, and the PIN's code is only shown; both are left out.    *)
(***************************************************************************)
EXTENDS Naturals, Sequences, FiniteSets, SequencesExt

CONSTANTS
    Requests,       \* concurrent requests of the admin panel
    Machines,       \* machine identifiers of PMS installations
    ConnectionLists,\* the lists of connections plex.tv may publish for the resource
    MaxPins, MaxTokens, MaxServers, MaxFaults, MaxMoves  \* bounds

None == 0
NoMachine == "none"
Refresher == "refresher"
Procs == Requests \cup {Refresher}

VARIABLES
    pin,            \* onboarding.pin_id
    mode,           \* onboarding.auth_mode
    pending,        \* onboarding.owner_token
    expires,        \* onboarding.owner_expires: the token whose expiry it is
    verified,       \* onboarding.verified
    servers,        \* plex_servers with credentials: [machine, media, token, bound]; the last is enabled
    req,            \* what each request holds in memory
    pins,           \* plex.tv: number of PINs issued
    tokens,         \* plex.tv: owner tokens [jwt, near (24 h of expiry), root (renewed from)]
    revoked,        \* plex.tv: tokens it no longer accepts
    origin,         \* the machine that answers at the internal URL
    listed,         \* plex.tv: which of ConnectionLists it publishes
    prefs,          \* PMS: customConnections
    moves, faults,  \* bounds
    earned,         \* history: server rows that passed a verification
    proven          \* history: machines that passed a verification

settings == <<pin, mode, pending, expires, verified>>
external == <<pins, tokens, revoked, origin, listed, prefs, moves>>
history == <<earned, proven>>
vars == <<settings, servers, req, external, faults, history>>

Idle == [at |-> "idle", pin |-> None, token |-> None, row |-> None, machine |-> NoMachine, media |-> <<>>,
         pasted |-> FALSE]

\* The resource publishes a connection for the proxy's public hostname
Connections == ConnectionLists[listed]
CustomURLPresent == \E i \in DOMAIN Connections : Connections[i].host = "edge"

Init ==
    /\ pin = None /\ mode = "none" /\ pending = None /\ expires = None /\ verified = NoMachine
    /\ servers = <<>>
    /\ req = [p \in Procs |-> Idle]
    /\ pins = 0 /\ tokens = <<>> /\ revoked = {}
    /\ origin \in Machines
    /\ listed \in DOMAIN ConnectionLists
    /\ prefs \in {{"other"}, {"edge", "other"}}
    /\ CustomURLPresent => "edge" \in prefs
    /\ moves = 0 /\ faults = 0
    /\ earned = {} /\ proven = {}

-----------------------------------------------------------------------------
At(p, s) == req[p].at = s
To(p, s) == req' = [req EXCEPT ![p].at = s]
End(p) == req' = [req EXCEPT ![p] = Idle]
Fault == faults < MaxFaults /\ faults' = faults + 1
NoFault == UNCHANGED faults

Enabled == Len(servers)
Current == servers[Enabled]

\* delSetting: the deletion, or nothing
Deletes(deletion, kept) == (deletion /\ NoFault) \/ (kept /\ Fault)

\* A request ends early: an error of plex.tv, PMS or a checked statement, or
\* the process stops
Abort(p) ==
    /\ ~At(p, "idle")
    /\ Fault
    /\ End(p)
    /\ UNCHANGED <<settings, servers, external, history>>

-----------------------------------------------------------------------------
(* IssuePIN *)

\* CreatePINJWT, or CreatePIN when plex.tv rejects the JWK; then the mode
IssuePIN(p) ==
    /\ At(p, "idle") /\ p # Refresher
    /\ pins < MaxPins
    /\ pins' = pins + 1
    /\ \E m \in {"jwt", "legacy"} : mode' = m
    /\ req' = [req EXCEPT ![p].at = "issue.void", ![p].pin = pins + 1]
    /\ NoFault
    /\ UNCHANGED <<pin, pending, expires, verified, servers, tokens, revoked, origin, listed, prefs, moves, history>>

IssueVoids(p) ==
    /\ At(p, "issue.void")
    /\ Deletes(verified' = NoMachine, UNCHANGED verified)
    /\ To(p, "issue.pin")
    /\ UNCHANGED <<pin, mode, pending, expires, servers, external, history>>

IssueSaves(p) ==
    /\ At(p, "issue.pin")
    /\ pin' = req[p].pin
    /\ End(p) /\ NoFault
    /\ UNCHANGED <<mode, pending, expires, verified, servers, external, history>>

-----------------------------------------------------------------------------
(* PollClaim and SubmitToken *)

PollClaim(p) ==
    /\ At(p, "idle") /\ p # Refresher
    /\ pin # None
    /\ req' = [req EXCEPT ![p].at = "poll.ask"]
    /\ NoFault
    /\ UNCHANGED <<settings, servers, external, history>>

\* plex.tv hands out an owner token: a JWT, which may be near its expiry, or
\* a legacy token; renewing from
Minted == Len(tokens) + 1
Mint(jwt, near, from) ==
    /\ Len(tokens) < MaxTokens
    /\ near => jwt
    /\ tokens' = Append(tokens, [jwt |-> jwt, near |-> near,
                                root |-> IF from = None THEN Minted ELSE tokens[from].root])

\* pollByMode: in the recorded mode, falling back to legacy for good when
\* plex.tv rejects the device JWT; an unclaimed PIN ends the poll, a claimed
\* one yields a token that GetUser accepts
PollAsks(p) ==
    /\ At(p, "poll.ask")
    /\ \E m \in {mode, "legacy"} :
        /\ mode' = m
        /\ \/ End(p) /\ UNCHANGED tokens
           \/ /\ \E near \in BOOLEAN : Mint(m # "legacy", near, None)
              /\ req' = [req EXCEPT ![p].at = "claim.expiry", ![p].token = Minted]
    /\ NoFault
    /\ UNCHANGED <<pin, pending, expires, verified, servers, pins, revoked, origin, listed, prefs, moves, history>>

\* SubmitToken: GetUser accepts the pasted token
SubmitToken(p) ==
    /\ At(p, "idle") /\ p # Refresher
    /\ \E jwt, near \in BOOLEAN : Mint(jwt, near, None)
    /\ req' = [req EXCEPT ![p].at = "claim.expiry", ![p].token = Minted, ![p].pasted = TRUE]
    /\ NoFault
    /\ UNCHANGED <<settings, servers, pins, revoked, origin, listed, prefs, moves, history>>

ClaimExpiry(p) ==
    /\ At(p, "claim.expiry")
    /\ Deletes(expires' = IF tokens[req[p].token].jwt THEN req[p].token ELSE None, UNCHANGED expires)
    /\ To(p, "claim.token")
    /\ UNCHANGED <<pin, mode, pending, verified, servers, external, history>>

ClaimSaves(p) ==
    /\ At(p, "claim.token")
    /\ pending' = req[p].token
    /\ To(p, "claim.pin") /\ NoFault
    /\ UNCHANGED <<pin, mode, expires, verified, servers, external, history>>

ClaimRetiresPIN(p) ==
    /\ At(p, "claim.pin")
    /\ Deletes(pin' = None, UNCHANGED pin)
    /\ To(p, "claim.void")
    /\ UNCHANGED <<mode, pending, expires, verified, servers, external, history>>

ClaimVoids(p) ==
    /\ At(p, "claim.void")
    /\ Deletes(verified' = NoMachine, UNCHANGED verified)
    /\ IF req[p].pasted THEN To(p, "submit.mode") ELSE End(p)
    /\ UNCHANGED <<pin, mode, pending, expires, servers, external, history>>

SubmitMode(p) ==
    /\ At(p, "submit.mode")
    /\ Deletes(mode' = "legacy", UNCHANGED mode)
    /\ End(p)
    /\ UNCHANGED <<pin, pending, expires, verified, servers, external, history>>

-----------------------------------------------------------------------------
(* SelectResource *)

\* Mutant: the selection keeps the pending token.
SelectResourcePending(p) ==
    /\ At(p, "idle") /\ p # Refresher
    /\ pending # None \/ servers # <<>>
    /\ \E m \in Machines :
        req' = [req EXCEPT ![p].at = "select.look", ![p].machine = m, ![p].token = pending]
    /\ NoFault
    /\ UNCHANGED <<settings, servers, external, history>>

\* ownerTokenForAdmin: the pending token, else the stored credential
SelectResource(p) ==
    /\ At(p, "idle") /\ p # Refresher
    /\ pending # None \/ servers # <<>>
    /\ \E m \in Machines :
        req' = [req EXCEPT ![p].at = "select.look", ![p].machine = m,
                           ![p].token = IF pending # None THEN pending ELSE Current.token]
    /\ NoFault
    /\ UNCHANGED <<settings, servers, external, history>>

\* selectMediaOrigin: https, neither relay nor local, not this proxy; the
\* first that is proven public, else the first that does not resolve
Candidate(c) == c.https /\ ~c.relay /\ ~c.local /\ c.host # "edge"
selectMediaOrigin(cs) ==
    FoldLeft(LAMBDA found, i :
                IF found.done \/ ~Candidate(cs[i]) THEN found
                ELSE IF cs[i].resolves = "public" THEN [done |-> TRUE, at |-> i]
                ELSE IF cs[i].resolves = "unknown" /\ found.at = None THEN [found EXCEPT !.at = i]
                ELSE found,
             [done |-> FALSE, at |-> None], [i \in DOMAIN cs |-> i]).at

\* The owner's resource, the origin's identity and the media origin: a
\* revoked token, another machine or no usable connection ends the request
SelectLooks(p) ==
    /\ At(p, "select.look")
    /\ LET media == selectMediaOrigin(Connections) IN
       IF req[p].token \in revoked \/ origin # req[p].machine \/ media = None
       THEN End(p)
       ELSE req' = [req EXCEPT ![p].at = "select.save", ![p].media = <<listed, media>>]
    /\ NoFault
    /\ UNCHANGED <<settings, servers, external, history>>

\* One transaction under an advisory lock: every server is disabled, the new
\* one and its credential inserted
SelectSaves(p) ==
    /\ At(p, "select.save")
    /\ Len(servers) < MaxServers
    /\ servers' = Append(servers, [machine |-> req[p].machine, media |-> req[p].media,
                                  token |-> req[p].token, bound |-> req[p].token])
    /\ To(p, "select.token") /\ NoFault
    /\ UNCHANGED <<settings, external, history>>

SelectDropsToken(p) ==
    /\ At(p, "select.token")
    /\ Deletes(pending' = None, UNCHANGED pending)
    /\ To(p, "select.void")
    /\ UNCHANGED <<pin, mode, expires, verified, servers, external, history>>

SelectVoids(p) ==
    /\ At(p, "select.void")
    /\ Deletes(verified' = NoMachine, UNCHANGED verified)
    /\ End(p)
    /\ UNCHANGED <<pin, mode, pending, expires, servers, external, history>>

-----------------------------------------------------------------------------
(* Verify *)

Verify(p) ==
    /\ At(p, "idle") /\ p # Refresher
    /\ servers # <<>>
    /\ req' = [req EXCEPT ![p].at = "verify.origin", ![p].row = Enabled, ![p].token = Current.token]
    /\ NoFault
    /\ UNCHANGED <<settings, servers, external, history>>

\* The origin's identity; it must be the bound machine
VerifyOrigin(p) ==
    /\ At(p, "verify.origin")
    /\ req' = [req EXCEPT ![p].at = "verify.proxied", ![p].machine = origin]
    /\ NoFault
    /\ UNCHANGED <<settings, servers, external, history>>

TripleMatch(o, resource, proxied) == o = resource /\ resource = proxied

\* The resource list and the proxied identity
VerifyProxied(p) ==
    /\ At(p, "verify.proxied")
    /\ IF req[p].token \in revoked \/ ~TripleMatch(req[p].machine, servers[req[p].row].machine, origin)
       THEN End(p)
       ELSE To(p, IF CustomURLPresent THEN "verify.status" ELSE "verify.configure")
    /\ NoFault
    /\ UNCHANGED <<settings, servers, external, history>>

\* tryConfigureCustomURL: the preference is replaced, unless PMS refuses
VerifyConfigures(p) ==
    /\ At(p, "verify.configure")
    /\ \/ prefs' = {"edge"} /\ To(p, "verify.relist")
       \/ UNCHANGED prefs /\ End(p)
    /\ NoFault
    /\ UNCHANGED <<settings, servers, pins, tokens, revoked, origin, listed, moves, history>>

VerifyRelists(p) ==
    /\ At(p, "verify.relist")
    /\ IF CustomURLPresent THEN To(p, "verify.status") ELSE End(p)
    /\ NoFault
    /\ UNCHANGED <<settings, servers, external, history>>

\* The credential's status, by row
VerifyMarks(p) ==
    /\ At(p, "verify.status")
    /\ earned' = earned \cup {req[p].row}
    /\ proven' = proven \cup {req[p].machine}
    /\ To(p, "verify.save") /\ NoFault
    /\ UNCHANGED <<settings, servers, external>>

\* The setting, by machine
VerifySaves(p) ==
    /\ At(p, "verify.save")
    /\ verified' = req[p].machine
    /\ End(p) /\ NoFault
    /\ UNCHANGED <<pin, mode, pending, expires, servers, external, history>>

-----------------------------------------------------------------------------
(* RefreshOwnerJWT, hourly *)

RefreshDue == mode # "legacy" /\ expires # None /\ tokens[expires].near

RefreshReads ==
    /\ At(Refresher, "idle")
    /\ RefreshDue /\ servers # <<>>
    /\ req' = [req EXCEPT ![Refresher].at = "refresh.nonce", ![Refresher].row = Enabled,
                          ![Refresher].token = Current.token]
    /\ NoFault
    /\ UNCHANGED <<settings, servers, external, history>>

\* Nonce and RefreshToken; a rejection degrades the credential
RefreshAsks ==
    /\ At(Refresher, "refresh.nonce")
    /\ IF req[Refresher].token \in revoked
       THEN /\ End(Refresher)
            /\ UNCHANGED tokens
       ELSE /\ Mint(TRUE, FALSE, req[Refresher].token)
            /\ req' = [req EXCEPT ![Refresher].at = "refresh.save", ![Refresher].token = Minted]
    /\ NoFault
    /\ UNCHANGED <<settings, servers, pins, revoked, origin, listed, prefs, moves, history>>

\* Mutant: a refresh is saved to the binding enabled by then.
RefreshSavesEnabled ==
    /\ At(Refresher, "refresh.save")
    /\ servers' = [servers EXCEPT ![Enabled].token = req[Refresher].token]
    /\ To(Refresher, "refresh.expiry") /\ NoFault
    /\ UNCHANGED <<settings, external, history>>

RefreshSaves ==
    /\ At(Refresher, "refresh.save")
    /\ servers' = [servers EXCEPT ![req[Refresher].row].token = req[Refresher].token]
    /\ To(Refresher, "refresh.expiry") /\ NoFault
    /\ UNCHANGED <<settings, external, history>>

RefreshExpiry ==
    /\ At(Refresher, "refresh.expiry")
    /\ Deletes(expires' = req[Refresher].token, UNCHANGED expires)
    /\ End(Refresher)
    /\ UNCHANGED <<pin, mode, pending, verified, servers, external, history>>

-----------------------------------------------------------------------------
(* plex.tv, the origin and time *)

Move == moves < MaxMoves /\ moves' = moves + 1

Reinstall ==
    /\ Move
    /\ \E m \in Machines \ {origin} : origin' = m
    /\ UNCHANGED <<settings, servers, req, pins, tokens, revoked, listed, prefs, faults, history>>

Relist ==
    /\ Move
    /\ \E l \in DOMAIN ConnectionLists \ {listed} :
        /\ listed' = l
        /\ CustomURLPresent' = ("edge" \in prefs)
    /\ UNCHANGED <<settings, servers, req, pins, tokens, revoked, origin, prefs, faults, history>>

Revoke(t) ==
    /\ Move
    /\ t \notin revoked /\ revoked' = revoked \cup {t}
    /\ UNCHANGED <<settings, servers, req, pins, tokens, origin, listed, prefs, faults, history>>

NearExpiry(t) ==
    /\ tokens[t].jwt /\ ~tokens[t].near
    /\ tokens' = [tokens EXCEPT ![t].near = TRUE]
    /\ UNCHANGED <<settings, servers, req, pins, revoked, origin, listed, prefs, moves, faults, history>>

-----------------------------------------------------------------------------
Next ==
    \/ \E p \in Requests :
        \/ IssuePIN(p) \/ IssueVoids(p) \/ IssueSaves(p)
        \/ PollClaim(p) \/ PollAsks(p) \/ SubmitToken(p)
        \/ ClaimExpiry(p) \/ ClaimSaves(p) \/ ClaimRetiresPIN(p) \/ ClaimVoids(p) \/ SubmitMode(p)
        \/ SelectResource(p) \/ SelectLooks(p) \/ SelectSaves(p) \/ SelectDropsToken(p) \/ SelectVoids(p)
        \/ Verify(p) \/ VerifyOrigin(p) \/ VerifyProxied(p) \/ VerifyConfigures(p)
        \/ VerifyRelists(p) \/ VerifyMarks(p) \/ VerifySaves(p)
    \/ \E p \in Procs : Abort(p)
    \/ RefreshReads \/ RefreshAsks \/ RefreshSaves \/ RefreshExpiry
    \/ Reinstall \/ Relist
    \/ \E t \in DOMAIN tokens : Revoke(t) \/ NearExpiry(t)

Spec == Init /\ [][Next]_vars

-----------------------------------------------------------------------------
\* Status: what the admin panel reports
Stage ==
    IF servers # <<>> /\ verified = Current.machine THEN "verified"
    ELSE IF servers # <<>> THEN "selected"
    ELSE IF pending # None THEN "owner_authenticated"
    ELSE IF pin # None THEN "pin_issued" ELSE "pending"

Resting == \A p \in Procs : At(p, "idle")

TypeOK ==
    /\ pin \in 0..MaxPins /\ pins \in 0..MaxPins /\ mode \in {"none", "jwt", "legacy"}
    /\ pending \in 0..Len(tokens) /\ expires \in 0..Len(tokens)
    /\ verified \in Machines \cup {NoMachine}
    /\ \A i \in DOMAIN servers : servers[i].machine \in Machines /\ servers[i].token \in DOMAIN tokens
    /\ \A t \in DOMAIN tokens : tokens[t].near => tokens[t].jwt
    /\ \A p \in Procs : req[p].token \in 0..Len(tokens) /\ req[p].row \in 0..Len(servers)

(* The panel says verified only of a machine that passed the identity and  *)
(* Custom URL checks, whatever requests overlap, fail or stop half way     *)
(* (Status compares the setting with the enabled server).                  *)
VerifiedProven == Stage = "verified" => Current.machine \in proven

(* Once requests have finished, verified means that the enabled binding    *)
(* itself was verified: "reselecting a server can never inherit a stale    *)
(* verified state".                                                        *)
VerifiedEarned == Resting /\ Stage = "verified" => Enabled \in earned

(* Media is only ever sent to a connection of the bound resource that      *)
(* clients may reach: https, neither local nor relayed, not this proxy,    *)
(* not private, and proven public if the resource has a public one.        *)
MediaOriginReachable ==
    \A i \in DOMAIN servers :
        LET list == ConnectionLists[servers[i].media[1]]
            c == list[servers[i].media[2]]
        IN  /\ Candidate(c) /\ c.resolves # "private"
            /\ (\E k \in DOMAIN list : Candidate(list[k]) /\ list[k].resolves = "public")
                => c.resolves = "public"

(* A refresh renews the credential of the binding it read: it never puts   *)
(* the renewed token of an earlier owner into a newer binding.             *)
RefreshKeepsLineage == \A i \in DOMAIN servers : tokens[servers[i].token].root = tokens[servers[i].bound].root

=============================================================================
