---------------------------- MODULE ArtworkRoute ----------------------------
(***************************************************************************)
(* The artwork route of the proxy (internal/proxy/proxy.go, serveArtwork): *)
(* the shared store, seen as the promise it keeps, composed with the       *)
(* leases of the process and with PMS.                                     *)
(*                                                                         *)
(* A variant key is bound to the scope of the account, so several          *)
(* credentials of one account share keys; leases do not.                   *)
(***************************************************************************)
EXTENDS Integers

CONSTANTS
    Requests, Fingerprints, Variants, Digests, None

VARIABLES
    content, served,    \* the store
    grants,             \* leases: pairs of a credential and a key
    req,                \* the handler of each request
    reserved,           \* requests that hold a reservation
    accepted,           \* credentials PMS accepts
    proven,             \* history: what PMS answered to whom
    answered            \* history: every body PMS gave for a key

store == <<content, served>>
vars == <<content, served, grants, req, reserved, accepted, proven, answered>>

Store == INSTANCE ArtworkPromise

Idle == [pc |-> "idle"]
Request == [pc : {"lookup", "reserve", "fetch", "commit", "grant"},
            fp : Fingerprints, key : Variants, body : Digests \cup {None}]

TypeOK ==
    /\ content \in [Variants -> Digests \cup {None}]
    /\ served \in {None} \cup (Variants \X Digests)
    /\ grants \subseteq Fingerprints \X Variants
    /\ req \in [Requests -> Request \cup {Idle}]
    /\ reserved \subseteq Requests
    /\ accepted \subseteq Fingerprints
    /\ proven \subseteq Fingerprints \X Variants
    /\ answered \in [Variants -> SUBSET Digests]

Init ==
    /\ Store!Init
    /\ grants = {} /\ reserved = {} /\ proven = {}
    /\ req = [q \in Requests |-> Idle]
    /\ accepted = Fingerprints
    /\ answered = [k \in Variants |-> {}]

At(q, pc) == req[q].pc = pc
Goto(q, pc) == req' = [req EXCEPT ![q].pc = pc]

\* Leaving the handler runs the deferred Cancel.
End(q) == req' = [req EXCEPT ![q] = Idle] /\ reserved' = reserved \ {q}

\* A request the route takes: an artwork transcode, complete and
\* unconditional, of a caller whose identity is fresh, on a ready store.
\* Every other request bypasses the store and is not a step of this module.
Arrive(q, f, k) ==
    /\ req[q] = Idle
    /\ req' = [req EXCEPT ![q] = [pc |-> "lookup", fp |-> f, key |-> k, body |-> None]]
    /\ served' = None
    /\ UNCHANGED <<content, grants, reserved, accepted, proven, answered>>

\* Mutant: a stored body is served to whoever asks for its key.
AuthorizedByExistence(f, k) == TRUE

Authorized(f, k) == <<f, k>> \in grants

Hit(q) ==
    /\ At(q, "lookup")
    /\ Authorized(req[q].fp, req[q].key)
    /\ Store!Hit(req[q].key)
    /\ End(q)
    /\ UNCHANGED <<grants, accepted, proven, answered>>

\* No lease, or the store misses (it may miss at any time).
Miss(q) ==
    /\ At(q, "lookup")
    /\ Goto(q, "reserve") /\ served' = None
    /\ UNCHANGED <<content, grants, reserved, accepted, proven, answered>>

Reserve(q) ==
    /\ At(q, "reserve")
    /\ reserved' = reserved \cup {q} /\ Goto(q, "fetch") /\ served' = None
    /\ UNCHANGED <<content, grants, accepted, proven, answered>>

\* No capacity, a failed fetch, an oversized body: the normal proxy takes
\* the request over and nothing is stored here.
Decline(q) ==
    /\ At(q, "reserve") \/ At(q, "fetch")
    /\ End(q) /\ served' = None
    /\ UNCHANGED <<content, grants, accepted, proven, answered>>

\* PMS accepts the credential and sends a storable image, or one that is not
\* stored (status, headers or type): that one is relayed and forgotten.
Fetch(q) ==
    /\ At(q, "fetch") /\ req[q].fp \in accepted
    /\ \/ \E d \in Digests :
            /\ req' = [req EXCEPT ![q].pc = "commit", ![q].body = d]
            /\ answered' = [answered EXCEPT ![req[q].key] = @ \cup {d}]
            /\ proven' = proven \cup {<<req[q].fp, req[q].key>>}
            /\ UNCHANGED reserved
       \/ End(q) /\ UNCHANGED <<answered, proven>>
    /\ served' = None
    /\ UNCHANGED <<content, grants, accepted>>

\* PMS rejects the credential: every lease of the caller is revoked.
Rejected(q) ==
    /\ At(q, "fetch") /\ req[q].fp \notin accepted
    /\ grants' = {g \in grants : g[1] # req[q].fp}
    /\ End(q) /\ served' = None
    /\ UNCHANGED <<content, accepted, proven, answered>>

Commit(q) ==
    /\ At(q, "commit") /\ q \in reserved
    /\ Store!Publish(req[q].key, req[q].body)
    /\ Goto(q, "grant")
    /\ UNCHANGED <<grants, reserved, accepted, proven, answered>>

CommitFails(q) ==
    /\ At(q, "commit")
    /\ End(q) /\ served' = None
    /\ UNCHANGED <<content, grants, accepted, proven, answered>>

Grant(q) ==
    /\ At(q, "grant")
    /\ grants' = grants \cup {<<req[q].fp, req[q].key>>}
    /\ End(q) /\ served' = None
    /\ UNCHANGED <<content, accepted, proven, answered>>

\* The store forgets keys, leases run out, the process restarts, and PMS
\* changes its mind about a credential.
Forget(K) ==
    /\ Store!Forget(K)
    /\ UNCHANGED <<grants, req, reserved, accepted, proven, answered>>

LeaseEnds(g) ==
    /\ g \in grants
    /\ grants' = grants \ {g} /\ served' = None
    /\ UNCHANGED <<content, req, reserved, accepted, proven, answered>>

\* Proofs do not outlive the process: `proven' starts over.
Restart ==
    /\ grants' = {} /\ req' = [q \in Requests |-> Idle] /\ reserved' = {}
    /\ proven' = {} /\ served' = None
    /\ UNCHANGED <<content, accepted, answered>>

ChangeAccess(f) ==
    /\ accepted' = IF f \in accepted THEN accepted \ {f} ELSE accepted \cup {f}
    /\ served' = None
    /\ UNCHANGED <<content, grants, req, reserved, proven, answered>>

Step(q) ==
    \/ Hit(q)
    \/ Miss(q)
    \/ Reserve(q)
    \/ Decline(q)
    \/ Fetch(q)
    \/ Rejected(q)
    \/ Commit(q)
    \/ CommitFails(q)
    \/ Grant(q)

Next ==
    \/ \E q \in Requests, f \in Fingerprints, k \in Variants : Arrive(q, f, k)
    \/ \E q \in Requests : Step(q)
    \/ \E K \in SUBSET Variants : K # {} /\ Forget(K)
    \/ \E g \in grants : LeaseEnds(g)
    \/ Restart
    \/ \E f \in Fingerprints : ChangeAccess(f)

Spec == Init /\ [][Next]_vars

----------------------------------------------------------------------------
\* A body is served from disk to a credential only if PMS, since this process
\* started, has answered that very credential for that very key; another
\* credential of the account, or the existence of the bytes, is no proof.
OwnProof ==
    \A q \in Requests : (At(q, "lookup") /\ served' # None /\ req'[q] = Idle) =>
        <<req[q].fp, req[q].key>> \in proven

\* What is served from disk under a key is a body PMS once gave for that key,
\* although contents are shared between keys.
OwnBytes == served # None => served[2] \in answered[served[1]]
=============================================================================
