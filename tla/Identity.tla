------------------------------ MODULE Identity ------------------------------
(***************************************************************************)
(* Who a token belongs to: the resolver of internal/identity/identity.go,  *)
(* followed by the policy load that uses its answer                        *)
(* (internal/policy/load.go, called from the playback engine).             *)
(*                                                                         *)
(* One token fingerprint, resolved by concurrent requests.  Each request   *)
(* consults the process-local cache, then the link table in Postgres, then *)
(* plex.tv, and writes what it learnt back to the table and the cache.     *)
(* Postgres may be flaky (every statement may fail), plex.tv may be        *)
(* unreachable, and the account may be revoked at any moment.  Time passes *)
(* between any two steps; a request takes at most Delay.                   *)
(*                                                                         *)
(* A fingerprint is made from a token, so the branches for a request       *)
(* without one are not reachable and are left out, as is the recording of  *)
(* client instances, which changes no answer about the account.            *)
(***************************************************************************)
EXTENDS Integers, FiniteSets

CONSTANTS Requests,
          MemTTL,          \* memTTL
          Validity,        \* credentialValidityPeriod
          Revalidate,      \* revalidateAfter
          ServerTTL,       \* the minute enabledServer keeps its answer
          Delay,           \* the five-second timeout of a resolution
          MaxTime, MaxFlaps

IdentityConstants ==
    /\ MemTTL \in Nat \ {0} /\ Validity \in Nat \ {0}
    /\ Revalidate \in Nat \ {0} /\ ServerTTL \in Nat \ {0} /\ Delay \in Nat /\ MaxTime \in Nat

VARIABLES
    now,
    db,         \* Postgres: "ok" or "flaky"
    tv,         \* plex.tv: "up", "down", or "blank" (an account without an id)
    accepted,   \* whether plex.tv accepts the token
    flaps,
    link,       \* the row of plex_token_identities
    mem,        \* the entry of Resolver.acct
    srvAt,      \* when enabledServer last read the server
    req,        \* the requests
    lastYes,    \* history: when plex.tv last accepted the token
    refused,    \* history: plex.tv has refused the token at some time
    clean       \* history: no statement failed and no answer was blank

vars == <<now, db, tv, accepted, flaps, link, mem, srvAt, req,
          lastYes, refused, clean>>
world == <<now, db, tv, accepted, flaps>>
learnt == <<lastYes, refused>>

Never == -1
\* A link row: its status, whether it names an identity, last_validated_at.
NoLink == [status |-> "none", linked |-> FALSE, at |-> Never]
LinkRow == [status : {"none", "valid", "invalid"}, linked : BOOLEAN, at : Int]

\* Resolved: the scope (of an account or of the token alone) and its flags.
Answer(scope, fresh, invalid, degraded) ==
    [scope |-> scope, fresh |-> fresh, invalid |-> invalid, degraded |-> degraded]
NoAnswer == Answer("none", FALSE, FALSE, FALSE)
Fallback == Answer("tok", FALSE, FALSE, FALSE)
Refused == Answer("tok", FALSE, TRUE, FALSE)
Known(fresh) == Answer("acct", fresh, FALSE, FALSE)

NoEntry == [answer |-> NoAnswer, at |-> Never]
\* "linked" is history: the token had an established link when it began.
NoRequest == [pc |-> "idle", start |-> Never, row |-> NoLink, linked |-> FALSE,
              answer |-> NoAnswer, policy |-> "none"]

TypeOK ==
    /\ now \in 0 .. MaxTime /\ db \in {"ok", "flaky"} /\ tv \in {"up", "down", "blank"}
    /\ accepted \in BOOLEAN /\ refused \in BOOLEAN
    /\ link \in LinkRow /\ (link.linked => link.status = "valid")
    /\ mem.at \in Never .. now /\ srvAt \in Never .. now
    /\ clean \in BOOLEAN
    /\ \A r \in Requests :
          /\ req[r].pc \in {"idle", "server", "row", "ask", "yes", "no", "load"}
          /\ req[r].policy \in {"none", "user", "global", "error"}

Init ==
    /\ now = 0 /\ db = "ok" /\ tv = "up" /\ accepted = TRUE /\ flaps = 0
    /\ link = NoLink /\ mem = NoEntry
    /\ req = [r \in Requests |-> NoRequest]
    /\ lastYes = Never /\ refused = FALSE
    /\ srvAt = Never /\ clean = TRUE

----------------------------------------------------------------------------
(* The world.                                                              *)

Tick ==
    /\ now < MaxTime
    /\ \A r \in Requests : req[r].pc = "idle" \/ now < req[r].start + Delay
    /\ now' = now + 1
    /\ UNCHANGED <<db, tv, accepted, flaps, link, mem, srvAt, req, learnt, clean>>

Flap ==
    /\ flaps < MaxFlaps /\ flaps' = flaps + 1
    /\ \/ db' = (IF db = "ok" THEN "flaky" ELSE "ok") /\ UNCHANGED <<tv, accepted>>
       \/ tv' \in {"up", "down", "blank"} \ {tv} /\ UNCHANGED <<db, accepted>>
       \/ accepted /\ accepted' = FALSE /\ UNCHANGED <<db, tv>>
    /\ UNCHANGED <<now, link, mem, srvAt, req, learnt, clean>>

\* Whether a statement succeeds.
Succeeds(ok) == db = "ok" => ok

----------------------------------------------------------------------------
(* A request.                                                              *)

To(r, pc) == req' = [req EXCEPT ![r].pc = pc]

\* Resolve answers, and stores the answer unless it must be retried soon.
Return(r, answer, store) ==
    /\ req' = [req EXCEPT ![r].pc = "load", ![r].answer = answer]
    /\ mem' = IF store THEN [answer |-> answer, at |-> req[r].start] ELSE mem

\* The process-local cache.
Resolve(r) ==
    /\ req[r].pc = "idle"
    /\ req' = [req EXCEPT ![r] =
         [IF mem.at # Never /\ now - mem.at < MemTTL
          THEN [NoRequest EXCEPT !.pc = "load", !.answer = mem.answer]
          ELSE [NoRequest EXCEPT !.pc = "server"]
          EXCEPT !.start = now, !.linked = link.linked]]
    /\ UNCHANGED <<world, link, mem, srvAt, learnt, clean>>

\* enabledServer keeps its answer for ServerTTL; without a server the fallback
\* is returned and stored.
enabledServer(r) ==
    /\ req[r].pc = "server"
    /\ \/ /\ srvAt # Never /\ now - srvAt < ServerTTL
          /\ To(r, "row") /\ UNCHANGED <<mem, srvAt, clean>>
       \/ /\ srvAt = Never \/ now - srvAt >= ServerTTL
          /\ To(r, "row") /\ srvAt' = now /\ UNCHANGED <<mem, clean>>
       \/ /\ srvAt = Never \/ now - srvAt >= ServerTTL
          /\ db = "flaky"
          /\ Return(r, Fallback, TRUE) /\ clean' = FALSE /\ UNCHANGED srvAt
    /\ UNCHANGED <<world, link, learnt>>

\* Mutant: reading a link renews it.
ReadLinkTouching(r) ==
    /\ req[r].pc = "row"
    /\ IF link.linked /\ now - link.at < Validity
       THEN Return(r, Known(TRUE), TRUE) /\ link' = [link EXCEPT !.at = now]
       ELSE /\ req' = [req EXCEPT ![r].pc = "ask", ![r].row = link]
            /\ UNCHANGED <<mem, link>>
    /\ UNCHANGED <<world, srvAt, learnt, clean>>

\* The link query; a failed one reads as no link.  The row decides when it is
\* a recent refusal or a fresh link; plex.tv is asked otherwise.
ReadLink(r) ==
    /\ req[r].pc = "row"
    /\ \E ok \in BOOLEAN :
         /\ Succeeds(ok)
         /\ clean' = (clean /\ ok)
         /\ LET row == IF ok THEN link ELSE NoLink IN
            CASE row.status = "invalid" /\ now - row.at < Revalidate ->
                   Return(r, Refused, TRUE)
              [] row.linked /\ now - row.at < Validity -> Return(r, Known(TRUE), TRUE)
              [] OTHER -> /\ req' = [req EXCEPT ![r].pc = "ask", ![r].row = row]
                          /\ UNCHANGED mem
    /\ UNCHANGED <<world, link, srvAt, learnt>>

\* Without a verdict from plex.tv an established link keeps its account, unfresh,
\* and is asked about again; an account without an id is stored as unknown.
NoVerdict(r) ==
    CASE req[r].row.linked -> Return(r, [Known(FALSE) EXCEPT !.degraded = TRUE], FALSE)
      [] ~req[r].row.linked /\ tv = "down" ->
            Return(r, [Fallback EXCEPT !.degraded = TRUE], FALSE)
      [] OTHER -> Return(r, Fallback, TRUE)

\* isAuthFailure: only a definitive refusal is one.
isAuthFailure == tv = "up" /\ ~accepted

\* GetUser.
Ask(r) ==
    /\ req[r].pc = "ask"
    /\ lastYes' = IF tv = "up" /\ accepted THEN now ELSE lastYes
    /\ refused' = (refused \/ (tv = "up" /\ ~accepted))
    /\ clean' = (clean /\ tv # "blank")
    /\ CASE tv = "up" /\ accepted -> To(r, "yes") /\ UNCHANGED mem
         [] isAuthFailure -> To(r, "no") /\ UNCHANGED mem
         [] OTHER -> NoVerdict(r)
    /\ UNCHANGED <<world, link, srvAt>>

\* upsertIdentity and upsertLink: either may fail on its own.
WriteYes(r) ==
    /\ req[r].pc = "yes"
    /\ \E identity, written \in BOOLEAN :
         /\ Succeeds(identity) /\ Succeeds(written)
         /\ clean' = (clean /\ identity /\ written)
         /\ link' = IF written
                    THEN [status |-> "valid", linked |-> identity, at |-> now]
                    ELSE link
         /\ Return(r, IF identity THEN Known(TRUE) ELSE Fallback, TRUE)
    /\ UNCHANGED <<world, srvAt, learnt>>

\* markInvalid breaks the association as well as the validity.
WriteNo(r) ==
    /\ req[r].pc = "no"
    /\ \E written \in BOOLEAN :
         /\ Succeeds(written)
         /\ clean' = (clean /\ written)
         /\ link' = IF written
                    THEN [status |-> "invalid", linked |-> FALSE, at |-> now]
                    ELSE link
         /\ Return(r, Refused, TRUE)
    /\ UNCHANGED <<world, srvAt, learnt>>

\* LoadEffective for a user with a policy of their own: the user level is
\* read when the answer names an identity; an error fails the load.
LoadEffective(r) ==
    /\ req[r].pc = "load"
    /\ \E ok \in BOOLEAN :
         /\ Succeeds(ok)
         /\ req' = [req EXCEPT ![r] = [NoRequest EXCEPT !.policy =
               CASE ~ok -> "error"
                 [] ok /\ req[r].answer.scope = "acct" -> "user"
                 [] OTHER -> "global"]]
    /\ UNCHANGED <<world, link, mem, srvAt, learnt, clean>>

Step(r) ==
    \/ Resolve(r) \/ enabledServer(r) \/ ReadLink(r) \/ Ask(r)
    \/ WriteYes(r) \/ WriteNo(r) \/ LoadEffective(r)

Next == Tick \/ Flap \/ \E r \in Requests : Step(r)

Spec == Init /\ [][Next]_vars

----------------------------------------------------------------------------
(* Properties.                                                             *)

Answered(r) == req[r].pc = "load"

\* "Fresh means the credential was proven valid within
\* credentialValidityPeriod": an answer is fresh only if plex.tv accepted the
\* token within that period, plus the time an answer stays in the cache and the
\* duration of the request that recorded it, whatever failed or raced.
FreshIsProven ==
    \A r \in Requests : (Answered(r) /\ req[r].answer.fresh) =>
        lastYes # Never /\ req[r].start - lastYes < Validity + MemTTL + Delay

\* "only definitive 401/403 responses earn the one-hour negative cache": no
\* outage of plex.tv or Postgres makes a token invalid.
InvalidIsProven ==
    (link.status = "invalid" \/ mem.answer.invalid) => refused

\* "a previous link still resolves from the table": with Postgres sound, a
\* request that begins when the token has a link is answered with its account,
\* however revalidations, outages of plex.tv and other requests interleave.
LinkHolds ==
    \A r \in Requests : (Answered(r) /\ req[r].linked /\ clean /\ ~refused) =>
        req[r].answer.scope = "acct"

============================================================================
