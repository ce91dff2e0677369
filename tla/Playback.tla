------------------------------ MODULE Playback ------------------------------
(***************************************************************************)
(* Playback of one title: negotiation (internal/playback/engine.go), the   *)
(* stored sessions (store.go) and the part and manifest boundaries that    *)
(* rely on them (boundary.go), beside the owner index the library sync     *)
(* keeps and an administrator who changes the policy.                      *)
(*                                                                         *)
(* The origin lists versions of the title by media index.  "uhd" is the    *)
(* version a restricted user may not play; the ranking among the others is *)
(* that of MediaPolicy and any eligible choice stands for it here.  The    *)
(* index keeps one row per media index, which a sync reuses in place (see  *)
(* ItemTables), and the row stands for its position.                       *)
(*                                                                         *)
(* A negotiation is interleaved with everything else between its steps.    *)
(* The boundary handlers only read, and are single steps.  Every version   *)
(* has a part with a key and an identifier, so a session always names a    *)
(* usable selection; requests for another title are left out.              *)
(***************************************************************************)
EXTENDS Integers, Sequences, FiniteSets

CONSTANTS Lists,         \* what the origin may list: sequences of versions
          Users,
          Restrictable,  \* the user with a policy of their own
          Resolves,      \* whether resolving an identity may fail: {TRUE} or BOOLEAN
          MaxChanges, MaxSessions

PlaybackConstants == Restrictable \in Users

VARIABLES origin,      \* the versions PMS lists
          index,       \* the rows of the owner index
          restricted,  \* the user policy: uhd and transcoding denied
          sessions,    \* playback_sessions of one Plex session ID, newest last
          neg,         \* the negotiation in progress
          grant,       \* the answer a boundary request has just been given
          changes

vars == <<origin, index, restricted, sessions, neg, grant, changes>>

\* A part is named by its version and its number.
Parts == {<<"hd", 1>>, <<"hd", 2>>, <<"uhd", 1>>, <<"new", 1>>}
NoOne == "unresolved"

\* Session: the bound identity, the selected index, the row of the index (0 when
\* negotiated live), the stored policy.  "version", "under" and "moved" are
\* history: what was selected, under which restriction, and whether the origin
\* or the index has replaced the version at the selected index since.
Row(user, i, row, version, deny, under) ==
    [user |-> user, index |-> i, row |-> row, version |-> version, deny |-> deny,
     under |-> under, open |-> TRUE, moved |-> FALSE]

NoNeg == [pc |-> "idle", user |-> NoOne, deny |-> FALSE, sources |-> <<>>,
          indexed |-> FALSE, gone |-> {}, choice |-> 0, under |-> FALSE]
NoGrant == [verdict |-> "none", user |-> NoOne, version |-> "none",
            session |-> 0, part |-> <<"none", 0>>]

Init ==
    /\ origin \in Lists /\ index \in {<<>>, origin}
    /\ restricted \in BOOLEAN
    /\ sessions = <<>> /\ neg = NoNeg /\ grant = NoGrant /\ changes = 0

----------------------------------------------------------------------------
(* The surroundings.                                                       *)

Change == changes < MaxChanges /\ changes' = changes + 1

\* A list that has the title has another version at the session's index.
Moved(list, s) == list # <<>> /\ ~(s.index \in DOMAIN list /\ list[s.index] = s.version)

\* The origin's list of versions changes.
ChangeOrigin ==
    /\ Change
    /\ origin' \in Lists \ {origin}
    /\ sessions' = [k \in DOMAIN sessions |->
                      [sessions[k] EXCEPT !.moved = @ \/ Moved(origin', sessions[k])]]
    /\ grant' = NoGrant
    /\ UNCHANGED <<index, restricted, neg>>

\* A sync: rows are reused by position, and a row that goes takes the reference
\* of a session with it.  A version that changes its position is refused by the
\* unique part index.
Sync ==
    /\ index # origin
    /\ \A i \in DOMAIN origin, j \in DOMAIN index : i # j => origin[i] # index[j]
    /\ index' = origin
    /\ sessions' = [k \in DOMAIN sessions |->
                      [sessions[k] EXCEPT !.row = IF @ \in DOMAIN origin THEN @ ELSE 0,
                                          !.moved = @ \/ Moved(origin, sessions[k])]]
    /\ neg' = [neg EXCEPT !.gone = @ \cup (DOMAIN index \ DOMAIN origin)]
    /\ grant' = NoGrant
    /\ UNCHANGED <<origin, restricted, changes>>

SetPolicy ==
    /\ Change
    /\ restricted' = ~restricted
    /\ grant' = NoGrant
    /\ UNCHANGED <<origin, index, sessions, neg>>

\* The effective policy of an identity: the user level applies to its user.
Denies(identity) == identity = Restrictable /\ restricted
Permitted(deny, version) == ~(deny /\ version = "uhd")

----------------------------------------------------------------------------
(* HandleDecision.                                                         *)

\* The policy is loaded for the identity that was resolved.
LoadPolicy(user) ==
    /\ neg.pc = "idle" /\ Len(sessions) < MaxSessions
    /\ \E ok \in Resolves :
         LET identity == IF ok THEN user ELSE NoOne IN
         neg' = [NoNeg EXCEPT !.pc = "variants", !.user = identity,
                   !.deny = Denies(identity), !.under = user = Restrictable /\ restricted]
    /\ grant' = NoGrant
    /\ UNCHANGED <<origin, index, restricted, sessions, changes>>

\* The index when it has the title and can be read, the origin's own list
\* otherwise; then Evaluate.  No eligible version, or no list, ends the
\* negotiation.
Select(sources, deny) == {i \in DOMAIN sources : Permitted(deny, sources[i])}

SelectVariant ==
    /\ neg.pc = "variants"
    /\ \/ neg' = NoNeg
       \/ \E indexed \in {index # <<>>, FALSE} :
            LET sources == IF indexed THEN index ELSE origin IN
            \E i \in Select(sources, neg.deny) :
               neg' = [neg EXCEPT !.pc = "forward", !.sources = sources,
                         !.indexed = indexed, !.gone = {}, !.choice = i]
    /\ grant' = NoGrant
    /\ UNCHANGED <<origin, index, restricted, sessions, changes>>

\* Mutant: any version PMS negotiates is accepted.
AcceptedAlways(answer, mode) == ~(mode = "transcode" /\ neg.deny)

\* PMS answers with an index of its own (0: none) and a mode.  A rejected index
\* and a forbidden transcode end the negotiation; another index is accepted.
Accepted(answer, mode) ==
    /\ (answer \in DOMAIN neg.sources /\ answer # neg.choice)
          => Permitted(neg.deny, neg.sources[answer])
    /\ ~(mode = "transcode" /\ neg.deny)

\* The session is stored, unless the row it refers to has gone meanwhile.
Stored(i) ==
    LET s == Row(neg.user, i, IF neg.indexed THEN i ELSE 0, neg.sources[i], neg.deny, neg.under)
    IN  IF neg.indexed /\ i \in neg.gone THEN sessions
        ELSE Append(sessions, [s EXCEPT !.moved = Moved(origin, s) \/ Moved(index, s)])

Forward ==
    /\ neg.pc = "forward"
    /\ \E answer \in 0 .. Len(origin), mode \in {"direct", "transcode"} :
         sessions' = IF Accepted(answer, mode)
                     THEN Stored(IF answer \in DOMAIN neg.sources THEN answer ELSE neg.choice)
                     ELSE sessions
    /\ neg' = NoNeg
    /\ grant' = NoGrant
    /\ UNCHANGED <<origin, index, restricted, changes>>

\* PMS cannot be reached, refuses, or the session cannot be stored.
ForwardFails ==
    /\ neg.pc = "forward"
    /\ neg' = NoNeg
    /\ grant' = NoGrant
    /\ UNCHANGED <<origin, index, restricted, sessions, changes>>

\* EndSession closes every open session of the Plex session ID.
EndSession ==
    /\ \E k \in DOMAIN sessions : sessions[k].open
    /\ sessions' = [k \in DOMAIN sessions |-> [sessions[k] EXCEPT !.open = FALSE]]
    /\ grant' = NoGrant
    /\ UNCHANGED <<origin, index, restricted, neg, changes>>

----------------------------------------------------------------------------
(* The boundaries.                                                         *)

\* FindActive: the newest open session; 0 when there is none.
FindActive ==
    LET open == {k \in DOMAIN sessions : sessions[k].open} IN
    IF open = {} THEN 0 ELSE CHOOSE k \in open : \A j \in open : j <= k

bindingMismatch(s, identity) == s.user # NoOne /\ s.user # identity

\* The rows of the index that hold a part.
Holding(part) == {i \in DOMAIN index : index[i] = part[1]}

sameVariant(s, part) ==
    \E i \in Holding(part) : IF s.row # 0 THEN i = s.row ELSE i = s.index

Verdict(v, user, version, k, part) ==
    grant' = [verdict |-> v, user |-> user, version |-> version, session |-> k, part |-> part]

\* enforceStateless: the part's own version under the caller's policy.
enforceStateless(user, identity, part) ==
    IF \E i \in Holding(part) : Permitted(Denies(identity), index[i])
    THEN Verdict("allow", user, part[1], 0, part)
    ELSE Verdict("deny", user, "none", 0, part)

\* EnforcePart.  A failed session lookup is treated as no session.
EnforcePart(user, part) ==
    /\ \E ok \in Resolves, found \in BOOLEAN :
       LET identity == IF ok THEN user ELSE NoOne
           k == IF found THEN FindActive ELSE 0 IN
       IF k = 0 THEN enforceStateless(user, identity, part)
       ELSE LET s == sessions[k] IN
            CASE bindingMismatch(s, identity) -> Verdict("deny", user, "none", k, part)
              [] ~bindingMismatch(s, identity)
                   /\ (part = <<s.version, 1>> \/ sameVariant(s, part)) ->
                      Verdict("allow", user, part[1], k, part)
              [] OTHER -> Verdict("substitute", user, s.version, k, part)
    /\ UNCHANGED <<origin, index, restricted, sessions, neg, changes>>

\* enforceManifest: an existing session, the bound caller, no forbidden
\* transcode, the negotiated index.  PMS plays the version at that index.
enforceManifest(user, i, transcode) ==
    /\ \E ok \in Resolves, found \in BOOLEAN :
       LET identity == IF ok THEN user ELSE NoOne
           k == IF found THEN FindActive ELSE 0
           denied == \/ k = 0
                     \/ bindingMismatch(sessions[k], identity)
                     \/ transcode /\ sessions[k].deny
                     \/ i # sessions[k].index
                     \/ i \notin DOMAIN origin IN
       IF denied THEN Verdict("deny", user, "none", k, <<"manifest", i>>)
                 ELSE Verdict("allow", user, origin[i], k, <<"manifest", i>>)
    /\ UNCHANGED <<origin, index, restricted, sessions, neg, changes>>

\* The answer leaves; the next step finds no trace of it.
Deliver ==
    /\ grant # NoGrant /\ grant' = NoGrant
    /\ UNCHANGED <<origin, index, restricted, sessions, neg, changes>>

Next ==
    \/ Deliver
    \/ /\ grant = NoGrant
       /\ \/ ChangeOrigin \/ Sync \/ SetPolicy \/ EndSession
          \/ \E u \in Users : LoadPolicy(u)
          \/ SelectVariant \/ Forward \/ ForwardFails
          \/ \E u \in Users, p \in Parts : EnforcePart(u, p)
          \/ \E u \in Users, i \in 1 .. 2, t \in BOOLEAN : enforceManifest(u, i, t)

Spec == Init /\ [][Next]_vars

----------------------------------------------------------------------------
(* Properties.  A formula with primed variables is about every step that   *)
(* answers (changes grant).                                                *)

TypeOK ==
    /\ origin \in Lists /\ index \in Lists \cup {<<>>} /\ restricted \in BOOLEAN
    /\ \A k \in DOMAIN sessions : sessions[k].row \in {0} \cup DOMAIN index
    /\ neg.pc \in {"idle", "variants", "forward"}
    /\ grant.verdict \in {"none", "allow", "substitute", "deny"}

Served == grant'.verdict \in {"allow", "substitute"}
BySession == grant'.session # 0

\* "a database outage or a decision-skipping client must never promote a
\* restricted part": what the boundaries let a restricted user play is the
\* restricted version only through a session negotiated before the restriction,
\* or after the version at its index was replaced.
RestrictedNotServed ==
    (Served /\ grant'.user = Restrictable /\ restricted /\ grant'.version = "uhd") =>
          BySession /\ LET s == sessions[grant'.session] IN ~s.under \/ s.moved

\* "a session identifier alone is not a bearer capability": a session bound to
\* an identity serves only that user's requests.
BoundToCaller ==
    (Served /\ BySession) => sessions[grant'.session].user \in {NoOne, grant'.user}

\* A session that ended serves nothing, also when it is the newest.
EndedServesNothing == (Served /\ BySession) => sessions[grant'.session].open

\* A session never names a version its stored policy denies, whichever index
\* PMS answered and whatever changed during the negotiation.
SelectionPermitted ==
    \A k \in DOMAIN sessions : Permitted(sessions[k].deny, sessions[k].version)

\* "just sequential playback": while nothing moved and the index has the title,
\* the caller of a session negotiated from the index gets every part of the
\* selected version itself, not the first part again.
PartsInSequence ==
    (BySession /\ grant'.part[1] = sessions[grant'.session].version
          /\ sessions[grant'.session].row # 0 /\ ~sessions[grant'.session].moved
          /\ index[sessions[grant'.session].row] = grant'.part[1]
          /\ grant'.user = sessions[grant'.session].user /\ Resolves = {TRUE})
        => grant'.verdict = "allow"

============================================================================
