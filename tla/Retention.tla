----------------------------- MODULE Retention -----------------------------
(***************************************************************************)
(* The retention janitor (internal/retention/retention.go) and the runtime *)
(* settings it reloads before each pass (handleSettings in                 *)
(* internal/admin/missing.go).                                             *)
(*                                                                         *)
(* A pass loads two settings in two statements, then deletes from four     *)
(* tables in bounded batches, each a statement of its own that commits by  *)
(* itself; sessions, decisions, traces and audit rows appear and settings  *)
(* change between any two statements.                                      *)
(*                                                                         *)
(* A row is its age in days, for sessions the days since they ended, for   *)
(* traces one or more once they have expired.  Ages stop at MaxAge, which  *)
(* no retention reaches.  A pass has two minutes, so at most one of a      *)
(* row's days ends while it runs.                                          *)
(***************************************************************************)
EXTENDS Integers, Sequences, FiniteSets

CONSTANTS Startup,      \* Startup[key]: the environment's retention, 0 disables
          Sent,         \* values administrators send
          MaxDays,      \* the longest retention the API accepts
          MaxAge,       \* bound on ages
          Rows,         \* row names in each table
          Batch,        \* rows a DELETE may remove
          MaxFaults     \* bound: failing statements

Keys == {"playback", "audit"}
Tables == {"decisions", "sessions", "traces", "audits"}
Stages == <<"decisions", "sessions", "traces", "audits">>
Gone == -2
Active == -1            \* a session that has not ended
Unset == -1
NoSession == 0

AgesAssumption ==
    /\ MaxDays \in Nat /\ MaxAge \in Nat /\ MaxDays < MaxAge
    /\ \A k \in Keys : Startup[k] \in 0 .. MaxAge - 1

VARIABLES rows,         \* rows[t][i]: age, Active or Gone
          session,      \* session[i]: the session decision i belongs to
          settings,     \* settings[key]: stored days, or Unset
          patch,        \* what is left of the PATCH being handled
          pass,         \* the janitor: phase, loaded policy, stage
          inForce,      \* history: retentions in force since the pass began,
                        \* the startup value where a read failed included
          faults

vars == <<rows, session, settings, patch, pass, inForce, faults>>

Resting == [phase |-> "rest", policy |-> Startup, stage |-> 1, midnight |-> FALSE]
NoBody == [k \in {} |-> 0]

TypeOK ==
    /\ rows \in [Tables -> [Rows -> Gone .. MaxAge]]
    /\ \A t \in Tables \ {"sessions"}, i \in Rows : rows[t][i] # Active
    /\ session \in [Rows -> Rows \cup {NoSession}]
    /\ settings \in [Keys -> {Unset} \cup 1 .. MaxDays]
    /\ \A k \in DOMAIN patch : patch[k] \in Sent
    /\ pass.phase \in {"rest", "load", "loading", "purge"}
    /\ pass.policy \in [Keys -> 0 .. MaxAge]
    /\ pass.stage \in 1 .. Len(Stages) /\ pass.midnight \in BOOLEAN
    /\ inForce \in [Keys -> SUBSET (0 .. MaxAge)]
    /\ faults \in 0 .. MaxFaults

Init ==
    /\ rows = [t \in Tables |-> [i \in Rows |-> Gone]]
    /\ session = [i \in Rows |-> NoSession]
    /\ settings = [k \in Keys |-> Unset]
    /\ patch = NoBody
    /\ pass = Resting
    /\ inForce = [k \in Keys |-> {}]
    /\ faults = 0

----------------------------------------------------------------------------
(* The settings API.                                                       *)

\* validatedSetting: days within the key's bounds.  A key it does not know is
\* refused in the same way as a value out of bounds.
validatedSetting(v) == v \in 1 .. MaxDays

\* auditEvent: the row is written where the insert succeeds.
Audited(r) ==
    \/ \E i \in Rows : /\ rows["audits"][i] = Gone
                       /\ rows' = [r EXCEPT !["audits"][i] = 0]
    \/ rows' = r

PatchArrives(body) ==
    /\ patch = NoBody
    /\ patch' = body
    /\ UNCHANGED <<rows, session, settings, pass, inForce, faults>>

Without(k) == [j \in DOMAIN patch \ {k} |-> patch[j]]

\* One turn of the loop: the value is stored at once.
PatchStores(k) ==
    /\ k \in DOMAIN patch /\ validatedSetting(patch[k])
    /\ settings' = [settings EXCEPT ![k] = patch[k]]
    /\ inForce' = [inForce EXCEPT ![k] = IF pass.phase = "rest" THEN @ ELSE @ \cup {patch[k]}]
    /\ Audited(rows)
    /\ patch' = Without(k)
    /\ UNCHANGED <<session, pass, faults>>

\* A refused key or a failed write ends the request; earlier keys stay stored.
PatchRefused(k) ==
    /\ k \in DOMAIN patch /\ ~validatedSetting(patch[k])
    /\ patch' = NoBody
    /\ UNCHANGED <<rows, session, settings, pass, inForce, faults>>

PatchFails ==
    /\ patch # NoBody /\ faults < MaxFaults
    /\ faults' = faults + 1
    /\ patch' = NoBody
    /\ UNCHANGED <<rows, session, settings, pass, inForce>>

----------------------------------------------------------------------------
(* The janitor.                                                            *)

\* The retention an administrator may count on.
Effective(k) == IF settings[k] = Unset THEN Startup[k] ELSE settings[k]

\* Run: the first timer and the daily ticker start a pass.
BeginPass ==
    /\ pass.phase = "rest"
    /\ pass' = [Resting EXCEPT !.phase = "load"]
    /\ inForce' = [k \in Keys |-> {Effective(k)}]
    /\ UNCHANGED <<rows, session, settings, patch, faults>>

\* livePolicy: a stored value that is in range replaces the startup value.
livePolicy(policy, k) ==
    IF settings[k] \in 1 .. MaxDays THEN [policy EXCEPT ![k] = settings[k]] ELSE policy

LoadPlayback ==
    /\ pass.phase = "load"
    /\ pass' = [pass EXCEPT !.phase = "loading", !.policy = livePolicy(@, "playback")]
    /\ UNCHANGED <<rows, session, settings, patch, inForce, faults>>

LoadAudit ==
    /\ pass.phase = "loading"
    /\ pass' = [pass EXCEPT !.phase = "purge", !.policy = livePolicy(@, "audit")]
    /\ UNCHANGED <<rows, session, settings, patch, inForce, faults>>

\* settingDays: a read that fails is not told apart from a setting never made.
settingDaysFails ==
    /\ faults < MaxFaults
    /\ faults' = faults + 1
    /\ \/ pass.phase = "load" /\ pass' = [pass EXCEPT !.phase = "loading"]
       \/ pass.phase = "loading" /\ pass' = [pass EXCEPT !.phase = "purge"]
    /\ LET k == IF pass.phase = "load" THEN "playback" ELSE "audit"
       IN  inForce' = [inForce EXCEPT ![k] = @ \cup {Startup[k]}]
    /\ UNCHANGED <<rows, session, settings, patch>>

\* The age a stage deletes beyond, and whether it runs at all.
LimitOf(t) ==
    CASE t \in {"decisions", "sessions"} -> pass.policy["playback"]
      [] t = "traces" -> 0
      [] OTHER -> pass.policy["audit"]

StageRuns(t) == t = "traces" \/ LimitOf(t) > 0

\* Mutant: a row expires a day early.
ExpiredOnTheDay(t) == {i \in Rows : rows[t][i] >= LimitOf(t)}

Expired(t) == {i \in Rows : rows[t][i] > LimitOf(t)}

\* Deleting sessions cascades to the decisions that refer to them.
Delete(t, S) ==
    /\ rows' = [u \in Tables |-> [i \in Rows |->
                   IF \/ u = t /\ i \in S
                      \/ u = "decisions" /\ t = "sessions" /\ session[i] \in S
                   THEN Gone ELSE rows[u][i]]]
    /\ session' = [i \in Rows |-> IF rows'["decisions"][i] = Gone THEN NoSession ELSE session[i]]

NextStage ==
    pass' = IF pass.stage = Len(Stages) THEN Resting ELSE [pass EXCEPT !.stage = @ + 1]

Settled == inForce' = IF pass'.phase = "rest" THEN [k \in Keys |-> {}] ELSE inForce

SkipStage ==
    /\ pass.phase = "purge" /\ ~StageRuns(Stages[pass.stage])
    /\ NextStage /\ Settled
    /\ UNCHANGED <<rows, session, settings, patch, faults>>

\* purgeBatched: a full batch is followed by another, a short one ends the stage.
purgeBatched ==
    /\ pass.phase = "purge" /\ StageRuns(Stages[pass.stage])
    /\ LET t == Stages[pass.stage]
       IN  \E S \in SUBSET Expired(t) :
              /\ Cardinality(S) = IF Cardinality(Expired(t)) < Batch
                                  THEN Cardinality(Expired(t)) ELSE Batch
              /\ Delete(t, S)
              /\ IF Cardinality(S) < Batch THEN NextStage ELSE UNCHANGED pass
    /\ Settled
    /\ UNCHANGED <<settings, patch, faults>>

\* A failed statement, or the two minutes running out, ends the pass; what was
\* deleted before stays deleted.
PassFails ==
    /\ pass.phase = "purge" /\ faults < MaxFaults
    /\ faults' = faults + 1
    /\ pass' = Resting /\ Settled
    /\ UNCHANGED <<rows, session, settings, patch>>

----------------------------------------------------------------------------
(* The rest of the program, and time.                                      *)

SessionStarts(i) ==
    /\ rows["sessions"][i] = Gone
    /\ rows' = [rows EXCEPT !["sessions"][i] = Active]
    /\ UNCHANGED <<session, settings, patch, pass, inForce, faults>>

SessionEnds(i) ==
    /\ rows["sessions"][i] = Active
    /\ rows' = [rows EXCEPT !["sessions"][i] = 0]
    /\ UNCHANGED <<session, settings, patch, pass, inForce, faults>>

\* A decision refers to a session whose row still exists, or to none.
DecisionRecorded(i, s) ==
    /\ rows["decisions"][i] = Gone
    /\ s # NoSession => rows["sessions"][s] # Gone
    /\ rows' = [rows EXCEPT !["decisions"][i] = 0]
    /\ session' = [session EXCEPT ![i] = s]
    /\ UNCHANGED <<settings, patch, pass, inForce, faults>>

TraceStarts(i) ==
    /\ rows["traces"][i] = Gone
    /\ Audited([rows EXCEPT !["traces"][i] = 0])
    /\ UNCHANGED <<session, settings, patch, pass, inForce, faults>>

DayPasses ==
    /\ ~pass.midnight
    /\ pass' = [pass EXCEPT !.midnight = pass.phase # "rest"]
    /\ rows' = [t \in Tables |-> [i \in Rows |->
                   IF rows[t][i] \in 0 .. MaxAge - 1 THEN rows[t][i] + 1 ELSE rows[t][i]]]
    /\ UNCHANGED <<session, settings, patch, inForce, faults>>

----------------------------------------------------------------------------
Bodies == UNION {[D -> Sent] : D \in SUBSET Keys \ {{}}}

Purge == LoadPlayback \/ LoadAudit \/ SkipStage \/ purgeBatched

Next ==
    \/ \E body \in Bodies : PatchArrives(body)
    \/ \E k \in Keys : PatchStores(k) \/ PatchRefused(k)
    \/ PatchFails
    \/ BeginPass
    \/ Purge
    \/ settingDaysFails
    \/ PassFails
    \/ \E i \in Rows : SessionStarts(i) \/ SessionEnds(i) \/ TraceStarts(i)
    \/ \E i \in Rows, s \in Rows \cup {NoSession} : DecisionRecorded(i, s)
    \/ DayPasses

Spec == Init /\ [][Next]_vars

----------------------------------------------------------------------------
(* Properties.                                                             *)

\* A retention the pass may have gone by had run out for this row.
RanOut(k, age) == \E d \in inForce[k] \ {0} : age > d

(* The janitor removes nothing that is still within its retention: an      *)
(* active session never, a completed one, a decision or an audit row only  *)
(* beyond a retention that was in force at some point of the pass or, when *)
(* a setting could not be read, beyond the startup value, and a decision   *)
(* with its session (PurgeOnce, "without removing active sessions or       *)
(* unexpired audit data").                                                 *)
UnexpiredKept ==
    \A t \in Tables, i \in Rows :
       (rows[t][i] # Gone /\ rows'[t][i] = Gone) =>
             \/ t \in {"sessions", "decisions"} /\ RanOut("playback", rows[t][i])
             \/ /\ t = "decisions" /\ session[i] # NoSession
                /\ rows'["sessions"][session[i]] = Gone
             \/ t = "traces" /\ rows[t][i] > 0
             \/ t = "audits" /\ RanOut("audit", rows[t][i])

=============================================================================
