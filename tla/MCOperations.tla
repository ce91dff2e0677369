---------------------------- MODULE MCOperations ----------------------------
(***************************************************************************)
(* What runs beside the requests of clients, side by side: the administrator's *)
(* account and sessions, the operations the administrator                  *)
(* triggers, and the schedule of the warmer                                *)
(* (the pages of two users with room for one credential, and for both; three *)
(* pages with room for two and no budget to fetch them).                   *)
(*                                                                         *)
(* The initial state chooses the part that moves, a component in one of its *)
(* instances; the variables of the other components rest.  The components  *)
(* share no variable, so a step of one commutes with a step of another and a *)
(* property of one holds in every interleaving iff it holds while the others *)
(* rest: the states to explore add up instead of multiplying.              *)
(***************************************************************************)
EXTENDS AdminAccount, Sequences, TLC

VARIABLES
    part,   \* the part that moves
    req, rate, lastFull, lastJob, syncing, answer, turn,   \* AdminTriggers
    config, paused, foreground, tracked, queue, byLast, contexts, served, pass,   \* WarmerSchedule
    spent, overtaken

\* A rebuild may be asked for while another runs.
Limits == [rebuild |-> 2, evict |-> 1]

PageScope == [collection |-> "u1", hub |-> "u1", metadata |-> "u2"]
PagePriority == [collection |-> 3, hub |-> 0, metadata |-> 1]
Setting(on, track, requests, bytes) ==
    [enabled |-> on, maxTracked |-> track, requestsPerPass |-> requests,
     maxPerScopePerPass |-> 1, bytesPerPass |-> bytes]
OnAndOff == {Setting(TRUE, 2, 2, 2), Setting(FALSE, 1, 1, 2)}
Thrifty == Setting(TRUE, 2, 1, 1)
Frugal == Setting(TRUE, 2, 1, 1)

Triggers == INSTANCE AdminTriggers
    WITH Callers <- {"one", "two"}, Limit <- Limits, Window <- 1, SyncWindow <- 2, NoCaller <- NoRequest

Warmer == INSTANCE WarmerSchedule
    WITH Jobs <- {"hub", "metadata"}, ScopeOf <- PageScope, PriorityOf <- PagePriority,
         MaxContexts <- 1, MaxForeground <- 1, MaxEntryBytes <- 1, Configs <- OnAndOff

Turns == INSTANCE WarmerSchedule
    WITH Jobs <- {"hub", "metadata"}, ScopeOf <- PageScope, PriorityOf <- PagePriority,
         MaxContexts <- 2, MaxForeground <- 1, MaxEntryBytes <- 0, Configs <- {Thrifty}

Full == INSTANCE WarmerSchedule
    WITH Jobs <- DOMAIN PageScope, ScopeOf <- PageScope, PriorityOf <- PagePriority,
         MaxContexts <- 1, MaxForeground <- 1, MaxEntryBytes <- 1, Configs <- {Frugal}

ASSUME TriggersLimitAssumption == Triggers!LimitAssumption

-----------------------------------------------------------------------------
Rest == "rests"

TriggersRests ==
    /\ req = Rest /\ rate = Rest /\ lastFull = Rest /\ lastJob = Rest /\ syncing = Rest
    /\ answer = Rest /\ turn = Rest
WarmerRests ==
    /\ config = Rest /\ paused = Rest /\ foreground = Rest /\ tracked = Rest
    /\ queue = Rest /\ byLast = Rest /\ contexts = Rest /\ served = Rest /\ pass = Rest
    /\ spent = Rest /\ overtaken = Rest

triggersVars == <<req, rate, lastFull, lastJob, syncing, answer, turn>>
warmerVars == <<config, paused, foreground, tracked, queue, byLast, contexts,
                served, pass, spent, overtaken>>

OperationsInit ==
    /\ part \in {"account", "triggers", "warmer", "turns", "full"}
    /\ Init
    /\ IF part = "triggers" THEN Triggers!Init ELSE TriggersRests
    /\ CASE part = "warmer" -> Warmer!Init
         [] part = "turns" -> Turns!Init
         [] part = "full" -> Full!Init
         [] OTHER -> WarmerRests

OperationsNext ==
    \/ /\ part = "account" /\ Next
       /\ UNCHANGED <<part, triggersVars, warmerVars>>
    \/ /\ part = "triggers" /\ Triggers!Next
       /\ UNCHANGED <<part, vars, warmerVars>>
    \/ /\ part = "warmer" /\ Warmer!Next
       /\ UNCHANGED <<part, vars, triggersVars>>
    \/ /\ part = "turns" /\ Turns!Next
       /\ UNCHANGED <<part, vars, triggersVars>>
    \/ /\ part = "full" /\ Full!Next
       /\ UNCHANGED <<part, vars, triggersVars>>

operationsVars == <<part, vars, triggersVars, warmerVars>>

OperationsSpec == OperationsInit /\ [][OperationsNext]_operationsVars

-----------------------------------------------------------------------------
\* Every part keeps the types of its state.
OperationsTypeOK ==
    CASE part = "account"  -> TypeOK
      [] part = "triggers" -> Triggers!TypeOK
      [] part = "warmer"   -> Warmer!TypeOK
      [] part = "turns"    -> Turns!TypeOK
      [] part = "full"     -> Full!TypeOK

\* Syncs never overlap, whoever starts them and however long one outlasts the
\* throttle that would admit the next (Worker.inFlight, "Full sync is single
\* flight").
OneSyncAtATime == part = "triggers" => Triggers!OneSyncAtATime

\* Browsing, a pause and disabling each end the request in flight: one that
\* was not cancelled never overlaps them (activeCancel).  And a body is stored
\* only if the credential it was fetched with was neither withdrawn nor out of
\* time when the publication was permitted (permit).
InterruptionsHonoured ==
    part = "warmer" => Warmer!ForegroundYields /\ Warmer!RevokedNeverPublished

\* The queue and the credentials stay within their limits, also when a limit
\* is lowered, and what a pass sends and reads stays within the budgets it
\* last read, failures and oversized bodies included (Configure, refreshPass).
WithinLimits == part = "warmer" => Warmer!Bounded /\ Warmer!WithinBudget

\* No scope is served again while another has waited ever since it was served,
\* however much work of higher priority it has (nextCandidateLocked), and a
\* job that enters the full queue displaces none of a higher priority
\* (evictJobLocked).
TurnsKept ==
    [][/\ part = "turns" => Turns!NoneServedTwice
       /\ part = "full" => Full!HigherKept]_warmerVars
=============================================================================
