---------------------------- MODULE MediaPolicy ----------------------------
(***************************************************************************)
(* The media policy: which version of an item a caller may play, and which *)
(* of those is chosen (internal/policy/policy.go), the three-level load    *)
(* that feeds it (internal/policy/load.go) and the admin API that stores   *)
(* the levels (internal/admin/ops.go).                                     *)
(*                                                                         *)
(* The load reads global, user and device rows in three statements, so an  *)
(* administrator may store a row between any two of them.                  *)
(*                                                                         *)
(* preferDirectPlay and routingMode are left out: the admin API accepts    *)
(* only their default effect.  Upper and lower case are not told apart.    *)
(***************************************************************************)
EXTENDS Integers, Sequences, SequencesExt

CONSTANTS Configs,      \* the configurations administrators send
          Items,        \* the items
          Variants,     \* Variants[item]: its versions, a sequence
          MaxStores

Tri == {"allow4K", "allowHDR", "allowDolbyVision", "allowTranscode",
        "unknownDynamicRangeBehavior"}
Num == {"maxSourceWidth", "maxSourceHeight", "maxSourceBitrateKbps",
        "maxStreamingBitrateKbps", "maxAudioChannels"}
Fields == Tri \cup Num
Nil == -1
Levels == {"GLOBAL", "USER", "DEVICE"}
Order == <<"GLOBAL", "USER", "DEVICE">>

Normalize(t) == IF t \in {"allow", "deny"} THEN t ELSE "inherit"

Configured(config, f) ==
    IF f \in Tri THEN Normalize(config.tri[f]) # "inherit" ELSE config.num[f] # Nil

Defaults ==
    [tri |-> [f \in Tri |-> "allow"], num |-> [f \in Num |-> Nil],
     prov |-> [f \in Fields |-> "DEFAULT"]]

\* MergeAs overlays the configured fields of one level, and stamps them.
MergeAs(base, specific, scope) ==
    [tri |-> [f \in Tri |-> IF Configured(specific, f)
                            THEN Normalize(specific.tri[f]) ELSE base.tri[f]],
     num |-> [f \in Num |-> IF Configured(specific, f) THEN specific.num[f] ELSE base.num[f]],
     prov |-> [f \in Fields |-> IF Configured(specific, f) THEN scope ELSE base.prov[f]]]

----------------------------------------------------------------------------
(* Eligibility.                                                            *)

\* A bound on a value, where neither is missing.
Exceeds(value, bound) == value # Nil /\ bound # Nil /\ value > bound

is4K(v) == Exceeds(v.width, 1920) \/ Exceeds(v.height, 1080)

overResolution(v, p) ==
    \/ Exceeds(v.width, p.num["maxSourceWidth"])
    \/ Exceeds(v.height, p.num["maxSourceHeight"])

resolutionField(v, p) ==
    IF Exceeds(v.height, p.num["maxSourceHeight"]) THEN "maxSourceHeight" ELSE "maxSourceWidth"

\* The field that governs a dynamic range; "none" for SDR.
RangeField(v) ==
    CASE v.range = "DOLBY_VISION" -> "allowDolbyVision"
      [] v.range \in {"HDR10", "HDR10_PLUS", "HLG", "HDR_OTHER"} -> "allowHDR"
      [] v.range = "UNKNOWN" -> "unknownDynamicRangeBehavior"
      [] OTHER -> "none"

deniesDR(p, v) == RangeField(v) # "none" /\ p.tri[RangeField(v)] = "deny"

\* The first rule that rejects a variant, by the field it comes from.
RejectedFor(p, v) ==
    CASE ~v.available -> "part"
      [] v.available /\ is4K(v) /\ p.tri["allow4K"] = "deny" -> "allow4K"
      [] v.available /\ ~(is4K(v) /\ p.tri["allow4K"] = "deny") /\ overResolution(v, p) ->
            resolutionField(v, p)
      [] OTHER ->
            IF deniesDR(p, v) THEN RangeField(v)
            ELSE IF Exceeds(v.rate, p.num["maxSourceBitrateKbps"])
                 THEN "maxSourceBitrateKbps" ELSE "eligible"

----------------------------------------------------------------------------
(* Ranking: a tuple, lower wins.                                           *)

Playability == [DirectPlay |-> 0, DirectStream |-> 1, Unknown |-> 1, Transcode |-> 2]

OrZero(n) == IF n = Nil THEN 0 ELSE n
pixels(v) == OrZero(v.width) * OrZero(v.height)
maxPixels(p) ==
    LET w == OrZero(p.num["maxSourceWidth"])
        h == OrZero(p.num["maxSourceHeight"])
    IN  IF w > 0 /\ h > 0 THEN w * h ELSE 0

RangeRank(v) ==
    CASE v.range = "DOLBY_VISION" -> -4
      [] v.range = "HDR10_PLUS" -> -3
      [] v.range \in {"HDR10", "HLG"} -> -2
      [] v.range \in {"HDR_OTHER", "UNKNOWN"} -> -1
      [] OTHER -> 0

codecPenalty(v) ==
    CASE v.codec \in {"h264", "avc", "mpeg4"} -> 0
      [] v.codec \in {"hevc", "h265"} -> 1
      [] v.codec \in {"vp9", "av1"} -> 2
      [] OTHER -> 3

rankKey(p, v) ==
    << Playability[v.play],
       maxPixels(p) - pixels(v),
       RangeRank(v),
       codecPenalty(v),
       IF Exceeds(v.channels, p.num["maxAudioChannels"])
       THEN v.channels - p.num["maxAudioChannels"] ELSE 0,
       OrZero(v.rate) \div 1000,
       v.index >>

\* Mutant: only the first component of the ranking counts.
lessKeyFirstOnly(a, b) == a[1] < b[1]

\* The first position at which two keys differ decides.
lessKey(a, b) ==
    \E i \in 1 .. 7 : a[i] < b[i] /\ \A j \in 1 .. i - 1 : a[j] = b[j]

Best(p, eligible) ==
    LET Better(best, v) == IF lessKey(rankKey(p, v), rankKey(p, best)) THEN v ELSE best
    IN  FoldLeft(Better, Head(eligible), Tail(eligible))

\* The outcome of a decision; variants are named by their media index.
Outcome(code, index, cap, rejected) ==
    [code |-> code, selected |-> index, cap |-> cap, rejected |-> rejected]

\* A rejection names the level its field came from; a missing part is blamed on
\* the most specific level that has a row.
ScopeOf(p, scope, field) == IF field = "part" THEN scope ELSE p.prov[field]

\* "Transcode-deny fails closed AFTER selection".
Forbidden(p, eligible, best) ==
    p.tri["allowTranscode"] = "deny" /\ best.play = "Transcode"

Candidates(p, variants) == SelectSeq(variants, LAMBDA v : RejectedFor(p, v) = "eligible")

Evaluate(p, scope, variants) ==
    LET eligible == Candidates(p, variants)
        field == [i \in DOMAIN variants |-> RejectedFor(p, variants[i])]
        rejected == { [index |-> variants[i].index, field |-> field[i],
                       scope |-> ScopeOf(p, scope, field[i])] :
                        i \in {j \in DOMAIN variants : field[j] # "eligible"} }
        best == Best(p, eligible)
    IN  IF eligible = <<>> THEN Outcome("NO_ALLOWED_MEDIA_VARIANT", Nil, Nil, rejected)
        ELSE IF Forbidden(p, eligible, best)
        THEN Outcome("POLICY_TRANSCODE_FORBIDDEN", Nil, Nil, rejected)
        ELSE Outcome("ok", best.index,
                     IF Exceeds(best.rate, p.num["maxStreamingBitrateKbps"])
                     THEN p.num["maxStreamingBitrateKbps"] ELSE Nil,
                     rejected)

----------------------------------------------------------------------------
(* The state: the stored rows and one load with its evaluation.            *)

VARIABLES rows,     \* per level, the stored row
          stores,
          load,     \* LoadEffective in progress
          seen,     \* history: what each level read
          item,     \* the item being decided
          outcome   \* what Evaluate returned

vars == <<rows, stores, load, seen, item, outcome>>

NoConfig == [tri |-> [f \in Tri |-> "inherit"], num |-> [f \in Num |-> Nil]]
NoRow == [config |-> NoConfig, enabled |-> FALSE]
Rows == [config : Configs, enabled : BOOLEAN] \cup {NoRow}
NoLoad == [at |-> 0, identity |-> FALSE, client |-> FALSE,
           policy |-> Defaults, scope |-> "GLOBAL"]
NoItem == "none"
NoOutcome == Outcome("none", Nil, Nil, {})

\* validatePolicy: every tristate is one of the three words.
validatePolicy(config) == \A f \in Tri : config.tri[f] \in {"inherit", "allow", "deny"}

Init ==
    /\ rows \in [Levels -> {NoRow} \cup
                     [config : {c \in Configs : validatePolicy(c)}, enabled : {TRUE}]]
    /\ stores = 0 /\ load = NoLoad /\ seen = [l \in Levels |-> NoConfig]
    /\ item = NoItem /\ outcome = NoOutcome

\* storePolicy replaces the row of a level in one transaction.  Stores that the
\* load has already passed by are not explored.
storePolicy(level, config, enabled) ==
    /\ stores < MaxStores /\ stores' = stores + 1 /\ load.at < 4
    /\ validatePolicy(config)
    /\ rows' = [rows EXCEPT ![level] = [config |-> config, enabled |-> enabled]]
    /\ UNCHANGED <<load, seen, item, outcome>>

Begin(identity, client) ==
    /\ load.at = 0
    /\ load' = [NoLoad EXCEPT !.at = 1, !.identity = identity, !.client = client]
    /\ UNCHANGED <<rows, stores, seen, item, outcome>>

Applicable(level) ==
    \/ level = "GLOBAL"
    \/ level = "USER" /\ load.identity
    \/ level = "DEVICE" /\ load.client

\* One turn of LoadEffective: a level without an enabled row inherits.
LoadLevel ==
    /\ load.at \in 1 .. 3
    /\ LET level == Order[load.at]
           row == rows[level]
           found == Applicable(level) /\ row.enabled IN
       /\ load' = [load EXCEPT !.at = @ + 1,
                     !.policy = IF found THEN MergeAs(@, row.config, level) ELSE @,
                     !.scope = IF found THEN level ELSE @]
       /\ seen' = [seen EXCEPT ![level] = IF found THEN row.config ELSE NoConfig]
    /\ UNCHANGED <<rows, stores, item, outcome>>

\* A failed query or an unreadable configuration fails the whole load.
LoadFails ==
    /\ load.at \in 1 .. 3
    /\ \E l \in Levels : Applicable(l) /\ l = Order[load.at]
    /\ load' = [NoLoad EXCEPT !.at = 5]
    /\ outcome' = Outcome("POLICY_LOAD_FAILED", Nil, Nil, {})
    /\ UNCHANGED <<rows, stores, seen, item>>

Decide(chosen) ==
    /\ load.at = 4
    /\ load' = [load EXCEPT !.at = 5]
    /\ item' = chosen
    /\ outcome' = Evaluate(load.policy, load.scope, Variants[chosen])
    /\ UNCHANGED <<rows, stores, seen>>

Next ==
    \/ \E l \in Levels, c \in Configs, e \in BOOLEAN : storePolicy(l, c, e)
    \/ \E i, c \in BOOLEAN : Begin(i, c)
    \/ LoadLevel \/ LoadFails
    \/ \E i \in Items : Decide(i)

Spec == Init /\ [][Next]_vars

----------------------------------------------------------------------------
(* Properties.  Their reference is the documentation: per field, the most   *)
(* specific level that configures it.                                      *)

TypeOK ==
    /\ rows \in [Levels -> Rows]
    /\ \A l \in Levels, f \in Tri : rows[l].config.tri[f] \in {"inherit", "allow", "deny"}
    /\ stores \in 0 .. MaxStores /\ load.at \in 0 .. 5
    /\ item \in Items \cup {NoItem}
    /\ outcome.code \in {"none", "ok", "NO_ALLOWED_MEDIA_VARIANT",
                         "POLICY_TRANSCODE_FORBIDDEN", "POLICY_LOAD_FAILED"}

Deciders(f) == {i \in 1 .. 3 : Configured(seen[Order[i]], f)}
Decider(f) == Order[CHOOSE i \in Deciders(f) : \A j \in Deciders(f) : j <= i]
Denied(f) == Deciders(f) # {} /\ Normalize(seen[Decider(f)].tri[f]) = "deny"
Limit(f) == IF Deciders(f) = {} THEN Nil ELSE seen[Decider(f)].num[f]

\* "A more specific configured field replaces only that field": what the load
\* returns is, field by field, the value of the most specific level that
\* configures it, attributed to that level, however stores and reads interleave.
LoadedIsMostSpecific ==
    load.at = 4 => \A f \in Fields :
        /\ load.policy.prov[f] = IF Deciders(f) = {} THEN "DEFAULT" ELSE Decider(f)
        /\ f \in Tri => load.policy.tri[f] = IF Denied(f) THEN "deny" ELSE "allow"
        /\ f \in Num => load.policy.num[f] = Limit(f)

\* The eligibility rules as the documentation lists them.
Permitted(v) ==
    /\ v.available
    /\ v.width # Nil /\ Limit("maxSourceWidth") # Nil => v.width <= Limit("maxSourceWidth")
    /\ v.height # Nil /\ Limit("maxSourceHeight") # Nil => v.height <= Limit("maxSourceHeight")
    /\ Denied("allow4K") => ~(v.width > 1920 \/ v.height > 1080)
    /\ Denied("allowHDR") => v.range \notin {"HDR10", "HDR10_PLUS", "HLG", "HDR_OTHER"}
    /\ Denied("allowDolbyVision") => v.range # "DOLBY_VISION"
    /\ Denied("unknownDynamicRangeBehavior") => v.range # "UNKNOWN"
    /\ v.rate # Nil /\ Limit("maxSourceBitrateKbps") # Nil =>
          v.rate <= Limit("maxSourceBitrateKbps")

\* The chosen variant.
Selected ==
    Variants[item][CHOOSE i \in DOMAIN Variants[item] : Variants[item][i].index = outcome.selected]

\* The chosen variant satisfies every limit of the levels that were read: "an
\* oversized source is rejected even when the target is small".
SelectedPermitted == outcome.code = "ok" => Permitted(Selected)

\* The ranking order of the documentation: no permitted variant costs less to
\* play than the chosen one, or as much with a larger picture.
BestOfPermitted ==
    outcome.code = "ok" => \A i \in DOMAIN Variants[item] : Permitted(Variants[item][i]) =>
        LET s == Selected
            v == Variants[item][i] IN
        /\ Playability[s.play] <= Playability[v.play]
        /\ Playability[s.play] = Playability[v.play] => pixels(s) >= pixels(v)
        /\ (Playability[s.play] = Playability[v.play] /\ pixels(s) = pixels(v))
              => RangeRank(s) <= RangeRank(v)

\* Playback is refused only when it must be: no variant is permitted, or
\* transcoding is denied and every permitted variant needs it.
RefusedOnlyWhenForced ==
    /\ outcome.code = "NO_ALLOWED_MEDIA_VARIANT" => \A i \in DOMAIN Variants[item] : ~Permitted(Variants[item][i])
    /\ outcome.code = "POLICY_TRANSCODE_FORBIDDEN" =>
          /\ Denied("allowTranscode")
          /\ \A i \in DOMAIN Variants[item] :
                Permitted(Variants[item][i]) => Variants[item][i].play = "Transcode"

\* "each rejection prefers the per-field winning scope": a rejection names a
\* level that was read and configures the field it is rejected for, and exactly
\* the variants that are not permitted are rejected.
RejectionsExplained ==
    (outcome.code \notin {"none", "POLICY_LOAD_FAILED"}) =>
        /\ {r.index : r \in outcome.rejected} = 
              {Variants[item][i].index : i \in {j \in DOMAIN Variants[item] : ~Permitted(Variants[item][j])}}
        /\ \A r \in outcome.rejected : r.field # "part" => Configured(seen[r.scope], r.field)
============================================================================
