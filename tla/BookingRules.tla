----------------------------- MODULE BookingRules -----------------------------
(***************************************************************************)
(* The pure part of app/services/booking_limiter.py: how booking_limits.   *)
(* json is turned into the limits one client is held to.                   *)
(*                                                                         *)
(* A configuration is a record                                             *)
(*   [defaults |-> limits, rules |-> <<[match |-> criteria, over |-> ..]>>]*)
(* "limits" and "over" are functions whose domain is the set of settings   *)
(* the JSON object contains; a setting that is absent is a name that is    *)
(* not in the domain.  A criterion is [field |-> f, op |-> o, value |-> v] *)
(* with o in {"eq", "gte", "lte"}: the suffix of the JSON key.             *)
(***************************************************************************)
EXTENDS Integers, Sequences

\* What `.get(setting, fallback)` returns for a setting the object lacks.
Fallback == [max_future_appointments |-> 3, noshow_window_days |-> 90,
             cooldown_minutes |-> 0, noshow_penalties |-> <<>>]

Setting(limits, name) ==
  IF name \in DOMAIN limits THEN limits[name] ELSE Fallback[name]

(***************************************************************************)
(* Rules: the first rule whose criteria all hold overrides the defaults.   *)
(***************************************************************************)
CountIn(context, field) ==
  IF field \in DOMAIN context THEN context[field] ELSE 0

Satisfies(c, context) ==
  \/ c.op = "gte" /\ CountIn(context, c.field) >= c.value
  \/ c.op = "lte" /\ CountIn(context, c.field) <= c.value
  \/ c.op = "eq" /\ c.field \in DOMAIN context /\ context[c.field] = c.value

Matches(match, context) == \A c \in match : Satisfies(c, context)

Merge(base, over) ==
  [name \in DOMAIN base \cup DOMAIN over |->
     IF name \in DOMAIN over THEN over[name] ELSE base[name]]

ResolveRule(config, context) ==
  LET hits == {i \in DOMAIN config.rules : Matches(config.rules[i].match, context)}
  IN  IF hits = {}
      THEN config.defaults
      ELSE LET first == CHOOSE i \in hits : \A j \in hits : i <= j
           IN  Merge(config.defaults, config.rules[first].over)

(***************************************************************************)
(* Penalties: tiers sorted by "from", highest first, and the first one the *)
(* count has reached.  Python's sort is stable, so of two tiers with the   *)
(* same "from" the one written first comes first.                          *)
(***************************************************************************)
SortsBefore(tiers, i, j) ==
  \/ tiers[i].from > tiers[j].from
  \/ tiers[i].from = tiers[j].from /\ i <= j

Reached(tiers, noshows) == {i \in DOMAIN tiers : noshows >= tiers[i].from}

\* A list of tiers, of whatever length, whose thresholds are counts.
TierList(tiers) ==
  /\ DOMAIN tiers \subseteq Nat
  /\ \A i \in DOMAIN tiers : tiers[i].from \in Nat

\* Stands for None: like None, it blocks for no time and overrides nothing.
NoPenalty == [from |-> 0, block_days |-> 0]

ResolvePenalty(tiers, noshows) ==
  LET reached == Reached(tiers, noshows)
  IN  IF reached = {}
      THEN NoPenalty
      ELSE tiers[CHOOSE i \in reached : \A j \in reached : SortsBefore(tiers, i, j)]

\* The cap on future appointments once the tier's own override is applied.
EffectiveMax(limits, penalty) ==
  IF "max_future_appointments" \in DOMAIN penalty
  THEN penalty.max_future_appointments
  ELSE Setting(limits, "max_future_appointments")

=============================================================================
