---------------------------- MODULE BookingLimiter ----------------------------
(***************************************************************************)
(* BookingLimiter.check over time, for one client whose requests come one  *)
(* after the other: no-shows age, windows slide, tiers rise and fall.      *)
(*                                                                         *)
(* Times are kept as differences to now, so that time needs no bound:      *)
(* left[k] is scheduled_at - now (0: passed), age[k] is now - updated_at   *)
(* of a no-show (it stops at Old, when nothing can tell the difference),   *)
(* rest is now minus the latest created_at.                                *)
(***************************************************************************)
EXTENDS Integers, FiniteSets, BookingRules

CONSTANTS Keys,      \* appointment keys
          Services,  \* what the client asks for: [service_key, tag]
          Config,    \* booking_limits.json
          Far        \* bound: how far ahead an appointment can lie

ASSUME FarAssumption == Far \in Nat \ {0}

VARIABLES
  status,  \* local_appointment.status, "none" where there is no row
  left,    \* time until the row's scheduled_at
  age,     \* time since the row became a no-show
  rest,    \* time since a row was last created
  visit,   \* the cloud's own time until the appointment, NotBooked before it
  told     \* per service: time left of the block the client was told of

vars == <<status, left, age, rest, visit, told>>

NotBooked == -1
Nothing   == -1

\* Every limits object a request can resolve to, and every length of time in it.
Objects == {Config.defaults} \cup
           {Merge(Config.defaults, Config.rules[r].over) : r \in DOMAIN Config.rules}

Lengths ==
  {Setting(o, "noshow_window_days") : o \in Objects}
    \cup {Setting(o, "cooldown_minutes") : o \in Objects}
    \cup UNION {{Setting(o, "noshow_penalties")[i].block_days :
                   i \in DOMAIN Setting(o, "noshow_penalties")} : o \in Objects}

\* Older than every window and block: ages stop here.
Old == 1 + (CHOOSE m \in Lengths : \A n \in Lengths : n <= m)

LimitsFor(s, n) ==
  ResolveRule(Config, [service_key |-> s.service_key, tag |-> s.tag, noshow_count |-> n])

\* Every cap there can be: n no-shows in the default window choose the rule, m
\* in its own the tier.
Caps ==
  {EffectiveMax(LimitsFor(s, n), ResolvePenalty(Setting(LimitsFor(s, n), "noshow_penalties"), m)) :
     s \in Services, n \in 0..Cardinality(Keys), m \in 0..Cardinality(Keys)}

ASSUME ConfigAssumption ==
  /\ IsFiniteSet(Keys)
  /\ Services # {}
  /\ Caps \subseteq Nat

\* A configuration is of the documented types.
ASSUME ShapeAssumption ==
  /\ DOMAIN Config.rules \subseteq Nat
  /\ \A o \in Objects : TierList(Setting(o, "noshow_penalties"))
  /\ Lengths \subseteq Nat /\ \E m \in Lengths : \A n \in Lengths : n <= m

Init ==
  /\ status = [k \in Keys |-> "none"]
  /\ left = [k \in Keys |-> 0]
  /\ age = [k \in Keys |-> 0]
  /\ rest = Old
  /\ visit = [k \in Keys |-> NotBooked]
  /\ told = [s \in Services |-> Nothing]

-----------------------------------------------------------------------------
(***************************************************************************)
(* The queries and the verdict                                             *)
(***************************************************************************)
NoShows == {k \in Keys : status[k] = "noshow"}

NoShowCount(window) == Cardinality({k \in NoShows : age[k] <= window})

\* Appointments that count towards the cap.
Upcoming == {k \in Keys : status[k] = "scheduled" /\ left[k] > 0}

Window == Setting(Config.defaults, "noshow_window_days")

\* The rules are resolved with the default window's count; a rule that brings
\* its own window only has the no-shows counted again.
Limits(s) == LimitsFor(s, NoShowCount(Window))

Penalty(s) == ResolvePenalty(Setting(Limits(s), "noshow_penalties"),
                             NoShowCount(Setting(Limits(s), "noshow_window_days")))

\* Variant: the block counts from now.
BlockFromNow(s) == IF NoShows = {} THEN 0 ELSE Penalty(s).block_days

\* Variant: the block counts from the oldest no-show.
BlockFromFirst(s) ==
  IF NoShows = {} THEN 0
  ELSE Penalty(s).block_days - age[CHOOSE k \in NoShows : \A j \in NoShows : age[k] >= age[j]]

\* block_until - now, counted from the latest no-show, however old.
BlockLeft(s) ==
  IF NoShows = {} THEN 0
  ELSE Penalty(s).block_days - age[CHOOSE k \in NoShows : \A j \in NoShows : age[k] <= age[j]]

\* Variant: off by one.
OverMax(s) == Cardinality(Upcoming) > EffectiveMax(Limits(s), Penalty(s))

Full(s) == Cardinality(Upcoming) >= EffectiveMax(Limits(s), Penalty(s))

Resting(s) == rest < Setting(Limits(s), "cooldown_minutes")

Verdict(s) ==
  CASE BlockLeft(s) > 0 -> "noshow_blocked"
    [] ~(BlockLeft(s) > 0) /\ Full(s) -> "future_limit_reached"
    [] ~(BlockLeft(s) > 0) /\ ~Full(s) /\ Resting(s) -> "cooldown_active"
    [] OTHER -> "allowed"

-----------------------------------------------------------------------------
\* POST is admitted.  The row is kept only if the handler commits after
\* record_appointment, which it does for answers or custom data.
Book(s, t) ==
  /\ Verdict(s) = "allowed"
  /\ \E k \in Keys :
       /\ visit[k] = NotBooked
       /\ visit' = [visit EXCEPT ![k] = t]
       /\ \/ /\ status' = [status EXCEPT ![k] = "scheduled"]
             /\ left' = [left EXCEPT ![k] = t]
             /\ rest' = 0
          \/ UNCHANGED <<status, left, rest>>
  /\ UNCHANGED <<age, told>>

\* POST is refused; a blocked client is told until when.
Refuse(s) ==
  /\ Verdict(s) # "allowed"
  /\ told' = [told EXCEPT ![s] = IF BlockLeft(s) > 0 THEN BlockLeft(s) ELSE @]
  /\ UNCHANGED <<status, left, age, rest, visit>>

\* A status webhook for k is applied: to the row, or to a row made for it.  A
\* new no-show, or one taken back, is a new situation: nothing told stands.
Webhook(k, outcome) ==
  /\ visit[k] # NotBooked
  /\ status[k] # outcome
  /\ status' = [status EXCEPT ![k] = outcome]
  /\ left' = [left EXCEPT ![k] = 0]
  /\ age' = [age EXCEPT ![k] = 0]
  /\ rest' = IF status[k] = "none" THEN 0 ELSE rest
  /\ visit' = [visit EXCEPT ![k] = 0]
  /\ told' = IF "noshow" \in {status[k], outcome}
             THEN [s \in Services |-> Nothing] ELSE told

\* PATCH .../reschedule/ is forwarded to the cloud; the row stays as it is.
Reschedule(k, t) ==
  /\ visit[k] > 0
  /\ visit' = [visit EXCEPT ![k] = t]
  /\ UNCHANGED <<status, left, age, rest, told>>

Sooner(t) == IF t > 0 THEN t - 1 ELSE t
Older(t)  == IF t < Old THEN t + 1 ELSE t

Tick ==
  /\ left' = [k \in Keys |-> Sooner(left[k])]
  /\ visit' = [k \in Keys |-> Sooner(visit[k])]
  /\ age' = [k \in Keys |-> IF status[k] = "noshow" THEN Older(age[k]) ELSE 0]
  /\ rest' = Older(rest)
  /\ told' = [s \in Services |-> Sooner(told[s])]
  /\ UNCHANGED status

Next ==
  \/ \E s \in Services, t \in 1..Far : Book(s, t)
  \/ \E s \in Services : Refuse(s)
  \/ \E k \in Keys, outcome \in {"noshow", "completed", "canceled"} : Webhook(k, outcome)
  \/ \E k \in Keys, t \in 1..Far : Reschedule(k, t)
  \/ Tick

Spec == Init /\ [][Next]_vars

-----------------------------------------------------------------------------
(***************************************************************************)
(* Properties                                                              *)
(***************************************************************************)
\* Requests that do not overlap keep the cap, whatever rises and falls between
\* them: the recorded upcoming appointments never exceed the largest maximum that
\* a rule and a tier can give.
SequentialCap == \E cap \in Caps : Cardinality(Upcoming) <= cap

\* What n no-shows in the default window and m in the rule's own lead to.
OwnWindow(s, n) == Setting(LimitsFor(s, n), "noshow_window_days")
BlockOf(s, n, m) == ResolvePenalty(Setting(LimitsFor(s, n), "noshow_penalties"), m).block_days

\* The two counts are of the same no-shows.
Agree(s, n, m) == /\ OwnWindow(s, n) <= Window => m <= n
                  /\ Window <= OwnWindow(s, n) => n <= m

\* docs/booking-limits.md: progressive penalties, escalating block periods.  It
\* is up to who writes the configuration: fewer no-shows, as ageing leaves them,
\* must not meet a rule and a tier with a longer block.
Progressive ==
  \A s \in Services, n, n2, m, m2 \in 0..Cardinality(Keys) :
    /\ n <= n2 /\ (OwnWindow(s, n) <= OwnWindow(s, n2) => m <= m2)
    /\ Agree(s, n, m) /\ Agree(s, n2, m2)
    => BlockOf(s, n, m) <= BlockOf(s, n2, m2)

\* No window is shorter than the block of a first no-show.
WindowsCover ==
  \A s \in Services, n \in 1..Cardinality(Keys) :
    BlockOf(s, 1, 1) <= Window /\ BlockOf(s, 1, 1) <= OwnWindow(s, n)

\* A fresh no-show blocks for as long as a first one would, however many others
\* there are, and although each of them may age out or switch the rule.
NoShowNeverHelps ==
  \A s \in Services, k \in NoShows :
    age[k] < BlockOf(s, 1, 1) => Verdict(s) = "noshow_blocked"

\* docs/booking-limits.md: after the block period expires, the client can book
\* again: the date a client was told is not put off unless it misses again.
BlockEnds == \A s \in Services : told[s] = 0 => Verdict(s) # "noshow_blocked"

\* docs/booking-limits.md: the cap is on simultaneous future appointments, and
\* the counts stay accurate over time.
CapOnVisits ==
  Cardinality({k \in Keys : status[k] = "scheduled" /\ visit[k] > 0})
    <= Setting(Config.defaults, "max_future_appointments")

=============================================================================
