------------------------- MODULE BookingLimiterProofs -------------------------
(***************************************************************************)
(* Proofs about BookingRules and BookingLimiter for any configuration, any *)
(* number of appointments and any service.  What resolve_rule and          *)
(* resolve_penalty return; then, of one client's requests over time: they  *)
(* keep the cap, a fresh no-show blocks, and a block ends when it was said *)
(* to.  The last two are about configurations whose penalties escalate.    *)
(***************************************************************************)
EXTENDS BookingLimiter, FiniteSetTheorems, WellFoundedInduction, TLAPS

-----------------------------------------------------------------------------
(***************************************************************************)
(* Rules and tiers                                                         *)
(***************************************************************************)
\* Every non-empty set of natural numbers has a smallest member.
LEMMA Smallest ==
  ASSUME NEW S \in SUBSET Nat, S # {}
  PROVE  \E n \in S : \A m \in S : n <= m
<1>1. PICK n \in S : \A m \in S : <<m, n>> \notin OpToRel(<, Nat)
  BY NatLessThanWellFounded, WFMin, Zenon
<1>2. \A m \in S : ~(m < n)
  BY <1>1 DEF OpToRel
<1> QED
  BY <1>2

\* Some reached tier comes before all the others in resolve_penalty's order.
LEMMA FirstInOrder ==
  ASSUME NEW tiers, TierList(tiers), NEW n \in Nat, Reached(tiers, n) # {}
  PROVE  \E i \in Reached(tiers, n) :
           \A j \in Reached(tiers, n) : SortsBefore(tiers, i, j)
<1> DEFINE R    == Reached(tiers, n)
           Gaps == {n - tiers[i].from : i \in R}
<1>1. \A i \in R : i \in Nat /\ tiers[i].from \in Nat /\ tiers[i].from <= n
  BY DEF Reached, TierList
<1>2. Gaps \in SUBSET Nat /\ Gaps # {}
  BY <1>1
<1>3. PICK d \in Gaps : \A g \in Gaps : d <= g
  <2> HIDE DEF Gaps
  <2> QED
    BY <1>2, Smallest
<1>4. \A j \in R : n - tiers[j].from >= d
  BY <1>1, <1>3
<1> DEFINE Top == {i \in R : n - tiers[i].from = d}
<1>5. Top \in SUBSET Nat /\ Top # {}
  BY <1>1, <1>3
<1>6. PICK i \in Top : \A j \in Top : i <= j
  <2> HIDE DEF Top
  <2> QED
    BY <1>5, Smallest
<1>7. ASSUME NEW j \in R
      PROVE  SortsBefore(tiers, i, j)
  <2>1. CASE j \in Top
    BY <1>1, <1>6, <2>1 DEF SortsBefore
  <2>2. CASE j \notin Top
    BY <1>1, <1>2, <1>3, <1>4, <1>6, <2>2 DEF SortsBefore
  <2> QED
    BY <2>1, <2>2
<1> QED
  BY <1>6, <1>7

\* docs/booking-limits.md: the most severe tier the client has reached.  However
\* the tiers are written, resolve_penalty returns a reached one, and no reached
\* tier has a higher threshold.
THEOREM HighestTier ==
  ASSUME NEW tiers, TierList(tiers), NEW n \in Nat, Reached(tiers, n) # {}
  PROVE  \E i \in Reached(tiers, n) :
           /\ ResolvePenalty(tiers, n) = tiers[i]
           /\ \A j \in Reached(tiers, n) : tiers[j].from <= tiers[i].from
<1> DEFINE R == Reached(tiers, n)
           i == CHOOSE i \in R : \A j \in R : SortsBefore(tiers, i, j)
<1>1. i \in R /\ \A j \in R : SortsBefore(tiers, i, j)
  BY FirstInOrder
<1>2. ResolvePenalty(tiers, n) = tiers[i]
  BY DEF ResolvePenalty
<1>3. \A j \in R : tiers[j].from \in Nat
  BY DEF Reached, TierList
<1>4. \A j \in R : tiers[j].from <= tiers[i].from
  <2> HIDE DEF i
  <2> QED
    BY <1>1, <1>3 DEF SortsBefore
<1> QED
  BY <1>1, <1>2, <1>4

\* More no-shows never lead to a lower tier.
THEOREM PenaltyGrows ==
  ASSUME NEW tiers, TierList(tiers), NEW m \in Nat, NEW n \in Nat, m <= n
  PROVE  ResolvePenalty(tiers, m).from <= ResolvePenalty(tiers, n).from
<1>1. Reached(tiers, m) \subseteq Reached(tiers, n)
  BY DEF Reached, TierList
<1>2. CASE Reached(tiers, m) = {}
  <2>1. ResolvePenalty(tiers, m).from = 0
    BY <1>2 DEF ResolvePenalty, NoPenalty
  <2>2. CASE Reached(tiers, n) = {}
    BY <2>1, <2>2 DEF ResolvePenalty, NoPenalty
  <2>3. CASE Reached(tiers, n) # {}
    <3>1. PICK i \in Reached(tiers, n) : ResolvePenalty(tiers, n) = tiers[i]
      BY <2>3, HighestTier
    <3> QED
      BY <2>1, <3>1 DEF Reached, TierList
  <2> QED
    BY <2>2, <2>3
<1>3. CASE Reached(tiers, m) # {}
  <2>1. PICK i \in Reached(tiers, m) : ResolvePenalty(tiers, m) = tiers[i]
    BY <1>3, HighestTier
  <2>2. PICK k \in Reached(tiers, n) :
          /\ ResolvePenalty(tiers, n) = tiers[k]
          /\ \A j \in Reached(tiers, n) : tiers[j].from <= tiers[k].from
    BY <1>1, <1>3, HighestTier
  <2> QED
    BY <1>1, <2>1, <2>2
<1> QED
  BY <1>2, <1>3

\* docs/booking-limits.md: the first rule whose criteria hold is applied, alone
\* and on top of the defaults; later rules do not matter.
THEOREM FirstRule ==
  ASSUME NEW config, NEW context, DOMAIN config.rules \subseteq Nat,
         NEW i \in DOMAIN config.rules,
         Matches(config.rules[i].match, context),
         \A j \in DOMAIN config.rules : j < i => ~Matches(config.rules[j].match, context)
  PROVE  ResolveRule(config, context) = Merge(config.defaults, config.rules[i].over)
<1> DEFINE hits == {r \in DOMAIN config.rules : Matches(config.rules[r].match, context)}
           first == CHOOSE r \in hits : \A j \in hits : r <= j
<1>1. i \in hits /\ \A j \in hits : i <= j
  OBVIOUS
<1>2. first \in hits /\ \A j \in hits : first <= j
  BY <1>1
<1>3. first = i
  <2> HIDE DEF first
  <2>1. first \in Nat /\ i \in Nat
    BY <1>2
  <2> QED
    BY <1>1, <1>2, <2>1
<1>4. ResolveRule(config, context) = Merge(config.defaults, config.rules[first].over)
  BY <1>1 DEF ResolveRule
<1> QED
  BY <1>3, <1>4

\* Without a matching rule the defaults apply as they are.
THEOREM NoRule ==
  ASSUME NEW config, NEW context,
         \A j \in DOMAIN config.rules : ~Matches(config.rules[j].match, context)
  PROVE  ResolveRule(config, context) = config.defaults
  BY DEF ResolveRule

-----------------------------------------------------------------------------
(***************************************************************************)
(* The cap.  Every step but a booking can only take appointments out of    *)
(* those that count, and a booking has seen fewer than the cap of its own  *)
(* rule and tier.                                                          *)
(***************************************************************************)
TypesInv ==
  /\ status \in [Keys -> {"none", "scheduled", "noshow", "completed", "canceled"}]
  /\ left \in [Keys -> Nat]

IInv == TypesInv /\ SequentialCap

LEMMA UpcomingFinite ==
  /\ IsFiniteSet(Upcoming) /\ Cardinality(Upcoming) \in Nat
  /\ Cardinality(Upcoming) <= Cardinality(Keys)
  BY FS_Subset, FS_CardinalityType, ConfigAssumption DEF Upcoming

LEMMA NoShowCounts == \A window : NoShowCount(window) \in 0..Cardinality(Keys)
<1> TAKE window
<1> DEFINE hits == {k \in NoShows : age[k] <= window}
<1>1. hits \subseteq Keys
  BY DEF NoShows
<1>2. /\ IsFiniteSet(hits) /\ Cardinality(hits) \in Nat /\ Cardinality(Keys) \in Nat
      /\ Cardinality(hits) <= Cardinality(Keys)
  BY <1>1, FS_Subset, FS_CardinalityType, ConfigAssumption
<1> QED
  BY <1>2 DEF NoShowCount

\* The cap a request is held to is one of Caps.
LEMMA CapOfRequest ==
  ASSUME NEW s \in Services
  PROVE  EffectiveMax(Limits(s), Penalty(s)) \in Caps
  BY NoShowCounts DEF Caps, Limits, Penalty

\* A step that books nothing.
LEMMA FewerKeep ==
  ASSUME IInv, Upcoming' \subseteq Upcoming
  PROVE  SequentialCap'
<1>1. PICK cap \in Caps : Cardinality(Upcoming) <= cap
  BY DEF IInv, SequentialCap
<1>2. /\ Cardinality(Upcoming') <= Cardinality(Upcoming)
      /\ Cardinality(Upcoming') \in Nat /\ Cardinality(Upcoming) \in Nat
  BY UpcomingFinite, FS_Subset, FS_CardinalityType
<1>3. cap \in Nat /\ Cardinality(Upcoming)' = Cardinality(Upcoming') /\ Caps' = Caps
  BY ConfigAssumption DEF Caps
<1>4. Cardinality(Upcoming') <= cap
  BY <1>1, <1>2, <1>3
<1> QED
  BY <1>3, <1>4 DEF SequentialCap

LEMMA BookKeeps ==
  ASSUME IInv, NEW s \in Services, NEW t \in 1..Far, Book(s, t)
  PROVE  IInv'
<1>1. PICK k \in Keys :
        \/ /\ status' = [status EXCEPT ![k] = "scheduled"]
           /\ left' = [left EXCEPT ![k] = t]
        \/ UNCHANGED <<status, left>>
  BY DEF Book
<1>2. t \in Nat
  BY FarAssumption
<1>3. TypesInv'
  BY <1>1, <1>2 DEF IInv, TypesInv
<1>4. Upcoming' \subseteq Upcoming \cup {k}
  BY <1>1 DEF Upcoming, IInv, TypesInv
<1>5. ~Full(s)
  <2>1. Full(s) => Verdict(s) \in {"noshow_blocked", "future_limit_reached"}
    BY DEF Verdict
  <2> QED
    BY <2>1 DEF Book
<1> DEFINE cap == EffectiveMax(Limits(s), Penalty(s))
<1>6. cap \in Caps /\ cap \in Nat /\ ~(Cardinality(Upcoming) >= cap)
  BY <1>5, CapOfRequest, ConfigAssumption DEF Full
<1>7. Cardinality(Upcoming') <= Cardinality(Upcoming) + 1
  <2>1. /\ IsFiniteSet(Upcoming \cup {k})
        /\ Cardinality(Upcoming \cup {k}) \in {Cardinality(Upcoming), Cardinality(Upcoming) + 1}
    BY UpcomingFinite, FS_AddElement
  <2>2. Cardinality(Upcoming') <= Cardinality(Upcoming \cup {k}) /\ Cardinality(Upcoming') \in Nat
    BY <1>4, <2>1, FS_Subset, FS_CardinalityType
  <2> QED
    BY <2>1, <2>2, UpcomingFinite, FS_CardinalityType
<1>8. Cardinality(Upcoming') \in Nat /\ Cardinality(Upcoming) \in Nat
  BY <1>4, UpcomingFinite, FS_AddElement, FS_Subset, FS_CardinalityType
<1> HIDE DEF cap
<1>9. Cardinality(Upcoming') <= cap
  BY <1>6, <1>7, <1>8
<1>10. SequentialCap'
  BY <1>6, <1>9 DEF SequentialCap, Caps
<1> QED
  BY <1>3, <1>10 DEF IInv

LEMMA InitInv == Init => IInv
<1> SUFFICES ASSUME Init PROVE IInv
  OBVIOUS
<1>1. TypesInv /\ Upcoming = {}
  BY DEF Init, TypesInv, Upcoming
<1>2. Caps # {} /\ Cardinality(Keys) \in Nat
  <2>1. Cardinality(Keys) \in Nat
    BY ConfigAssumption, FS_CardinalityType
  <2>2. 0 \in 0..Cardinality(Keys)
    BY <2>1
  <2> QED
    BY <2>1, <2>2, ConfigAssumption DEF Caps
<1>3. SequentialCap
  <2>1. Cardinality(Upcoming) = 0
    BY <1>1, FS_EmptySet
  <2>2. PICK cap : cap \in Caps
    BY <1>2
  <2>3. cap \in Nat
    BY <2>2, ConfigAssumption
  <2> QED
    BY <2>1, <2>2, <2>3 DEF SequentialCap
<1> QED
  BY <1>1, <1>3 DEF IInv

LEMMA NextInv == IInv /\ [Next]_vars => IInv'
<1> SUFFICES ASSUME IInv, [Next]_vars
             PROVE  IInv'
  OBVIOUS
<1>1. ASSUME NEW s \in Services, NEW t \in 1..Far, Book(s, t)
      PROVE  IInv'
  BY <1>1, BookKeeps
<1>2. ASSUME UNCHANGED <<status, left>>
      PROVE  IInv'
  <2>1. Upcoming' \subseteq Upcoming
    BY <1>2 DEF Upcoming
  <2> QED
    BY <1>2, <2>1, FewerKeep DEF IInv, TypesInv
<1>3. ASSUME NEW k \in Keys, NEW outcome \in {"noshow", "completed", "canceled"}, Webhook(k, outcome)
      PROVE  IInv'
  <2>1. /\ status' = [status EXCEPT ![k] = outcome]
        /\ left' = [left EXCEPT ![k] = 0]
    BY <1>3 DEF Webhook
  <2>2. TypesInv' /\ Upcoming' \subseteq Upcoming
    BY <2>1 DEF IInv, TypesInv, Upcoming
  <2> QED
    BY <2>2, FewerKeep DEF IInv
<1>4. CASE Tick
  <2>1. /\ status' = status
        /\ left' = [k \in Keys |-> Sooner(left[k])]
        /\ \A k \in Keys : left[k] \in Nat
    BY <1>4 DEF Tick, IInv, TypesInv
  <2>2. \A n \in Nat : Sooner(n) \in Nat /\ (Sooner(n) > 0 => n > 0)
    BY DEF Sooner
  <2>3. TypesInv' /\ Upcoming' \subseteq Upcoming
    BY <2>1, <2>2 DEF IInv, TypesInv, Upcoming
  <2> QED
    BY <2>3, FewerKeep DEF IInv
<1> QED
  BY <1>1, <1>2, <1>3, <1>4 DEF Next, vars, Refuse, Reschedule

\* For any configuration, one client's requests never bring the recorded
\* upcoming appointments over the largest maximum that a rule and a tier give
\* (check, record_appointment).
THEOREM CapKept == Spec => []SequentialCap
<1>1. IInv => SequentialCap
  BY DEF IInv
<1> QED
  BY <1>1, InitInv, NextInv, PTL DEF Spec

-----------------------------------------------------------------------------
(***************************************************************************)
(* The block, of a set of no-shows and their ages                          *)
(***************************************************************************)
Counted(S, f, w) == Cardinality({k \in S : f[k] <= w})

\* The length of the block they lead to, and what is left of it.
LengthOf(S, f, s) ==
  BlockOf(s, Counted(S, f, Window), Counted(S, f, OwnWindow(s, Counted(S, f, Window))))

Latest(S, f) == CHOOSE k \in S : \A j \in S : f[k] <= f[j]

LeftOf(S, f, s) == IF S = {} THEN 0 ELSE LengthOf(S, f, s) - f[Latest(S, f)]

LEMMA BlockLeftIs ==
  ASSUME NEW s \in Services
  PROVE  /\ BlockLeft(s) = LeftOf(NoShows, age, s)
         /\ BlockLeft(s)' = LeftOf(NoShows', age', s)
<1>1. BlockLeft(s) = LeftOf(NoShows, age, s)
  BY DEF BlockLeft, LeftOf, LengthOf, Latest, Counted, BlockOf, OwnWindow, Penalty, Limits,
         NoShowCount
<1>2. BlockLeft(s)' = LeftOf(NoShows', age', s)
  BY DEF BlockLeft, LeftOf, LengthOf, Latest, Counted, BlockOf, OwnWindow, Penalty, Limits,
         NoShowCount, Window
<1> QED
  BY <1>1, <1>2

\* Whatever rule a request resolves to is one of Objects.
LEMMA LimitsAreObjects ==
  ASSUME NEW s \in Services, NEW n
  PROVE  LimitsFor(s, n) \in Objects
<1> DEFINE context == [service_key |-> s.service_key, tag |-> s.tag,
                       noshow_count |-> n]
           hits    == {i \in DOMAIN Config.rules : Matches(Config.rules[i].match, context)}
<1>1. CASE hits = {}
  BY <1>1 DEF LimitsFor, ResolveRule, Objects
<1>2. CASE hits # {}
  <2>1. PICK i \in hits : \A j \in hits : i <= j
    <3>1. hits \in SUBSET Nat
      BY ShapeAssumption
    <3> HIDE DEF hits
    <3> QED
      BY <1>2, <3>1, Smallest
  <2>2. \E r \in DOMAIN Config.rules :
          LimitsFor(s, n) = Merge(Config.defaults, Config.rules[r].over)
    BY <1>2, <2>1 DEF LimitsFor, ResolveRule
  <2> QED
    BY <2>2 DEF Objects
<1> QED
  BY <1>1, <1>2

LEMMA WindowsAreLengths ==
  ASSUME NEW s \in Services, NEW n
  PROVE  Window \in Nat /\ OwnWindow(s, n) \in Nat
<1>1. \A o \in Objects : Setting(o, "noshow_window_days") \in Lengths
  BY DEF Lengths
<1>2. Config.defaults \in Objects /\ LimitsFor(s, n) \in Objects
  BY LimitsAreObjects DEF Objects
<1> QED
  BY <1>1, <1>2, ShapeAssumption DEF Window, OwnWindow

\* Whatever has the age Old is older than any block.
LEMMA BlocksAreLengths ==
  ASSUME NEW s \in Services, NEW n, NEW m \in Nat
  PROVE  BlockOf(s, n, m) \in Nat /\ Old \in Nat /\ BlockOf(s, n, m) < Old
<1> DEFINE most  == CHOOSE l \in Lengths : \A j \in Lengths : j <= l
           tiers == Setting(LimitsFor(s, n), "noshow_penalties")
<1>1. most \in Lengths /\ \A j \in Lengths : j <= most
  BY ShapeAssumption
<1>2. most \in Nat /\ Old = 1 + most
  <2>1. Old = 1 + most
    BY Zenon DEF Old
  <2> HIDE DEF most
  <2> QED
    BY <1>1, <2>1, ShapeAssumption
<1>3. LimitsFor(s, n) \in Objects
  BY LimitsAreObjects
<1>4. TierList(tiers) /\ \A i \in DOMAIN tiers : tiers[i].block_days \in Lengths
  BY <1>3, ShapeAssumption DEF Lengths
<1>5. CASE Reached(tiers, m) = {}
  <2>1. BlockOf(s, n, m) = 0
    BY <1>5 DEF BlockOf, ResolvePenalty, NoPenalty
  <2> QED
    BY <1>2, <2>1
<1>6. CASE Reached(tiers, m) # {}
  <2>1. PICK i \in Reached(tiers, m) : ResolvePenalty(tiers, m) = tiers[i]
    BY <1>4, <1>6, HighestTier
  <2>2. BlockOf(s, n, m) \in Lengths
    BY <1>4, <2>1 DEF BlockOf, Reached
  <2>3. BlockOf(s, n, m) <= most /\ BlockOf(s, n, m) \in Nat
    BY <1>1, <2>2, ShapeAssumption
  <2> HIDE DEF most
  <2> QED
    BY <1>2, <2>3
<1> QED
  BY <1>5, <1>6

\* Older no-shows, or a shorter window, count for less.
LEMMA CountFalls ==
  ASSUME NEW S \in SUBSET Keys, NEW f \in [Keys -> Nat], NEW g \in [Keys -> Nat],
         \A k \in S : f[k] <= g[k], NEW v \in Nat, NEW w \in Nat, w <= v
  PROVE  /\ Counted(S, g, w) <= Counted(S, f, v)
         /\ Counted(S, g, w) \in 0..Cardinality(Keys)
<1> DEFINE older   == {k \in S : g[k] <= w}
           younger == {k \in S : f[k] <= v}
<1>1. older \subseteq younger /\ younger \subseteq Keys
  OBVIOUS
<1>2. /\ IsFiniteSet(younger) /\ Cardinality(younger) \in Nat
      /\ Cardinality(younger) <= Cardinality(Keys) /\ Cardinality(Keys) \in Nat
  BY <1>1, FS_Subset, FS_CardinalityType, ConfigAssumption
<1>3. Cardinality(older) \in Nat /\ Cardinality(older) <= Cardinality(younger)
  BY <1>1, <1>2, FS_Subset, FS_CardinalityType
<1> QED
  BY <1>2, <1>3 DEF Counted

LEMMA CountsAgree ==
  ASSUME NEW S \in SUBSET Keys, NEW f \in [Keys -> Nat], NEW s \in Services, NEW n,
         n = Counted(S, f, Window)
  PROVE  /\ n \in 0..Cardinality(Keys)
         /\ Counted(S, f, OwnWindow(s, n)) \in 0..Cardinality(Keys)
         /\ Agree(s, n, Counted(S, f, OwnWindow(s, n)))
  BY WindowsAreLengths, CountFalls DEF Agree

\* As no-shows age, the block they lead to gets no longer.
LEMMA LengthFalls ==
  ASSUME Progressive, NEW S \in SUBSET Keys, NEW f \in [Keys -> Nat],
         NEW g \in [Keys -> Nat], \A k \in S : f[k] <= g[k], NEW s \in Services
  PROVE  LengthOf(S, g, s) <= LengthOf(S, f, s)
<1> DEFINE n  == Counted(S, g, Window)
           n2 == Counted(S, f, Window)
           m  == Counted(S, g, OwnWindow(s, n))
           m2 == Counted(S, f, OwnWindow(s, n2))
<1>1. n <= n2
  BY WindowsAreLengths, CountFalls
<1>2. OwnWindow(s, n) <= OwnWindow(s, n2) => m <= m2
  BY WindowsAreLengths, CountFalls
<1>3. /\ n \in 0..Cardinality(Keys) /\ m \in 0..Cardinality(Keys) /\ Agree(s, n, m)
      /\ n2 \in 0..Cardinality(Keys) /\ m2 \in 0..Cardinality(Keys) /\ Agree(s, n2, m2)
  BY CountsAgree
<1> HIDE DEF n, n2, m, m2
<1>4. BlockOf(s, n, m) <= BlockOf(s, n2, m2)
  BY <1>1, <1>2, <1>3 DEF Progressive
<1> QED
  BY <1>4 DEF LengthOf, n, n2, m, m2

LEMMA LatestIs ==
  ASSUME NEW S \in SUBSET Keys, S # {}, NEW f \in [Keys -> Nat]
  PROVE  Latest(S, f) \in S /\ \A j \in S : f[Latest(S, f)] <= f[j]
<1> DEFINE ages == {f[j] : j \in S}
<1>1. PICK a \in ages : \A b \in ages : a <= b
  <2>1. ages \in SUBSET Nat /\ ages # {}
    OBVIOUS
  <2> HIDE DEF ages
  <2> QED
    BY <2>1, Smallest
<1>2. \E k \in S : \A j \in S : f[k] <= f[j]
  BY <1>1
<1> QED
  BY <1>2 DEF Latest

LEMMA LengthIsNat ==
  ASSUME NEW S \in SUBSET Keys, NEW f \in [Keys -> Nat], NEW s \in Services
  PROVE  LengthOf(S, f, s) \in Nat /\ Old \in Nat /\ LengthOf(S, f, s) < Old
<1>1. Counted(S, f, OwnWindow(s, Counted(S, f, Window))) \in 0..Cardinality(Keys)
  BY CountsAgree
<1>2. Counted(S, f, OwnWindow(s, Counted(S, f, Window))) \in Nat
  BY <1>1, FS_CardinalityType, ConfigAssumption
<1> QED
  BY <1>2, BlocksAreLengths DEF LengthOf

\* A tick takes one off what is left of a block.
LEMMA TickShortens ==
  ASSUME Progressive, NEW S \in SUBSET Keys, NEW f \in [Keys -> Nat],
         NEW g \in [Keys -> Nat], \A k \in S : g[k] = Older(f[k]), NEW s \in Services,
         NEW t \in Nat, LeftOf(S, f, s) <= t
  PROVE  LeftOf(S, g, s) <= Sooner(t)
<1>1. CASE S = {}
  BY <1>1 DEF LeftOf, Sooner
<1>2. CASE S # {}
  <2> DEFINE k  == Latest(S, f)
             k2 == Latest(S, g)
             b  == LengthOf(S, f, s)
             b2 == LengthOf(S, g, s)
  <2>1. b \in Nat /\ b2 \in Nat /\ Old \in Nat /\ b < Old /\ b2 < Old
    BY LengthIsNat
  <2>2. /\ k \in S /\ \A j \in S : f[k] <= f[j]
        /\ k2 \in S /\ \A j \in S : g[k2] <= g[j]
    BY <1>2, LatestIs
  <2>3. \A j \in S : /\ j \in Keys /\ f[j] \in Nat /\ g[j] \in Nat
                     /\ g[j] = IF f[j] < Old THEN f[j] + 1 ELSE f[j]
    BY DEF Older
  <2>4. b2 <= b
    <3>1. \A j \in S : f[j] <= g[j]
      BY <2>1, <2>3
    <3> QED
      BY <3>1, LengthFalls
  <2>5. b - f[k] <= t
    BY <1>2 DEF LeftOf
  <2> HIDE DEF k, k2, b, b2
  <2>6. g[k2] >= Old \/ g[k2] >= f[k] + 1
    BY <2>1, <2>2, <2>3
  <2>7. b2 - g[k2] <= Sooner(t)
    BY <2>1, <2>2, <2>3, <2>4, <2>5, <2>6 DEF Sooner
  <2> QED
    BY <1>2, <2>7 DEF LeftOf, k2, b2
<1> QED
  BY <1>1, <1>2

\* What is left depends on the ages of the no-shows alone.
LEMMA LeftDependsOn ==
  ASSUME NEW S \in SUBSET Keys, NEW f \in [Keys -> Nat], NEW g \in [Keys -> Nat],
         \A k \in S : f[k] = g[k], NEW s \in Services
  PROVE  LeftOf(S, f, s) = LeftOf(S, g, s)
<1>1. \A w : {k \in S : f[k] <= w} = {k \in S : g[k] <= w}
  OBVIOUS
<1>2. LengthOf(S, f, s) = LengthOf(S, g, s)
  BY <1>1 DEF LengthOf, Counted
<1>3. S # {} => f[Latest(S, f)] = g[Latest(S, g)]
  <2> SUFFICES ASSUME S # {} PROVE f[Latest(S, f)] = g[Latest(S, g)]
    OBVIOUS
  <2>1. /\ Latest(S, f) \in S /\ \A j \in S : f[Latest(S, f)] <= f[j]
        /\ Latest(S, g) \in S /\ \A j \in S : g[Latest(S, g)] <= g[j]
    BY LatestIs
  <2>2. /\ f[Latest(S, f)] \in Nat /\ g[Latest(S, g)] \in Nat
        /\ f[Latest(S, f)] = g[Latest(S, f)] /\ f[Latest(S, g)] = g[Latest(S, g)]
    BY <2>1
  <2> QED
    BY <2>1, <2>2
<1> QED
  BY <1>2, <1>3 DEF LeftOf

-----------------------------------------------------------------------------
(***************************************************************************)
(* The block over time                                                     *)
(***************************************************************************)
ClockInv ==
  /\ age \in [Keys -> Nat]
  /\ told \in [Services -> Nat \cup {Nothing}]
  /\ visit \in [Keys -> Nat \cup {NotBooked}]
  /\ \A k \in Keys : visit[k] = NotBooked => status[k] = "none"

\* What a client was told is never less than what is left of its block.
ToldInv == \A s \in Services : told[s] # Nothing => BlockLeft(s) <= told[s]

BInv == Progressive /\ TypesInv /\ ClockInv /\ ToldInv

LEMMA LeftIsInt ==
  ASSUME ClockInv, NEW s \in Services
  PROVE  BlockLeft(s) \in Int
<1>1. NoShows \in SUBSET Keys /\ age \in [Keys -> Nat]
  BY DEF NoShows, ClockInv
<1>2. LengthOf(NoShows, age, s) \in Nat
  BY <1>1, LengthIsNat
<1>3. NoShows # {} => age[Latest(NoShows, age)] \in Nat
  BY <1>1, LatestIs
<1> QED
  BY <1>2, <1>3, BlockLeftIs DEF LeftOf

\* A step that changes neither the no-shows nor their ages.
LEMMA SameBlock ==
  ASSUME ClockInv, age' \in [Keys -> Nat], NoShows' = NoShows,
         \A k \in NoShows : age'[k] = age[k], NEW s \in Services
  PROVE  BlockLeft(s)' = BlockLeft(s)
<1>1. NoShows \in SUBSET Keys /\ age \in [Keys -> Nat]
  BY DEF NoShows, ClockInv
<1> QED
  BY <1>1, LeftDependsOn, BlockLeftIs

LEMMA BookTells ==
  ASSUME BInv, NEW s \in Services, NEW t \in 1..Far, Book(s, t)
  PROVE  ClockInv' /\ ToldInv'
<1>1. PICK k \in Keys :
        /\ visit[k] = NotBooked
        /\ visit' = [visit EXCEPT ![k] = t]
        /\ status' = [status EXCEPT ![k] = "scheduled"] \/ status' = status
  BY DEF Book
<1>2. t \in Nat /\ t # NotBooked
  BY FarAssumption DEF NotBooked
<1>3. age' = age /\ told' = told
  BY DEF Book
<1>4. ClockInv'
  BY <1>1, <1>2, <1>3 DEF BInv, ClockInv, TypesInv
<1>5. NoShows' = NoShows
  BY <1>1 DEF NoShows, BInv, ClockInv, TypesInv
<1> QED
  BY <1>3, <1>4, <1>5, SameBlock DEF BInv, ClockInv, ToldInv

LEMMA RefuseTells ==
  ASSUME BInv, NEW s \in Services, Refuse(s)
  PROVE  ClockInv' /\ ToldInv'
<1>1. /\ told' = [told EXCEPT ![s] = IF BlockLeft(s) > 0 THEN BlockLeft(s) ELSE @]
      /\ UNCHANGED <<status, age, visit>>
  BY DEF Refuse
<1>2. BlockLeft(s) \in Int
  BY LeftIsInt DEF BInv
<1>3. ClockInv'
  BY <1>1, <1>2 DEF BInv, ClockInv
<1>4. \A r \in Services : BlockLeft(r)' = BlockLeft(r)
  BY <1>1, SameBlock DEF BInv, ClockInv, NoShows
<1> QED
  BY <1>1, <1>2, <1>3, <1>4 DEF BInv, ClockInv, ToldInv

LEMMA WebhookTells ==
  ASSUME BInv, NEW k \in Keys, NEW outcome \in {"noshow", "completed", "canceled"},
         Webhook(k, outcome)
  PROVE  ClockInv' /\ ToldInv'
<1>1. /\ visit[k] # NotBooked /\ status' = [status EXCEPT ![k] = outcome]
      /\ age' = [age EXCEPT ![k] = 0] /\ visit' = [visit EXCEPT ![k] = 0]
      /\ told' = IF "noshow" \in {status[k], outcome}
                 THEN [s \in Services |-> Nothing] ELSE told
  BY DEF Webhook
<1>2. ClockInv'
  BY <1>1 DEF BInv, ClockInv, TypesInv, NotBooked
<1>3. CASE "noshow" \in {status[k], outcome}
  BY <1>1, <1>2, <1>3 DEF ToldInv
<1>4. CASE "noshow" \notin {status[k], outcome}
  <2>1. NoShows' = NoShows /\ \A j \in NoShows : age'[j] = age[j]
    BY <1>1, <1>4 DEF NoShows, BInv, ClockInv, TypesInv
  <2>2. told' = told /\ age' \in [Keys -> Nat]
    BY <1>1, <1>2, <1>4 DEF ClockInv
  <2> QED
    BY <1>2, <2>1, <2>2, SameBlock DEF BInv, ToldInv
<1> QED
  BY <1>3, <1>4

LEMMA TickTells ==
  ASSUME BInv, Tick
  PROVE  ClockInv' /\ ToldInv'
<1>1. /\ visit' = [k \in Keys |-> Sooner(visit[k])]
      /\ age' = [k \in Keys |-> IF status[k] = "noshow" THEN Older(age[k]) ELSE 0]
      /\ told' = [s \in Services |-> Sooner(told[s])]
      /\ status' = status
  BY DEF Tick
<1>2. \A n \in Nat : Sooner(n) \in Nat /\ Older(n) \in Nat
  BY DEF Sooner, Older
<1>3. Sooner(Nothing) = Nothing /\ Sooner(NotBooked) = NotBooked
  BY DEF Sooner, Nothing, NotBooked
<1>4. Nothing \notin Nat /\ NotBooked \notin Nat
  BY DEF Nothing, NotBooked
<1>5. ClockInv'
  BY <1>1, <1>2, <1>3, <1>4 DEF BInv, ClockInv
<1>6. ASSUME NEW s \in Services, told'[s] # Nothing
      PROVE  BlockLeft(s)' <= told'[s]
  <2>1. told[s] \in Nat /\ told'[s] = Sooner(told[s])
    BY <1>1, <1>3, <1>6 DEF BInv, ClockInv
  <2>2. NoShows' = NoShows /\ \A k \in NoShows : age'[k] = Older(age[k])
    BY <1>1 DEF NoShows
  <2>3. /\ NoShows \in SUBSET Keys /\ age \in [Keys -> Nat] /\ age' \in [Keys -> Nat]
        /\ LeftOf(NoShows, age, s) <= told[s]
    BY <1>4, <1>5, <2>1, BlockLeftIs DEF NoShows, BInv, ClockInv, ToldInv
  <2>4. LeftOf(NoShows, age', s) <= Sooner(told[s])
    BY <2>1, <2>2, <2>3, TickShortens DEF BInv
  <2> QED
    BY <2>1, <2>2, <2>4, BlockLeftIs
<1> QED
  BY <1>5, <1>6 DEF ToldInv

LEMMA NextTells == BInv /\ IInv /\ [Next]_vars => BInv'
<1> SUFFICES ASSUME BInv, IInv, [Next]_vars
             PROVE  BInv'
  OBVIOUS
<1>1. TypesInv'
  BY NextInv DEF IInv
<1>2. Progressive'
  BY DEF BInv, Progressive, BlockOf, Agree, OwnWindow, Window, LimitsFor
<1>3. ASSUME NEW k \in Keys, NEW t \in 1..Far, Reschedule(k, t)
      PROVE  ClockInv' /\ ToldInv'
  <2>1. t \in Nat /\ t # NotBooked
    BY FarAssumption DEF NotBooked
  <2>2. ClockInv'
    BY <1>3, <2>1 DEF Reschedule, BInv, ClockInv
  <2> QED
    BY <1>3, <2>2, SameBlock DEF Reschedule, BInv, ToldInv, ClockInv, NoShows
<1>4. CASE UNCHANGED vars
  <2>1. ClockInv'
    BY <1>4 DEF vars, BInv, ClockInv
  <2> QED
    BY <1>1, <1>2, <1>4, <2>1, SameBlock DEF vars, BInv, ToldInv, ClockInv, NoShows
<1> QED
  BY <1>1, <1>2, <1>3, <1>4, BookTells, RefuseTells, WebhookTells, TickTells DEF Next, BInv

LEMMA InitTells == Progressive /\ Init => BInv
<1> SUFFICES ASSUME Progressive, Init PROVE BInv
  OBVIOUS
<1>1. TypesInv
  BY InitInv DEF IInv
<1>2. ClockInv /\ ToldInv
  BY DEF Init, ClockInv, ToldInv
<1> QED
  BY <1>1, <1>2 DEF BInv

LEMMA Told == Progressive => (Spec => [](BInv /\ IInv))
  BY InitInv, NextInv, InitTells, NextTells, PTL DEF Spec

Escalating(tiers) ==
  \A i, j \in DOMAIN tiers : tiers[i].from <= tiers[j].from
                               => tiers[i].block_days <= tiers[j].block_days

LEMMA BlockGrows ==
  ASSUME NEW tiers, TierList(tiers), Escalating(tiers),
         \A i \in DOMAIN tiers : tiers[i].block_days \in Nat,
         NEW m \in Nat, NEW n \in Nat, m <= n
  PROVE  ResolvePenalty(tiers, m).block_days <= ResolvePenalty(tiers, n).block_days
<1>1. Reached(tiers, m) \subseteq Reached(tiers, n)
  BY DEF Reached, TierList
<1>2. CASE Reached(tiers, n) = {}
  BY <1>1, <1>2 DEF ResolvePenalty, NoPenalty
<1>3. CASE Reached(tiers, n) # {}
  <2>1. PICK k \in Reached(tiers, n) :
          /\ ResolvePenalty(tiers, n) = tiers[k]
          /\ \A j \in Reached(tiers, n) : tiers[j].from <= tiers[k].from
    BY <1>3, HighestTier
  <2>2. CASE Reached(tiers, m) = {}
    <3>1. ResolvePenalty(tiers, m).block_days = 0
      BY <2>2 DEF ResolvePenalty, NoPenalty
    <3> QED
      BY <2>1, <3>1 DEF Reached
  <2>3. CASE Reached(tiers, m) # {}
    <3>1. PICK i \in Reached(tiers, m) : ResolvePenalty(tiers, m) = tiers[i]
      BY <2>3, HighestTier
    <3> QED
      BY <1>1, <2>1, <3>1 DEF Escalating, Reached
  <2> QED
    BY <2>2, <2>3
<1> QED
  BY <1>2, <1>3

\* Configurations like the one shipped, whose tiers block for longer the higher
\* they are and whose rules, if any, do not match on noshow_count: fewer
\* no-shows never mean a longer block.
THEOREM EscalatingTiersSuffice ==
  ASSUME \A o \in Objects : Escalating(Setting(o, "noshow_penalties")),
         \A r \in DOMAIN Config.rules :
           \A c \in Config.rules[r].match : c.field # "noshow_count"
  PROVE  Progressive
<1> SUFFICES ASSUME NEW s \in Services,
                    NEW n \in 0..Cardinality(Keys), NEW n2 \in 0..Cardinality(Keys),
                    NEW m \in 0..Cardinality(Keys), NEW m2 \in 0..Cardinality(Keys),
                    OwnWindow(s, n) <= OwnWindow(s, n2) => m <= m2
             PROVE  BlockOf(s, n, m) <= BlockOf(s, n2, m2)
  BY DEF Progressive
<1> DEFINE context(c) == [service_key |-> s.service_key, tag |-> s.tag,
                          noshow_count |-> c]
           hits(c)    == {r \in DOMAIN Config.rules :
                            Matches(Config.rules[r].match, context(c))}
           first(h)   == CHOOSE i \in h : \A j \in h : i <= j
           chosen(h)  == IF h = {} THEN Config.defaults
                         ELSE Merge(Config.defaults, Config.rules[first(h)].over)
           tiers      == Setting(LimitsFor(s, n), "noshow_penalties")
<1>1. ASSUME NEW r \in DOMAIN Config.rules
      PROVE  Matches(Config.rules[r].match, context(n))
               <=> Matches(Config.rules[r].match, context(n2))
  <2>1. ASSUME NEW c \in Config.rules[r].match
        PROVE  Satisfies(c, context(n)) <=> Satisfies(c, context(n2))
    BY DEF Satisfies, CountIn
  <2> QED
    BY <2>1 DEF Matches
<1>2. hits(n) = hits(n2)
  BY <1>1
<1>3. LimitsFor(s, n) = LimitsFor(s, n2)
  <2>1. LimitsFor(s, n) = chosen(hits(n)) /\ LimitsFor(s, n2) = chosen(hits(n2))
    BY DEF LimitsFor, ResolveRule
  <2> HIDE DEF chosen, hits
  <2> QED
    BY <1>2, <2>1
<1>4. m <= m2 /\ m \in Nat /\ m2 \in Nat
  <2>1. Cardinality(Keys) \in Nat
    BY FS_CardinalityType, ConfigAssumption
  <2>2. OwnWindow(s, n) = OwnWindow(s, n2) /\ OwnWindow(s, n) \in Nat
    BY <1>3, WindowsAreLengths DEF OwnWindow
  <2> QED
    BY <2>1, <2>2
<1>5. /\ TierList(tiers) /\ Escalating(tiers)
      /\ \A i \in DOMAIN tiers : tiers[i].block_days \in Nat
  BY LimitsAreObjects, ShapeAssumption DEF Lengths
<1>6. ResolvePenalty(tiers, m).block_days <= ResolvePenalty(tiers, m2).block_days
  <2> HIDE DEF tiers
  <2> QED
    BY <1>4, <1>5, BlockGrows
<1> QED
  BY <1>3, <1>6 DEF BlockOf

\* docs/booking-limits.md: after the block period expires, the client can book
\* again.  With penalties that escalate, the date a client was told (block_until)
\* is not put off unless it misses again.
THEOREM BlockEndsAsTold == Progressive => (Spec => []BlockEnds)
<1>1. BInv => BlockEnds
  <2> SUFFICES ASSUME BInv, NEW s \in Services, told[s] = 0
               PROVE  Verdict(s) # "noshow_blocked"
    BY DEF BlockEnds
  <2>1. BlockLeft(s) \in Int /\ ~(BlockLeft(s) > 0)
    BY LeftIsInt DEF BInv, ToldInv, Nothing
  <2> QED
    BY <2>1 DEF Verdict
<1> QED
  BY <1>1, Told, PTL

\* With penalties that escalate and windows no shorter than the first block, a
\* fresh no-show blocks at least as long as a first one, whatever the others do.
THEOREM FreshNoShowBlocks ==
  Progressive /\ WindowsCover => (Spec => []NoShowNeverHelps)
<1> SUFFICES ASSUME WindowsCover
             PROVE  Progressive => (Spec => []NoShowNeverHelps)
  OBVIOUS
<1>1. BInv => NoShowNeverHelps
  <2> SUFFICES ASSUME BInv, NEW s \in Services, NEW k \in NoShows,
                      age[k] < BlockOf(s, 1, 1)
               PROVE  Verdict(s) = "noshow_blocked"
    BY DEF NoShowNeverHelps
  <2> DEFINE n == Counted(NoShows, age, Window)
             m == Counted(NoShows, age, OwnWindow(s, n))
  <2>1. /\ NoShows \in SUBSET Keys /\ k \in Keys /\ age \in [Keys -> Nat] /\ age[k] \in Nat
    BY DEF NoShows, BInv, ClockInv
  <2>2. \A w \in Nat : age[k] <= w => Counted(NoShows, age, w) >= 1
    <3> SUFFICES ASSUME NEW w \in Nat, age[k] <= w
                 PROVE  Counted(NoShows, age, w) >= 1
      OBVIOUS
    <3> DEFINE hits == {j \in NoShows : age[j] <= w}
    <3>1. hits \subseteq Keys /\ k \in hits
      BY <2>1
    <3>2. IsFiniteSet(hits) /\ Cardinality(hits) \in Nat /\ Cardinality(hits) # 0
      BY <3>1, FS_Subset, FS_CardinalityType, FS_EmptySet, ConfigAssumption
    <3> QED
      BY <3>2 DEF Counted
  <2>3. /\ n \in 0..Cardinality(Keys) /\ m \in 0..Cardinality(Keys)
        /\ Agree(s, n, m)
    BY <2>1, CountsAgree
  <2>4. BlockOf(s, 1, 1) \in Nat /\ Window \in Nat /\ OwnWindow(s, n) \in Nat
    BY BlocksAreLengths, WindowsAreLengths
  <2>5. Cardinality(Keys) \in Nat
    BY FS_CardinalityType, ConfigAssumption
  <2> HIDE DEF n, m
  <2>6. Cardinality(Keys) # 0
    BY <2>1, FS_EmptySet, ConfigAssumption
  <2>7. BlockOf(s, 1, 1) <= Window
    BY <2>5, <2>6 DEF WindowsCover
  <2>8. n >= 1
    BY <2>1, <2>2, <2>4, <2>7 DEF n
  <2>9. BlockOf(s, 1, 1) <= OwnWindow(s, n)
    BY <2>3, <2>5, <2>8 DEF WindowsCover
  <2>10. m >= 1
    BY <2>1, <2>2, <2>4, <2>9 DEF m
  <2>11. BlockOf(s, 1, 1) <= BlockOf(s, n, m)
    <3>1. Agree(s, 1, 1) /\ 1 \in 0..Cardinality(Keys)
      BY <2>5, <2>6 DEF Agree
    <3> QED
      BY <2>3, <2>5, <2>8, <2>10, <3>1 DEF BInv, Progressive
  <2>12. BlockOf(s, n, m) - age[Latest(NoShows, age)] > 0
    <3>1. BlockOf(s, n, m) \in Nat
      BY <2>3, <2>5, BlocksAreLengths
    <3>2. Latest(NoShows, age) \in NoShows /\ age[Latest(NoShows, age)] <= age[k]
      BY <2>1, LatestIs
    <3> QED
      BY <2>1, <2>4, <2>11, <3>1, <3>2
  <2>13. BlockLeft(s) > 0
    BY <2>12, BlockLeftIs DEF LeftOf, LengthOf, n, m
  <2> QED
    BY <2>13 DEF Verdict
<1> QED
  BY <1>1, Told, PTL

=============================================================================
