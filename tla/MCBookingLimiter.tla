--------------------------- MODULE MCBookingLimiter ---------------------------
EXTENDS BookingLimiter, TLC

CONSTANTS k1, k2, k3

\* booking_limits.json and the documentation's example rules, scaled down: a
\* day is one tick, tiers are not written in order, the window is as long as the
\* longest default block, one rule has a window of its own and only
\* matches a service and a tag together.
MCConfig ==
  [defaults |-> [max_future_appointments |-> 2, noshow_window_days |-> 3,
                 cooldown_minutes |-> 1,
                 noshow_penalties |->
                   <<[from |-> 2, block_days |-> 2],
                     [from |-> 1, block_days |-> 1],
                     [from |-> 3, block_days |-> 3, max_future_appointments |-> 1]>>],
   rules |->
     <<[match |-> {[field |-> "service_key", op |-> "eq", value |-> "dentistry"],
                   [field |-> "tag", op |-> "eq", value |-> "priority"]},
        over |-> [max_future_appointments |-> 1, noshow_window_days |-> 4,
                  noshow_penalties |->
                    <<[from |-> 1, block_days |-> 2],
                      [from |-> 2, block_days |-> 3, max_future_appointments |-> 0]>>]],
       [match |-> {[field |-> "noshow_count", op |-> "gte", value |-> 3]},
        over |-> [max_future_appointments |-> 1,
                  noshow_penalties |-> <<[from |-> 3, block_days |-> 4]>>]]>>]

\* What the theorems ask of a configuration, this one has.
ASSUME DocumentedAssumption == Progressive /\ WindowsCover

MCServices == {[service_key |-> "dentistry", tag |-> tag] : tag \in {"priority", "regular"}}

Symmetric == Permutations(Keys)
=============================================================================
