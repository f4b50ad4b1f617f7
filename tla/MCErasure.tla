------------------------------- MODULE MCErasure ------------------------------
EXTENDS Erasure, TLC

CONSTANTS w1, h1, k1, k2, p1, p2, q1

MCConfig ==
  [defaults |-> [max_future_appointments |-> 2, noshow_window_days |-> 90,
                 cooldown_minutes |-> 0, noshow_penalties |-> << >>],
   rules |-> << >>]

MCServices == {[service_key |-> "any", tag |-> "any"]}

Symmetric == Permutations(Keys) \cup Permutations(ExtIds)
=============================================================================
