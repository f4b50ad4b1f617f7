---------------------------- MODULE MCAppointments ----------------------------
EXTENDS Appointments, TLC

CONSTANTS w1, w2, h1, h2, k1, k2, k3, p1, p2, q1, q2

\* The default configuration, scaled down: a cap of one future appointment, and
\* a second tier that lowers it to none.
MCConfig ==
  [defaults |-> [max_future_appointments |-> 1, noshow_window_days |-> 90,
                 cooldown_minutes |-> 5,
                 noshow_penalties |->
                   <<[from |-> 1, block_days |-> 7],
                     [from |-> 2, block_days |-> 14, max_future_appointments |-> 0]>>],
   rules |-> << >>]

MCServices == {[service_key |-> "any", tag |-> "any"]}

Symmetric == Permutations(Workers) \cup Permutations(Keys) \cup Permutations(Questions)
             \cup Permutations(Hooks) \cup Permutations(ExtIds)
=============================================================================
