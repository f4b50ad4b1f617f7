-------------------------- MODULE AppointmentLedger ---------------------------
(***************************************************************************)
(* What the local_appointment table promises the rest of the proxy,        *)
(* whatever handlers write it: a key enters the ledger once, with an owner *)
(* that never changes; it may be settled with an outcome the cloud         *)
(* announced, and corrected with another; it never goes back to being a    *)
(* scheduled booking; and it leaves only when its owner is forgotten.      *)
(***************************************************************************)
CONSTANTS Keys,     \* appointment keys
          ExtIds,   \* external_ids of the people who book
          Outcomes, \* what a booking can end as
          None      \* no entry

VARIABLE ledger

Entry == [ext : ExtIds, status : Outcomes \cup {"scheduled"}]

Init == ledger = [k \in Keys |-> None]

Track(k, entry) ==
  /\ ledger[k] = None
  /\ ledger' = [ledger EXCEPT ![k] = entry]

Settle(k, outcome) ==
  /\ ledger[k] # None
  /\ ledger' = [ledger EXCEPT ![k].status = outcome]

Forget(e, gone) ==
  /\ \A k \in gone : ledger[k] # None /\ ledger[k].ext = e
  /\ ledger' = [k \in Keys |-> IF k \in gone THEN None ELSE ledger[k]]

Next ==
  \/ \E k \in Keys, entry \in Entry : Track(k, entry)
  \/ \E k \in Keys, outcome \in Outcomes : Settle(k, outcome)
  \/ \E e \in ExtIds, gone \in SUBSET Keys : Forget(e, gone)

Spec == Init /\ [][Next]_ledger

=============================================================================
