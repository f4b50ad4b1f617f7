----------------------------- MODULE CustomStore ------------------------------
(***************************************************************************)
(* What local_custom_data promises to clients whose requests overlap.      *)
(* A PUT replaces, a DELETE removes, and a PATCH merges its fields over a  *)
(* version of the entity that was current at some time while the PATCH was *)
(* under way.  "seen" holds those versions: without another write of the   *)
(* entity in between it is a singleton, and the PATCH is atomic.           *)
(***************************************************************************)
CONSTANTS Clients,  \* requests that can be under way at once
          Entities, \* what custom data hangs on: <<entity_type, entity_key>>
          Docs,     \* JSON objects
          None      \* no row, no request

VARIABLES stored, \* entity -> its data
          target, \* client -> the entity it is patching
          fields, \* client -> the object its PATCH carries
          seen    \* client -> the versions current since its PATCH began

vars == <<stored, target, fields, seen>>

\* {**existing, **data}
Overlay(data, existing) ==
  IF existing = None THEN data
  ELSE [f \in DOMAIN existing \cup DOMAIN data |->
          IF f \in DOMAIN data THEN data[f] ELSE existing[f]]

Init ==
  /\ stored = [e \in Entities |-> None]
  /\ target = [c \in Clients |-> None]
  /\ fields = [c \in Clients |-> None]
  /\ seen = [c \in Clients |-> {}]

\* Entity e becomes d; every PATCH of e that is under way may have seen that.
Becomes(e, d, under) ==
  /\ stored' = [stored EXCEPT ![e] = d]
  /\ target' = under
  /\ fields' = [c \in Clients |-> IF under[c] = None THEN None ELSE fields[c]]
  /\ seen' = [c \in Clients |-> IF under[c] = None THEN {}
                                ELSE IF under[c] = e THEN seen[c] \cup {d}
                                ELSE seen[c]]

Put(e, d) == Becomes(e, d, target)

Delete(e) == Becomes(e, None, target)

Begin(c, e, d) ==
  /\ target[c] = None
  /\ target' = [target EXCEPT ![c] = e]
  /\ fields' = [fields EXCEPT ![c] = d]
  /\ seen' = [seen EXCEPT ![c] = {stored[e]}]
  /\ UNCHANGED stored

Patch(c) ==
  /\ target[c] # None
  /\ \E version \in seen[c] :
       Becomes(target[c], Overlay(fields[c], version), [target EXCEPT ![c] = None])

Abandon(c) ==
  /\ target[c] # None
  /\ target' = [target EXCEPT ![c] = None]
  /\ fields' = [fields EXCEPT ![c] = None]
  /\ seen' = [seen EXCEPT ![c] = {}]
  /\ UNCHANGED stored

Next ==
  \/ \E e \in Entities, d \in Docs : Put(e, d)
  \/ \E e \in Entities : Delete(e)
  \/ \E c \in Clients, e \in Entities, d \in Docs : Begin(c, e, d)
  \/ \E c \in Clients : Patch(c) \/ Abandon(c)

Spec == Init /\ [][Next]_vars

=============================================================================
