------------------------------ MODULE CustomData ------------------------------
(***************************************************************************)
(* CustomDataStore and the routes of local_data: PUT, PATCH and DELETE of  *)
(* the custom data of persons and appointments, and the upsert a booking   *)
(* does.  Each request has its own session.  A PATCH is a SELECT, a merge  *)
(* in Python and an INSERT ... ON CONFLICT DO UPDATE of the merged object; *)
(* other requests run between the two statements.  A statement and the     *)
(* commit that follows it are one step: a writer of the same row waits for *)
(* that commit, and nobody sees what is not committed.                     *)
(***************************************************************************)
EXTENDS FiniteSets

CONSTANTS Clients,  \* requests that can be under way at once
          Entities, \* <<entity_type, entity_key>>
          Fields,   \* keys of the JSON object
          Values,   \* ... and what they can be
          None      \* no row

Docs == UNION {[fs -> Values] : fs \in SUBSET Fields}

VARIABLES
  stored, \* local_custom_data: entity -> data of its committed row
  pc,     \* where each request stands
  entity, \* the entity it is about
  body,   \* the object it carries
  read,   \* PATCH: what store.get returned
  seen    \* PATCH: history, the versions committed since the request began

request == <<entity, body>>
vars    == <<stored, pc, entity, body, read, seen>>

ASSUME NoneAssumption == None \notin Docs \cup Entities

Init ==
  /\ stored = [e \in Entities |-> None]
  /\ pc = [c \in Clients |-> "idle"]
  /\ entity = [c \in Clients |-> None]
  /\ body = [c \in Clients |-> None]
  /\ read = [c \in Clients |-> None]
  /\ seen = [c \in Clients |-> {}]

Patching(c) == pc[c] \in {"select", "upsert"}

-----------------------------------------------------------------------------
\* A request comes in.
Arrive(c) ==
  /\ pc[c] = "idle"
  /\ \E e \in Entities, label \in {"replace", "delete", "select"} :
     \E d \in IF label = "delete" THEN {None} ELSE Docs :
       /\ entity' = [entity EXCEPT ![c] = e]
       /\ body' = [body EXCEPT ![c] = d]
       /\ pc' = [pc EXCEPT ![c] = label]
       /\ seen' = [seen EXCEPT ![c] = IF label = "select" THEN {stored[e]} ELSE {}]
  /\ UNCHANGED <<stored, read>>

\* The request is over.
Finish(c) ==
  /\ pc' = [pc EXCEPT ![c] = "idle"]
  /\ entity' = [entity EXCEPT ![c] = None]
  /\ body' = [body EXCEPT ![c] = None]
  /\ read' = [read EXCEPT ![c] = None]

\* A commit makes d the data of c's entity.
Save(c, d) ==
  /\ stored' = [stored EXCEPT ![entity[c]] = d]
  /\ seen' = [x \in Clients |->
                IF x = c THEN {}
                ELSE IF Patching(x) /\ entity[x] = entity[c] THEN seen[x] \cup {d}
                ELSE seen[x]]
  /\ Finish(c)

\* replace: INSERT ... ON CONFLICT DO UPDATE.
Replace(c) ==
  /\ pc[c] = "replace"
  /\ Save(c, body[c])

\* delete: no row is no error, only a 404.
Delete(c) ==
  /\ pc[c] = "delete"
  /\ Save(c, None)

\* upsert, first statement: get.
Select(c) ==
  /\ pc[c] = "select"
  /\ read' = [read EXCEPT ![c] = stored[entity[c]]]
  /\ pc' = [pc EXCEPT ![c] = "upsert"]
  /\ UNCHANGED <<stored, request, seen>>

\* Variant: the fields there are win over the fields that come in.
MergedOver(c) ==
  IF read[c] = None THEN body[c]
  ELSE [f \in DOMAIN read[c] \cup DOMAIN body[c] |->
          IF f \in DOMAIN read[c] THEN read[c][f] ELSE body[c][f]]

\* {**existing, **data}
Merged(c) ==
  IF read[c] = None THEN body[c]
  ELSE [f \in DOMAIN read[c] \cup DOMAIN body[c] |->
          IF f \in DOMAIN body[c] THEN body[c][f] ELSE read[c][f]]

\* upsert, second statement: the merged object overwrites whatever is there.
Upsert(c) ==
  /\ pc[c] = "upsert"
  /\ Save(c, Merged(c))

\* A statement fails, the client disconnects or the process dies.
Crash(c) ==
  /\ pc[c] # "idle"
  /\ seen' = [seen EXCEPT ![c] = {}]
  /\ UNCHANGED stored
  /\ Finish(c)

Progress(c) == Replace(c) \/ Delete(c) \/ Select(c) \/ Upsert(c)

Next == \E c \in Clients : Arrive(c) \/ Progress(c) \/ Crash(c)

Spec == Init /\ [][Next]_vars

-----------------------------------------------------------------------------
TypeOK ==
  /\ stored \in [Entities -> Docs \cup {None}]
  /\ pc \in [Clients -> {"idle", "replace", "delete", "select", "upsert"}]
  /\ entity \in [Clients -> Entities \cup {None}]
  /\ body \in [Clients -> Docs \cup {None}]
  /\ read \in [Clients -> Docs \cup {None}]
  /\ seen \in [Clients -> SUBSET (Docs \cup {None})]

\* Whatever requests overlap, the table is a CustomStore: a PATCH takes effect
\* at once, on data the entity had while the request was under way, and it is an
\* atomic merge if nobody else wrote the entity meanwhile (CustomDataStore).
Store == INSTANCE CustomStore WITH
  target <- [c \in Clients |-> IF Patching(c) THEN entity[c] ELSE None],
  fields <- [c \in Clients |-> IF Patching(c) THEN body[c] ELSE None]

StoreSpec == Store!Spec

=============================================================================
