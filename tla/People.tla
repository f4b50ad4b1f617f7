--------------------------------- MODULE People --------------------------------
(***************************************************************************)
(* The people endpoints over two stores: pii_person, which has the         *)
(* personal data by external_id, and the cloud, which has a pseudonym by   *)
(* person_key.  A write is stored first, then forwarded without personal   *)
(* data, and the cloud's answer is enriched from pii_person again; reads   *)
(* and erasures come in between.                                           *)
(***************************************************************************)
EXTENDS Integers, FiniteSets

CONSTANTS ExtIds,   \* external_ids the clients use
          Uuids,    \* bound: the ids intercept_person invents
          Keys,     \* bound: person_keys the cloud gives
          Requests, \* requests under way at once
          Fields,   \* the PII columns of pii_person that upsert_person sets
          Name,     \* ... the one that is NOT NULL, and that the cloud has an alias for
          Overlays, \* ... those the enricher puts into an answer: not date_of_birth
          Values,   \* what a field can be
          Blank,    \* ... the empty string, which is stored like any other value
          Bodies,   \* bound: what clients send of them
          MaxRows,  \* bound: rows inserted per external_id
          Null      \* NULL, an absent or null field, no row, nobody

Ids  == ExtIds \cup Uuids
Data == [Fields -> Values \cup {Null}]

ASSUME PeopleAssumption ==
  /\ Name \in Fields /\ Overlays \subseteq Fields
  /\ Bodies \subseteq Data
  /\ MaxRows \in Nat \ {0}
  /\ Null \notin Ids \cup Keys \cup Values \cup Nat

VARIABLES
  row,   \* external_id -> its pii_person row, Null without one
  ids,   \* external_id -> rows inserted for it so far
  cloud, \* person_key -> the cloud's person, Null without one
  req,   \* request -> what its handler holds
  born,  \* history: person_key -> external_id it was created with
  gone   \* history: external_ids that have been erased

vars == <<row, ids, cloud, req, born, gone>>

Row    == [id : 1..MaxRows, data : Data, key : Keys \cup {Null}, active : BOOLEAN]
Loaded == [id : 1..MaxRows, data : Data]
Person == [ext : Ids, alias : Ids]
Shown  == [ext : Ids, id : 1..MaxRows \cup {Null}, data : Data]

\* Null is no row and no person either.
ASSUME NullAssumption == Null \notin Row \cup Loaded \cup Person

Working == {"reload", "forward", "key", "cache", "enrich"}

\* sent is the body, loaded the row that the request's SQLAlchemy session has
\* in its identity map, hit the id update_person_key has found, disturbed a history
\* variable: another write got in.
Request == [pc : Working \cup {"idle", "answered"},
            kind : {"create", "update", "read", Null},
            sent : Data, ext : Ids \cup {Null}, key : Keys \cup {Null},
            loaded : Loaded \cup {Null}, hit : 1..MaxRows \cup {Null},
            reply : SUBSET Person, shown : SUBSET Shown, disturbed : BOOLEAN]

NoData == [f \in Fields |-> Null]
Idle   == [pc |-> "idle", kind |-> Null, sent |-> NoData, ext |-> Null, key |-> Null,
           loaded |-> Null, hit |-> Null, reply |-> {}, shown |-> {}, disturbed |-> FALSE]

Init ==
  /\ row = [i \in Ids |-> Null]
  /\ ids = [i \in Ids |-> 0]
  /\ cloud = [k \in Keys |-> Null]
  /\ req = [r \in Requests |-> Idle]
  /\ born = [k \in Keys |-> Null]
  /\ gone = {}

-----------------------------------------------------------------------------
(***************************************************************************)
(* intercept_person                                                        *)
(***************************************************************************)
\* Variant: a field that was not sent is set to NULL.
Replaced(old, sent) == sent

\* Variant: ON CONFLICT DO NOTHING.
KeptAsWas(old, sent) == [f \in Fields |-> IF old[f] = Null THEN sent[f] ELSE old[f]]

\* upsert_person sets the columns whose values are not None.
Merged(old, sent) == [f \in Fields |-> IF sent[f] = Null THEN old[f] ELSE sent[f]]

Upserted(i, sent) ==
  IF row[i] = Null
  THEN [id |-> ids[i] + 1, data |-> Merged(NoData, sent), key |-> Null, active |-> TRUE]
  ELSE [row[i] EXCEPT !.data = Merged(@, sent)]

\* The requests about i that stand at one of the labels.
Disturb(i, labels) ==
  [s \in Requests |->
     IF req[s].ext = i /\ req[s].pc \in labels
     THEN [req[s] EXCEPT !.disturbed = TRUE] ELSE req[s]]

\* Each invented id is new.  (Who sends one that was invented earlier uses it like
\* an id of its own.)
Invented == {u \in Uuids : ids[u] = 0}

\* POST, PUT or PATCH: the body's external_id, or else an invented one, gets its
\* row, in a transaction that commits.  Without a name the INSERT violates NOT
\* NULL, also when there is a row to update: the request ends and nothing
\* changes.
Upsert(r) ==
  /\ req[r].pc = "idle"
  /\ \E kind \in {"create", "update"}, sent \in Bodies, i \in ExtIds \cup Invented,
        k \in Keys :
       /\ sent[Name] # Null
       /\ row[i] = Null => ids[i] < MaxRows
       /\ row' = [row EXCEPT ![i] = Upserted(i, sent)]
       /\ ids' = [ids EXCEPT ![i] = Upserted(i, sent).id]
       /\ req' = [Disturb(i, {"reload"}) EXCEPT ![r] =
                    [Idle EXCEPT !.pc = "reload", !.kind = kind, !.sent = sent, !.ext = i,
                                 !.key = IF kind = "update" THEN k ELSE Null,
                                 !.disturbed = ~Upserted(i, sent).active]]
  /\ UNCHANGED <<cloud, born, gone>>

Goto(r, label) == [req EXCEPT ![r].pc = label]

Close(r) == req' = [req EXCEPT ![r] = Idle]

InSession(i) == [id |-> row[i].id, data |-> row[i].data]

\* The row is read back; scalar_one raises if it has been erased.
Reload(r) ==
  /\ req[r].pc = "reload"
  /\ IF row[req[r].ext] = Null THEN Close(r)
     ELSE req' = [Goto(r, "forward") EXCEPT ![r].loaded = InSession(req[r].ext)]
  /\ UNCHANGED <<row, ids, cloud, born, gone>>

-----------------------------------------------------------------------------
(***************************************************************************)
(* The cloud                                                               *)
(***************************************************************************)
\* Variant: the invented id is not put back into the body.
CleanedOfInvented(r) ==
  [ext |-> IF req[r].ext \in ExtIds THEN req[r].ext ELSE Null, alias |-> req[r].ext]

\* _strip_pii: the id goes out as it is, the name as the prefix and the id, and
\* no other PII field does.
Cleaned(r) == [ext |-> req[r].ext, alias |-> req[r].ext]

Reached(r, k, next) ==
  /\ cloud' = [cloud EXCEPT ![k] = Cleaned(r)]
  /\ req' = [Goto(r, next) EXCEPT ![r].key = k, ![r].reply = {Cleaned(r)}]

\* POST /people/: another person, whatever external_ids there are.
CloudCreate(r) ==
  /\ req[r].pc = "forward" /\ req[r].kind = "create"
  /\ \E k \in Keys : /\ cloud[k] = Null
                     /\ Reached(r, k, "key")
                     /\ born' = [born EXCEPT ![k] = req[r].ext]
  /\ UNCHANGED <<row, ids, gone>>

\* PUT or PATCH /people/{person_key}/: both carry the id and the alias.
CloudUpdate(r) ==
  /\ req[r].pc = "forward" /\ req[r].kind = "update"
  /\ cloud[req[r].key] # Null
  /\ Reached(r, req[r].key, "enrich")
  /\ UNCHANGED <<row, ids, born, gone>>

\* A GET gets what the cloud has now; the answer is on its way from here.
Fetched(r, keys) ==
  /\ req[r].pc = "idle"
  /\ req' = [req EXCEPT ![r] = [Idle EXCEPT !.pc = "enrich", !.kind = "read",
                                            !.reply = {cloud[k] : k \in keys}]]
  /\ UNCHANGED <<row, ids, cloud, born, gone>>

\* GET /people/
ListPeople(r) == Fetched(r, {k \in Keys : cloud[k] # Null})

\* GET /people/{person_key}/; any other status than 200 is passed on.
RetrievePerson(r) == \E k \in Keys : cloud[k] # Null /\ Fetched(r, {k})

-----------------------------------------------------------------------------
(***************************************************************************)
(* The answer                                                              *)
(***************************************************************************)
\* update_person_key: the row by external_id, if there still is one ...
FindRow(r) ==
  LET i == req[r].ext
  IN  /\ req[r].pc = "key"
      /\ IF row[i] = Null
         THEN req' = Goto(r, "enrich")
         ELSE req' = [Goto(r, "cache") EXCEPT ![r].hit = row[i].id]
      /\ UNCHANGED <<row, ids, cloud, born, gone>>

\* ... and its UPDATE by primary key, which raises when it matches no row.
CacheKey(r) ==
  LET i == req[r].ext
  IN  /\ req[r].pc = "cache"
      /\ IF row[i] # Null /\ row[i].id = req[r].hit
         THEN /\ row' = [row EXCEPT ![i].key = req[r].key]
              /\ req' = [Goto(r, "enrich") EXCEPT ![r].hit = Null]
         ELSE Close(r) /\ UNCHANGED row
      /\ UNCHANGED <<ids, cloud, born, gone>>

\* get_person, get_persons_batch: the query decides whether there is an active
\* row.  If the session has loaded that row before, its values stay as they were
\* then.
Got(r, i) ==
  IF row[i] = Null \/ ~row[i].active THEN Null
  ELSE IF req[r].loaded # Null /\ req[r].ext = i /\ req[r].loaded.id = row[i].id
       THEN req[r].loaded ELSE InSession(i)

\* The row's fields go over the cloud's pseudonym, of the columns that are
\* overlaid each one that is truthy; Null is what the cloud has in its place.
Overlaid(person, pii) ==
  IF pii = Null THEN [ext |-> person.ext, id |-> Null, data |-> NoData]
  ELSE [ext |-> person.ext, id |-> pii.id,
        data |-> [f \in Fields |-> IF f \in Overlays /\ pii.data[f] # Blank
                                  THEN pii.data[f] ELSE Null]]

\* Variant: the row that intercept_person returned, without a query.
EnrichedFromSession(r, person) ==
  Overlaid(person, IF req[r].ext = person.ext THEN req[r].loaded ELSE Null)

\* enrich_person, and enrich_paginated for a list.
Enriched(r, person) == Overlaid(person, Got(r, person.ext))

\* The answer is made.  (A CREATE entry in audit_log follows, which nothing in
\* this module reads.)
Enrich(r) ==
  /\ req[r].pc = "enrich"
  /\ req' = [req EXCEPT ![r] =
               [Idle EXCEPT !.pc = "answered", !.kind = req[r].kind, !.sent = req[r].sent,
                            !.disturbed = req[r].disturbed,
                            !.shown = {Enriched(r, person) : person \in req[r].reply}]]
  /\ UNCHANGED <<row, ids, cloud, born, gone>>

\* The answer leaves; or the cloud refuses, times out before or after it did its
\* part, a statement fails, the client disconnects.
End(r) ==
  /\ req[r].pc # "idle"
  /\ Close(r)
  /\ UNCHANGED <<row, ids, cloud, born, gone>>

-----------------------------------------------------------------------------
\* Variant: the fields are cleared and the row stays.
ForgetFields(i) ==
  /\ row[i] # Null
  /\ row' = [row EXCEPT ![i].data = NoData]
  /\ gone' = gone \cup {i}
  /\ req' = Disturb(i, Working)
  /\ UNCHANGED <<ids, cloud, born>>

\* In the admin interface a person is deactivated, or active again.
SetActive(i) ==
  /\ row[i] # Null
  /\ row' = [row EXCEPT ![i].active = ~@]
  /\ req' = Disturb(i, Working)
  /\ UNCHANGED <<ids, cloud, born, gone>>

\* DELETE /people/{external_id}/forget/: the commit of forget_person (Erasure
\* and Retention have its steps).
Forget(i) ==
  /\ row[i] # Null
  /\ row' = [row EXCEPT ![i] = Null]
  /\ gone' = gone \cup {i}
  /\ req' = Disturb(i, Working)
  /\ UNCHANGED <<ids, cloud, born>>

Next ==
  \/ \E r \in Requests : \/ Upsert(r) \/ Reload(r) \/ CloudCreate(r) \/ CloudUpdate(r)
                         \/ ListPeople(r) \/ RetrievePerson(r)
                         \/ FindRow(r) \/ CacheKey(r) \/ Enrich(r) \/ End(r)
  \/ \E i \in Ids : SetActive(i) \/ Forget(i)

Spec == Init /\ [][Next]_vars

-----------------------------------------------------------------------------
(***************************************************************************)
(* Properties                                                              *)
(***************************************************************************)
PeopleTypeOK ==
  /\ row \in [Ids -> Row \cup {Null}]
  /\ ids \in [Ids -> 0..MaxRows]
  /\ cloud \in [Keys -> Person \cup {Null}]
  /\ req \in [Requests -> Request]
  /\ born \in [Keys -> Ids \cup {Null}]
  /\ gone \subseteq Ids
  /\ \A i \in Ids : row[i] # Null => row[i].data[Name] # Null

\* The two stores' references agree, whatever fails or interleaves: the cloud
\* knows people only by the pseudonym of an id under which their data was stored
\* before (and has been kept, or erased), and a cached person_key is that of a
\* person created for this id (intercept_person, update_person_key).
CrossReferences ==
  /\ \A k \in Keys : cloud[k] # Null =>
       /\ cloud[k].alias = cloud[k].ext
       /\ cloud[k].ext \in gone \/ row[cloud[k].ext] # Null
  /\ \A i \in Ids : row[i] # Null => row[i].key = Null \/ born[row[i].key] = i

\* A create or an update reads back what it sent of the columns that are overlaid,
\* and nothing for one it emptied, whoever else writes the person while the cloud
\* answers: only a write between the upsert and the query after it shows, an
\* erasure and a deactivation (upsert_person, the enrichment of the answer).
EchoesSent ==
  \A r \in Requests :
    req[r].pc = "answered" /\ req[r].kind \in {"create", "update"} /\ ~req[r].disturbed
      => \A s \in req[r].shown, f \in Overlays :
           req[r].sent[f] # Null
             => s.data[f] = IF req[r].sent[f] = Blank THEN Null ELSE req[r].sent[f]

\* No column of a person goes back to NULL short of an erasure, in whatever order
\* whole and partial writes come (upsert_person).
FieldsKept ==
  [][\A i \in Ids :
       row[i] # Null /\ row'[i] # Null
         => \A f \in Fields : row[i].data[f] # Null => row'[i].data[f] # Null]_vars

\* An answer shows no data of a row that has been erased or deactivated when it
\* is made, also if the request had that row in its session (get_person,
\* get_persons_batch).
WithdrawnStaysHidden ==
  [][\A r \in Requests : \A s \in req'[r].shown \ req[r].shown :
       s.id # Null => row[s.ext] # Null /\ row[s.ext].id = s.id /\ row[s.ext].active]_vars

=============================================================================
