------------------------------ MODULE PeopleProofs ------------------------------
(***************************************************************************)
(* For any number of people, requests, keys, fields and values.  What      *)
(* makes the properties of People inductive is what a request holds at     *)
(* each of its labels: the id it has stored the data under, from the       *)
(* cloud's answer on a key of a person created for that id, and as long as *)
(* nobody got in between, a row with what it has sent.                     *)
(***************************************************************************)
EXTENDS People, TLAPS

Written == {"create", "update"}

Echoed(q, data) == \A f \in Fields : q.sent[f] # Null => data[f] = q.sent[f]

\* An answer shows of it what the enricher overlays and is not empty.
ShowsSent(q, data) ==
  \A f \in Overlays :
    q.sent[f] # Null => data[f] = IF q.sent[f] = Blank THEN Null ELSE q.sent[f]

\* A request q that writes knows for whom, and under that id the data was stored.
Stored(q) ==
  /\ q.pc \in {"reload", "forward", "key", "cache"} =>
       /\ q.kind \in Written
       /\ q.ext \in Ids
       /\ q.ext \in gone \/ row[q.ext] # Null
  /\ q.pc \in {"reload", "forward"} /\ q.kind = "update" => q.key \in Keys
  /\ q.pc \in {"key", "cache"} => q.key \in Keys /\ born[q.key] = q.ext

\* The answer to a write is the pseudonym of the person written.
Answer(q) ==
  q.pc \in {"key", "cache", "enrich"} /\ q.kind \in Written
    => q.ext \in Ids /\ q.reply = {[ext |-> q.ext, alias |-> q.ext]}

\* Without a disturbance what was sent is in the row, then in the session.
Undisturbed(q) ==
  ~q.disturbed /\ q.kind \in Written =>
    /\ q.pc = "reload" =>
         /\ row[q.ext].active
         /\ row[q.ext] # Null /\ Echoed(q, row[q.ext].data)
    /\ q.pc \in {"forward", "key", "cache", "enrich"} =>
         /\ q.ext \in Ids
         /\ q.loaded # Null /\ row[q.ext] # Null /\ row[q.ext].active
         /\ q.loaded.id = row[q.ext].id
         /\ Echoed(q, q.loaded.data)

\* What EchoesSent says of an answer.
Echoes(q) ==
  q.pc = "answered" /\ q.kind \in Written /\ ~q.disturbed
    => \A s \in q.shown : ShowsSent(q, s.data)

Held(q) == q \in Request /\ Stored(q) /\ Answer(q) /\ Undisturbed(q) /\ Echoes(q)

RowsInv == /\ row \in [Ids -> Row \cup {Null}]
           /\ ids \in [Ids -> 0..MaxRows]
           /\ \A i \in Ids : row[i] # Null => row[i].data[Name] # Null

CloudInv == /\ cloud \in [Keys -> Person \cup {Null}]
            /\ born \in [Keys -> Ids \cup {Null}]
            /\ \A k \in Keys : cloud[k] = Null => born[k] = Null

IInv ==
  /\ RowsInv
  /\ CloudInv
  /\ gone \subseteq Ids
  /\ CrossReferences
  /\ DOMAIN req = Requests /\ req = [r \in Requests |-> req[r]]
  /\ \A r \in Requests : Held(req[r])

LEMMA Types == IInv <=> PeopleTypeOK /\ CloudInv /\ CrossReferences /\ \A r \in Requests : Held(req[r])
  BY DEF IInv, PeopleTypeOK, RowsInv, CloudInv, Held

\* Null is none of the values.
LEMMA Nulls ==
  /\ \A i \in Ids : i # Null
  /\ \A k \in Keys : k # Null
  /\ \A n \in Nat : n # Null
  /\ \A x \in Row : x # Null
  /\ \A x \in Loaded : x # Null
  /\ \A x \in Person : x # Null
  BY PeopleAssumption, NullAssumption DEF Ids

-----------------------------------------------------------------------------
(***************************************************************************)
(* What a step leaves of the requests                                      *)
(***************************************************************************)
LEMMA HeldIdle == Held(Idle) /\ Held(Idle)'
  BY DEF Held, Stored, Answer, Undisturbed, Echoes, Idle, NoData, Request, Data, Written

\* A request is put back to idle.
LEMMA CloseKeeps ==
  ASSUME IInv, NEW r \in Requests, Close(r), UNCHANGED <<row, ids, cloud, born, gone>>
  PROVE  IInv'
<1>1. \A s \in Requests : req'[s] = IF s = r THEN Idle ELSE req[s]
  BY DEF Close, IInv
<1>2. \A s \in Requests : Held(req[s])'
  BY <1>1, HeldIdle DEF IInv, Held, Stored, Answer, Undisturbed, Echoes, Echoed, ShowsSent
<1> QED
  BY <1>1, <1>2 DEF Close, IInv, RowsInv, CloudInv, CrossReferences

\* Only one request moves, and nothing else.
LEMMA MoveKeeps ==
  ASSUME IInv, NEW r \in Requests, NEW q, Held(q),
         req' = [req EXCEPT ![r] = q], UNCHANGED <<row, ids, cloud, born, gone>>
  PROVE  IInv'
<1>1. \A s \in Requests : req'[s] = IF s = r THEN q ELSE req[s]
  BY DEF IInv
<1>2. \A s \in Requests : Held(req[s])'
  BY <1>1 DEF IInv, Held, Stored, Answer, Undisturbed, Echoes, Echoed, ShowsSent
<1> QED
  BY <1>1, <1>2 DEF IInv, RowsInv, CloudInv, CrossReferences

\* A request that a write disturbs.
Disturbed(q) == [q EXCEPT !.disturbed = TRUE]

LEMMA DisturbedFields ==
  ASSUME NEW q \in Request
  PROVE  /\ Disturbed(q) \in Request
         /\ Disturbed(q).disturbed
         /\ Disturbed(q).pc = q.pc
         /\ Disturbed(q).kind = q.kind
         /\ Disturbed(q).sent = q.sent
         /\ Disturbed(q).ext = q.ext
         /\ Disturbed(q).key = q.key
         /\ Disturbed(q).loaded = q.loaded
         /\ Disturbed(q).hit = q.hit
         /\ Disturbed(q).reply = q.reply
         /\ Disturbed(q).shown = q.shown
  BY DEF Disturbed, Request

-----------------------------------------------------------------------------
(***************************************************************************)
(* The steps of a request                                                  *)
(***************************************************************************)
LEMMA ReloadKeeps ==
  ASSUME IInv, NEW r \in Requests, Reload(r)
  PROVE  IInv'
<1> DEFINE i == req[r].ext
           q == [req[r] EXCEPT !.pc = "forward", !.loaded = InSession(i)]
<1>1. CASE row[i] = Null
  BY <1>1, CloseKeeps DEF Reload
<1>2. CASE row[i] # Null
  <2>1. req[r] \in Request /\ req[r].pc = "reload" /\ i \in Ids /\ req[r].kind \in Written
    BY DEF Reload, IInv, Held, Stored
  <2>2. /\ InSession(i) \in Loaded
        /\ InSession(i).id = row[i].id
        /\ InSession(i).data = row[i].data
    BY <1>2, <2>1 DEF IInv, RowsInv, InSession, Row, Loaded
  <2>3. q \in Request
    BY <2>1, <2>2 DEF Request, Working
  <2>4. /\ q.pc = "forward" /\ q.kind = req[r].kind /\ q.sent = req[r].sent
        /\ q.ext = i /\ q.key = req[r].key
        /\ q.loaded = InSession(i) /\ q.disturbed = req[r].disturbed
    BY <2>1 DEF Request
  <2>5. Held(q)
    BY <1>2, <2>1, <2>2, <2>3, <2>4, Nulls DEF IInv, Held, Stored, Answer, Undisturbed, Echoes, Echoed, ShowsSent
  <2>6. req' = [req EXCEPT ![r] = q]
    BY <1>2, <2>1 DEF Reload, Goto, IInv, Request
  <2> QED
    BY <2>5, <2>6, MoveKeeps DEF Reload
<1> QED
  BY <1>1, <1>2

LEMMA FetchedKeeps ==
  ASSUME IInv, NEW r \in Requests, NEW keys \in SUBSET {k \in Keys : cloud[k] # Null},
         Fetched(r, keys)
  PROVE  IInv'
<1> DEFINE q == [Idle EXCEPT !.pc = "enrich", !.kind = "read", !.reply = {cloud[k] : k \in keys}]
<1>1. q.kind = "read" /\ q.pc = "enrich"
  BY DEF Idle
<1>2. q \in Request
  BY DEF Idle, NoData, Data, Request, Working, IInv, CloudInv
<1>3. Held(q)
  BY <1>1, <1>2 DEF Held, Stored, Answer, Undisturbed, Echoes, Written
<1> QED
  BY <1>3, MoveKeeps DEF Fetched

LEMMA FindRowKeeps ==
  ASSUME IInv, NEW r \in Requests, FindRow(r)
  PROVE  IInv'
<1> DEFINE i == req[r].ext
<1>1. req[r] \in Request /\ req[r].pc = "key" /\ i \in Ids
  BY DEF FindRow, IInv, Held, Stored
<1>2. CASE row[i] = Null
  <2> DEFINE q == [req[r] EXCEPT !.pc = "enrich"]
  <2>1. /\ q \in Request /\ q.pc = "enrich"
        /\ q.kind = req[r].kind /\ q.sent = req[r].sent /\ q.ext = i
        /\ q.loaded = req[r].loaded /\ q.reply = req[r].reply /\ q.disturbed = req[r].disturbed
    BY <1>1 DEF Request, Working
  <2>2. Held(q)
    BY <1>1, <2>1 DEF IInv, Held, Stored, Answer, Undisturbed, Echoes, Echoed, ShowsSent
  <2>3. req' = [req EXCEPT ![r] = q]
    BY <1>2 DEF FindRow, Goto
  <2> QED
    BY <2>2, <2>3, MoveKeeps DEF FindRow
<1>3. CASE row[i] # Null
  <2> DEFINE q == [req[r] EXCEPT !.pc = "cache", !.hit = row[i].id]
  <2>1. row[i].id \in 1..MaxRows
    BY <1>1, <1>3 DEF IInv, RowsInv, Row
  <2>2. /\ q \in Request /\ q.pc = "cache"
        /\ q.kind = req[r].kind /\ q.sent = req[r].sent /\ q.ext = i /\ q.key = req[r].key
        /\ q.loaded = req[r].loaded /\ q.reply = req[r].reply /\ q.disturbed = req[r].disturbed
    BY <1>1, <2>1 DEF Request, Working
  <2>3. Held(q)
    BY <1>1, <2>2 DEF IInv, Held, Stored, Answer, Undisturbed, Echoes, Echoed, ShowsSent
  <2>4. req' = [req EXCEPT ![r] = q]
    BY <1>1, <1>3 DEF FindRow, Goto, IInv, Request
  <2> QED
    BY <2>3, <2>4, MoveKeeps DEF FindRow
<1> QED
  BY <1>2, <1>3

\* What a row gives to an answer.
LEMMA GotRow ==
  ASSUME IInv, NEW r \in Requests, NEW i \in Ids, Got(r, i) # Null
  PROVE  /\ row[i] # Null /\ row[i].active
         /\ Got(r, i) \in Loaded
         /\ Got(r, i).id = row[i].id
<1>1. row[i] # Null /\ row[i].active
  BY DEF Got
<1>2. InSession(i) \in Loaded /\ InSession(i).id = row[i].id
  BY <1>1 DEF IInv, RowsInv, InSession, Row, Loaded
<1>3. req[r].loaded # Null => req[r].loaded \in Loaded
  BY DEF IInv, Held, Request
<1> QED
  BY <1>1, <1>2, <1>3 DEF Got

LEMMA EnrichedShown ==
  ASSUME IInv, NEW r \in Requests, NEW person \in Person
  PROVE  /\ Enriched(r, person) \in Shown
         /\ Enriched(r, person).ext = person.ext
         /\ Enriched(r, person).id # Null =>
              /\ row[person.ext] # Null /\ row[person.ext].active
              /\ row[person.ext].id = Enriched(r, person).id
<1>1. person.ext \in Ids
  BY DEF Person
<1>2. CASE Got(r, person.ext) = Null
  BY <1>1, <1>2 DEF Enriched, Overlaid, Shown, NoData, Data
<1>3. CASE Got(r, person.ext) # Null
  <2> DEFINE pii == Got(r, person.ext)
  <2>1. pii \in Loaded /\ row[person.ext] # Null /\ row[person.ext].active
        /\ pii.id = row[person.ext].id
    BY <1>1, <1>3, GotRow
  <2>2. [f \in Fields |-> IF f \in Overlays /\ pii.data[f] # Blank
                         THEN pii.data[f] ELSE Null] \in Data
    BY <2>1 DEF Loaded, Data
  <2> HIDE DEF pii
  <2>3. Overlaid(person, pii) \in Shown /\ Overlaid(person, pii).ext = person.ext
        /\ Overlaid(person, pii).id = pii.id
    <3>1. pii # Null
      BY <1>3 DEF pii
    <3> QED
      BY <1>1, <2>1, <2>2, <3>1 DEF Overlaid, Shown, Loaded
  <2> QED
    BY <2>1, <2>3 DEF Enriched, pii
<1> QED
  BY <1>2, <1>3

LEMMA EnrichKeeps ==
  ASSUME IInv, NEW r \in Requests, Enrich(r)
  PROVE  IInv'
<1> DEFINE shown == {Enriched(r, person) : person \in req[r].reply}
           q == [Idle EXCEPT !.pc = "answered", !.kind = req[r].kind, !.sent = req[r].sent,
                             !.disturbed = req[r].disturbed, !.shown = shown]
<1>1. req[r] \in Request /\ req[r].pc = "enrich"
  BY DEF Enrich, IInv, Held
<1>2. shown \subseteq Shown
  BY <1>1, EnrichedShown DEF Request
<1>3. /\ q \in Request /\ q.pc = "answered" /\ q.kind = req[r].kind /\ q.sent = req[r].sent
      /\ q.disturbed = req[r].disturbed /\ q.shown = shown
  BY <1>1, <1>2 DEF Idle, NoData, Data, Request
<1>4. ASSUME q.kind \in Written, ~q.disturbed
      PROVE  \A s \in q.shown : ShowsSent(q, s.data)
  <2> DEFINE i == req[r].ext
             person == [ext |-> i, alias |-> i]
  <2>1. i \in Ids /\ req[r].reply = {person} /\ person.ext = i
    BY <1>1, <1>3, <1>4 DEF IInv, Held, Answer
  <2>2. /\ req[r].loaded # Null /\ row[i] # Null /\ row[i].active
        /\ req[r].loaded.id = row[i].id
        /\ Echoed(req[r], req[r].loaded.data)
    BY <1>1, <1>3, <1>4 DEF IInv, Held, Undisturbed
  <2>3. Got(r, i) = req[r].loaded
    BY <2>2 DEF Got
  <2>4. Enriched(r, person).data =
          [f \in Fields |-> IF f \in Overlays /\ req[r].loaded.data[f] # Blank
                           THEN req[r].loaded.data[f] ELSE Null]
    BY <2>1, <2>2, <2>3 DEF Enriched, Overlaid
  <2>5. ShowsSent(req[r], Enriched(r, person).data)
    BY <2>2, <2>4, PeopleAssumption DEF Echoed, ShowsSent
  <2> QED
    BY <1>3, <2>1, <2>5 DEF ShowsSent
<1>5. Held(q)
  BY <1>3, <1>4 DEF Held, Stored, Answer, Undisturbed, Echoes
<1> QED
  BY <1>5, MoveKeeps DEF Enrich

\* The rows after an upsert.
LEMMA UpsertedRow ==
  ASSUME IInv, NEW i \in Ids, NEW sent \in Data, sent[Name] # Null,
         row[i] = Null => ids[i] < MaxRows
  PROVE  /\ Upserted(i, sent) \in Row
         /\ Upserted(i, sent).data[Name] # Null
         /\ \A f \in Fields : sent[f] # Null => Upserted(i, sent).data[f] = sent[f]
         /\ row[i] = Null => Upserted(i, sent).key = Null /\ Upserted(i, sent).active
         /\ row[i] # Null =>
              /\ Upserted(i, sent).id = row[i].id
              /\ Upserted(i, sent).key = row[i].key
              /\ Upserted(i, sent).active = row[i].active
              /\ \A f \in Fields : row[i].data[f] # Null => Upserted(i, sent).data[f] # Null
<1>1. \A old \in Data : /\ Merged(old, sent) \in Data
                        /\ \A f \in Fields : /\ sent[f] # Null => Merged(old, sent)[f] = sent[f]
                                             /\ old[f] # Null => Merged(old, sent)[f] # Null
  BY DEF Merged, Data
<1>2. NoData \in Data
  BY DEF NoData, Data
<1>3. CASE row[i] = Null
  <2>1. Upserted(i, sent)
          = [id |-> ids[i] + 1, data |-> Merged(NoData, sent), key |-> Null, active |-> TRUE]
    BY <1>3 DEF Upserted
  <2>2. ids[i] + 1 \in 1..MaxRows
    BY <1>3, PeopleAssumption DEF IInv, RowsInv
  <2> QED
    BY <1>1, <1>2, <1>3, <2>1, <2>2, PeopleAssumption DEF Row
<1>4. CASE row[i] # Null
  <2>1. row[i] \in Row /\ row[i].data \in Data
    BY <1>4 DEF IInv, RowsInv, Row
  <2>2. Upserted(i, sent) = [row[i] EXCEPT !.data = Merged(row[i].data, sent)]
    BY <1>4 DEF Upserted
  <2> QED
    BY <1>1, <1>4, <2>1, <2>2, PeopleAssumption DEF Row
<1> QED
  BY <1>3, <1>4

\* The references of a row that is written.
LEMMA RowKeepsRefs ==
  ASSUME IInv, NEW i \in Ids, NEW new \in Row, new.data[Name] # Null,
         new.key = Null \/ born[new.key] = i,
         row' = [row EXCEPT ![i] = new], UNCHANGED <<cloud, born>>, gone \subseteq gone',
         ids' \in [Ids -> 0..MaxRows]
  PROVE  RowsInv' /\ CloudInv' /\ CrossReferences'
<1>1. \A j \in Ids : row'[j] = IF j = i THEN new ELSE row[j]
  BY DEF IInv, RowsInv
<1>2. RowsInv' /\ CloudInv'
  BY <1>1 DEF IInv, RowsInv, CloudInv
<1>3. ASSUME NEW k \in Keys, cloud[k] # Null
      PROVE  cloud[k].alias = cloud[k].ext /\ (cloud[k].ext \in gone' \/ row'[cloud[k].ext] # Null)
  BY <1>1, <1>3, Nulls DEF IInv, CrossReferences, CloudInv, Person
<1>4. ASSUME NEW j \in Ids, row'[j] # Null
      PROVE  row'[j].key = Null \/ born'[row'[j].key] = j
  BY <1>1, <1>4 DEF IInv, CrossReferences
<1> QED
  BY <1>2, <1>3, <1>4 DEF CrossReferences

LEMMA UpsertKeeps ==
  ASSUME IInv, NEW r \in Requests, Upsert(r)
  PROVE  IInv'
<1>1. PICK kind \in Written, sent \in Bodies, i \in ExtIds \cup Invented, k \in Keys :
        /\ sent[Name] # Null
        /\ row[i] = Null => ids[i] < MaxRows
        /\ row' = [row EXCEPT ![i] = Upserted(i, sent)]
        /\ ids' = [ids EXCEPT ![i] = Upserted(i, sent).id]
        /\ req' = [Disturb(i, {"reload"}) EXCEPT ![r] =
                     [Idle EXCEPT !.pc = "reload", !.kind = kind, !.sent = sent, !.ext = i,
                                  !.key = IF kind = "update" THEN k ELSE Null,
                                  !.disturbed = ~Upserted(i, sent).active]]
  BY Zenon DEF Upsert, Written
<1>in. sent \in Data /\ i \in Ids
  BY PeopleAssumption DEF Ids, Invented
<1> DEFINE new == Upserted(i, sent)
           q == [Idle EXCEPT !.pc = "reload", !.kind = kind, !.sent = sent, !.ext = i,
                             !.key = IF kind = "update" THEN k ELSE Null,
                             !.disturbed = ~new.active]
<1>2. UNCHANGED <<cloud, born, gone>>
  BY DEF Upsert
<1>3. /\ new \in Row /\ new.data[Name] # Null
      /\ \A f \in Fields : sent[f] # Null => new.data[f] = sent[f]
      /\ row[i] = Null => new.key = Null
      /\ row[i] # Null => new.id = row[i].id /\ new.key = row[i].key /\ new.active = row[i].active
  BY <1>in, <1>1, UpsertedRow
<1> HIDE DEF new
<1>4. new.key = Null \/ born[new.key] = i
  BY <1>in, <1>3 DEF IInv, CrossReferences
<1>5. new.id \in 1..MaxRows /\ new.active \in BOOLEAN
  BY <1>3 DEF Row
<1>6. row' = [row EXCEPT ![i] = new] /\ ids' = [ids EXCEPT ![i] = new.id]
  BY <1>1 DEF new
<1>7. ids' \in [Ids -> 0..MaxRows]
  BY <1>in, <1>5, <1>6, PeopleAssumption DEF IInv, RowsInv
<1>8. RowsInv' /\ CloudInv' /\ CrossReferences'
  BY <1>in, <1>2, <1>3, <1>4, <1>6, <1>7, RowKeepsRefs
<1>9. /\ q \in Request /\ q.pc = "reload" /\ q.kind = kind /\ q.sent = sent /\ q.ext = i
      /\ kind = "update" => q.key \in Keys
      /\ q.disturbed = ~new.active
  BY <1>in, <1>5 DEF Idle, NoData, Data, Request, Working, Written
<1>10. \A j \in Ids : row'[j] = IF j = i THEN new ELSE row[j]
  BY <1>6 DEF IInv, RowsInv
<1>11. \A s \in Requests :
         req'[s] = IF s = r THEN q
                   ELSE IF req[s].ext = i /\ req[s].pc = "reload" THEN Disturbed(req[s]) ELSE req[s]
  BY <1>1 DEF Disturb, Disturbed, new
<1>12. DOMAIN req' = Requests /\ req' = [s \in Requests |-> req'[s]]
  BY <1>1 DEF Disturb
<1> HIDE DEF q
<1>13. ASSUME NEW s \in Requests
       PROVE  Held(req[s])'
  <2>1. CASE s = r
    <3>1. req'[s] = q
      BY <1>11, <2>1
    <3>2. row'[i] = new /\ row'[i] # Null
      BY <1>in, <1>3, <1>10, Nulls
    <3>3. Stored(req[s])'
      BY <1>in, <1>9, <3>1, <3>2 DEF Stored, Written
    <3>4. Undisturbed(req[s])'
      BY <1>3, <1>9, <3>1, <3>2 DEF Undisturbed, Echoed
    <3> QED
      BY <1>9, <3>1, <3>3, <3>4 DEF Held, Answer, Echoes
  <2>2. CASE s # r /\ req[s].ext = i /\ req[s].pc = "reload"
    <3>1. req'[s] = Disturbed(req[s]) /\ Held(req[s])
      BY <1>11, <2>2 DEF IInv
    <3>2. row'[i] # Null
      BY <1>in, <1>3, <1>10, Nulls
    <3> QED
      BY <1>in, <1>2, <2>2, <3>1, <3>2, DisturbedFields DEF Held, Stored, Answer, Undisturbed, Echoes
  <2>3. CASE s # r /\ ~(req[s].ext = i /\ req[s].pc = "reload")
    <3>1. req'[s] = req[s] /\ Held(req[s])
      BY <1>11, <2>3 DEF IInv
    <3>2. \A j \in Ids : row[j] # Null => row'[j] # Null
      BY <1>in, <1>3, <1>10, Nulls
    <3>3. Stored(req[s])'
      BY <1>2, <3>1, <3>2 DEF Held, Stored
    <3>4. Undisturbed(req[s])'
      <4>1. req[s].pc = "reload" /\ req[s].kind \in Written => req[s].ext \in Ids /\ req[s].ext # i
        BY <2>3, <3>1 DEF Held, Stored
      <4> QED
        BY <1>3, <1>10, <3>1, <3>2, <4>1 DEF Held, Undisturbed, Echoed
    <3> QED
      BY <3>1, <3>3, <3>4 DEF Held, Answer, Echoes, Echoed, ShowsSent
  <2> QED
    BY <2>1, <2>2, <2>3
<1> QED
  BY <1>2, <1>8, <1>12, <1>13 DEF IInv

\* The cloud stores the pseudonym of a request's person under a key.
LEMMA ReachedKeeps ==
  ASSUME IInv, NEW r \in Requests, NEW k \in Keys,
         req[r].pc = "forward", UNCHANGED <<row, ids, gone>>,
         \/ cloud[k] = Null /\ Reached(r, k, "key") /\ born' = [born EXCEPT ![k] = req[r].ext]
         \/ Reached(r, k, "enrich") /\ cloud[k] # Null /\ UNCHANGED born
  PROVE  IInv'
<1> DEFINE i == req[r].ext
           person == [ext |-> i, alias |-> i]
<1>1. req[r] \in Request /\ i \in Ids /\ req[r].kind \in Written /\ (i \in gone \/ row[i] # Null)
  BY DEF IInv, Held, Stored
<1>2. Cleaned(r) = person /\ person \in Person
  BY <1>1 DEF Cleaned, Person
<1>3. PICK next \in {"key", "enrich"} :
        /\ Reached(r, k, next)
        /\ next = "key" => cloud[k] = Null /\ born' = [born EXCEPT ![k] = i]
        /\ next = "enrich" => cloud[k] # Null /\ UNCHANGED born
  OBVIOUS
<1> DEFINE q == [req[r] EXCEPT !.pc = next, !.key = k, !.reply = {person}]
<1>4. req' = [req EXCEPT ![r] = q] /\ cloud' = [cloud EXCEPT ![k] = person]
  <2>1. /\ req' = [[req EXCEPT ![r].pc = next] EXCEPT ![r].key = k, ![r].reply = {person}]
        /\ cloud' = [cloud EXCEPT ![k] = person]
    BY <1>2, <1>3 DEF Reached, Goto
  <2> QED
    BY <1>1, <2>1 DEF IInv, Request
<1>5. /\ q \in Request /\ q.pc = next /\ q.kind = req[r].kind /\ q.sent = req[r].sent
      /\ q.ext = i /\ q.key = k /\ q.reply = {person}
      /\ q.loaded = req[r].loaded /\ q.disturbed = req[r].disturbed
  BY <1>1, <1>2 DEF Request, Working
<1>6. \A s \in Requests : req'[s] = IF s = r THEN q ELSE req[s]
  BY <1>4 DEF IInv
<1> HIDE DEF q
<1>7. /\ cloud' \in [Keys -> Person \cup {Null}]
      /\ \A x \in Keys : cloud'[x] = IF x = k THEN person ELSE cloud[x]
      /\ person # Null
  BY <1>2, <1>4, Nulls DEF IInv, CloudInv
<1>8. /\ born' \in [Keys -> Ids \cup {Null}]
      /\ \A x \in Keys : born[x] # Null => born'[x] = born[x]
      /\ next = "key" => born'[k] = i
      /\ \A x \in Keys : x # k => born'[x] = born[x]
  BY <1>1, <1>3 DEF IInv, CloudInv
<1>9. CloudInv'
  BY <1>7, <1>8 DEF IInv, CloudInv
<1>10. CrossReferences'
  <2>1. \A x \in Keys : cloud'[x] # Null =>
          cloud'[x].alias = cloud'[x].ext /\ (cloud'[x].ext \in gone \/ row[cloud'[x].ext] # Null)
    BY <1>1, <1>7 DEF IInv, CrossReferences
  <2>2. \A j \in Ids : row[j] # Null => row[j].key = Null \/ born'[row[j].key] = j
    <3>1. \A j \in Ids : row[j] # Null => row[j].key \in Keys \cup {Null}
      BY DEF IInv, RowsInv, Row
    <3> QED
      BY <1>8, <3>1, Nulls DEF IInv, CrossReferences
  <2> QED
    BY <2>1, <2>2 DEF CrossReferences
<1>11. ASSUME NEW s \in Requests
       PROVE  Held(req[s])'
  <2>1. CASE s = r
    BY <1>1, <1>5, <1>6, <1>8, <2>1 DEF IInv, Held, Stored, Answer, Undisturbed, Echoes, Echoed, ShowsSent
  <2>2. CASE s # r
    <3>1. req'[s] = req[s] /\ Held(req[s])
      BY <1>6, <2>2 DEF IInv
    <3>2. Stored(req[s])'
      BY <1>8, <3>1, Nulls DEF Held, Stored
    <3> QED
      BY <3>1, <3>2 DEF Held, Answer, Undisturbed, Echoes, Echoed, ShowsSent
  <2> QED
    BY <2>1, <2>2
<1> QED
  BY <1>4, <1>9, <1>10, <1>11 DEF IInv, RowsInv

LEMMA CloudKeeps ==
  ASSUME IInv, NEW r \in Requests, CloudCreate(r) \/ CloudUpdate(r)
  PROVE  IInv'
<1>1. CASE CloudCreate(r)
  BY <1>1, ReachedKeeps DEF CloudCreate
<1>2. CASE CloudUpdate(r)
  <2>1. req[r].kind = "update" /\ req[r].pc = "forward" /\ req[r] \in Request
    BY <1>2 DEF CloudUpdate, IInv, Held
  <2>2. req[r].key \in Keys
    BY <2>1 DEF IInv, Held, Stored
  <2> QED
    BY <1>2, <2>1, <2>2, ReachedKeeps DEF CloudUpdate
<1> QED
  BY <1>1, <1>2

LEMMA CacheKeyKeeps ==
  ASSUME IInv, NEW r \in Requests, CacheKey(r)
  PROVE  IInv'
<1> DEFINE i == req[r].ext
           new == [row[i] EXCEPT !.key = req[r].key]
           q == [req[r] EXCEPT !.pc = "enrich", !.hit = Null]
<1>1. /\ req[r] \in Request /\ req[r].pc = "cache" /\ i \in Ids
      /\ req[r].key \in Keys /\ born[req[r].key] = i
  BY DEF CacheKey, IInv, Held, Stored
<1>2. CASE ~(row[i] # Null /\ row[i].id = req[r].hit)
  BY <1>2, CloseKeeps DEF CacheKey
<1>3. CASE row[i] # Null /\ row[i].id = req[r].hit
  <2>1. row[i] \in Row
    BY <1>1, <1>3 DEF IInv, RowsInv
  <2>2. /\ new \in Row /\ new.id = row[i].id /\ new.data = row[i].data
        /\ new.active = row[i].active /\ new.key = req[r].key
    BY <1>1, <2>1 DEF Row
  <2>3. /\ q \in Request /\ q.pc = "enrich" /\ q.kind = req[r].kind /\ q.sent = req[r].sent
        /\ q.ext = i /\ q.loaded = req[r].loaded /\ q.reply = req[r].reply
        /\ q.disturbed = req[r].disturbed
    BY <1>1 DEF Request, Working
  <2>4. row' = [row EXCEPT ![i] = new] /\ req' = [req EXCEPT ![r] = q]
    BY <1>1, <1>3 DEF CacheKey, Goto, IInv, Request
  <2> HIDE DEF new, q
  <2>5. UNCHANGED <<ids, cloud, born, gone>>
    BY DEF CacheKey
  <2>6. RowsInv' /\ CloudInv' /\ CrossReferences'
    <3>1. new.data[Name] # Null /\ ids' \in [Ids -> 0..MaxRows]
      BY <1>1, <1>3, <2>2, <2>5 DEF IInv, RowsInv
    <3> QED
      BY <1>1, <2>2, <2>4, <2>5, <3>1, RowKeepsRefs
  <2>7. /\ \A j \in Ids : row'[j] = IF j = i THEN new ELSE row[j]
        /\ \A s \in Requests : req'[s] = IF s = r THEN q ELSE req[s]
    BY <2>4 DEF IInv, RowsInv
  <2>8. ASSUME NEW x, Held(x)
        PROVE  Stored(x)' /\ Undisturbed(x)'
    BY <1>3, <2>2, <2>5, <2>7, <2>8, Nulls DEF Held, Stored, Undisturbed, Echoed
  <2>9. ASSUME NEW s \in Requests
        PROVE  Held(req[s])'
    <3>1. CASE s = r
      <4>1. Held(req[r]) /\ req'[s] = q
        BY <2>7, <3>1 DEF IInv
      <4>2. Stored(req[s])' /\ Undisturbed(req[s])'
        BY <1>1, <2>2, <2>3, <2>5, <2>7, <1>3, <4>1, Nulls DEF Held, Stored, Undisturbed, Echoed
      <4> QED
        BY <1>1, <2>3, <4>1, <4>2 DEF Held, Answer, Echoes
    <3>2. CASE s # r
      <4>1. Held(req[s]) /\ req'[s] = req[s]
        BY <2>7, <3>2 DEF IInv
      <4> QED
        BY <2>8, <4>1 DEF Held, Answer, Echoes, ShowsSent
    <3> QED
      BY <3>1, <3>2
  <2> QED
    BY <2>4, <2>5, <2>6, <2>9 DEF IInv
<1> QED
  BY <1>2, <1>3

-----------------------------------------------------------------------------
(***************************************************************************)
(* Erasures and deactivations                                              *)
(***************************************************************************)
\* Rows may go, change or be deactivated under requests that are all disturbed.
LEMMA DisturbKeeps ==
  ASSUME IInv, NEW i \in Ids, req' = Disturb(i, Working), UNCHANGED <<cloud, born>>,
         gone \subseteq gone',
         \A j \in Ids : j # i => row'[j] = row[j],
         row[i] # Null => row'[i] # Null \/ i \in gone'
  PROVE  /\ DOMAIN req' = Requests /\ req' = [s \in Requests |-> req'[s]]
         /\ \A s \in Requests : Held(req[s])'
<1>1. \A s \in Requests :
        req'[s] = IF req[s].ext = i /\ req[s].pc \in Working THEN Disturbed(req[s]) ELSE req[s]
  BY DEF Disturb, Disturbed
<1>2. ASSUME NEW s \in Requests, req[s].ext = i, req[s].pc \in Working
      PROVE  Held(req[s])'
  <2>1. req'[s] = Disturbed(req[s]) /\ Held(req[s])
    BY <1>1, <1>2 DEF IInv
  <2>2. Stored(req[s])'
    BY <1>2, <2>1, DisturbedFields DEF Held, Stored
  <2> QED
    BY <2>1, <2>2, DisturbedFields DEF Held, Answer, Undisturbed, Echoes
<1>3. ASSUME NEW s \in Requests, ~(req[s].ext = i /\ req[s].pc \in Working)
      PROVE  Held(req[s])'
  <2>1. req'[s] = req[s] /\ Held(req[s])
    BY <1>1, <1>3 DEF IInv
  <2>2. Stored(req[s])'
    BY <1>3, <2>1 DEF Held, Stored, Working
  <2>3. Undisturbed(req[s])'
    <3>1. req[s].pc \in Working /\ req[s].kind \in Written /\ ~req[s].disturbed => req[s].ext \in Ids
      BY <2>1 DEF Held, Stored, Undisturbed, Working
    <3> QED
      BY <1>3, <2>1, <3>1 DEF Held, Undisturbed, Working, Echoed
  <2> QED
    BY <2>1, <2>2, <2>3 DEF Held, Answer, Echoes, Echoed, ShowsSent
<1> QED
  BY <1>2, <1>3 DEF Disturb

LEMMA SetActiveKeeps ==
  ASSUME IInv, NEW i \in Ids, SetActive(i)
  PROVE  IInv'
<1> DEFINE new == [row[i] EXCEPT !.active = ~@]
<1>1. row[i] # Null /\ row[i] \in Row
  BY DEF SetActive, IInv, RowsInv
<1>2. new \in Row /\ new.data = row[i].data /\ new.key = row[i].key
  BY <1>1 DEF Row
<1>3. row' = [row EXCEPT ![i] = new] /\ UNCHANGED <<ids, cloud, born, gone>>
  BY DEF SetActive
<1> HIDE DEF new
<1>4. RowsInv' /\ CloudInv' /\ CrossReferences'
  <2>1. new.data[Name] # Null /\ (new.key = Null \/ born[new.key] = i) /\ ids' \in [Ids -> 0..MaxRows]
    BY <1>1, <1>2, <1>3 DEF IInv, RowsInv, CrossReferences
  <2> QED
    BY <1>2, <1>3, <2>1, RowKeepsRefs
<1>5. (\A j \in Ids : j # i => row'[j] = row[j]) /\ row'[i] # Null
  BY <1>2, <1>3, Nulls DEF IInv, RowsInv
<1>6. DOMAIN req' = Requests /\ req' = [s \in Requests |-> req'[s]] /\ \A s \in Requests : Held(req[s])'
  BY <1>3, <1>5, DisturbKeeps DEF SetActive
<1> QED
  BY <1>3, <1>4, <1>6 DEF IInv

LEMMA ForgetKeeps ==
  ASSUME IInv, NEW i \in Ids, Forget(i)
  PROVE  IInv'
<1>1. row' = [row EXCEPT ![i] = Null] /\ gone' = gone \cup {i} /\ UNCHANGED <<ids, cloud, born>>
  BY DEF Forget
<1>2. \A j \in Ids : row'[j] = IF j = i THEN Null ELSE row[j]
  BY <1>1 DEF IInv, RowsInv
<1>3. RowsInv' /\ CloudInv' /\ gone' \subseteq Ids
  BY <1>1, <1>2 DEF IInv, RowsInv, CloudInv
<1>4. CrossReferences'
  BY <1>1, <1>2, Nulls DEF IInv, CrossReferences, CloudInv, Person
<1>5. DOMAIN req' = Requests /\ req' = [s \in Requests |-> req'[s]] /\ \A s \in Requests : Held(req[s])'
  BY <1>1, <1>2, DisturbKeeps DEF Forget
<1> QED
  BY <1>3, <1>4, <1>5 DEF IInv

-----------------------------------------------------------------------------
LEMMA InitInv == Init => IInv
<1> SUFFICES ASSUME Init PROVE IInv
  OBVIOUS
<1>1. RowsInv /\ CloudInv /\ CrossReferences
  BY PeopleAssumption DEF Init, RowsInv, CloudInv, CrossReferences
<1> QED
  BY <1>1, HeldIdle DEF Init, IInv

LEMMA NextInv == IInv /\ [Next]_vars => IInv'
<1> SUFFICES ASSUME IInv, [Next]_vars
             PROVE  IInv'
  OBVIOUS
<1>1. ASSUME NEW r \in Requests, Upsert(r) \/ Reload(r)
      PROVE  IInv'
  BY <1>1, UpsertKeeps, ReloadKeeps
<1>2. ASSUME NEW r \in Requests, CloudCreate(r) \/ CloudUpdate(r)
      PROVE  IInv'
  BY <1>2, CloudKeeps
<1>3. ASSUME NEW r \in Requests, ListPeople(r) \/ RetrievePerson(r)
      PROVE  IInv'
  BY <1>3, FetchedKeeps DEF ListPeople, RetrievePerson
<1>4. ASSUME NEW r \in Requests, FindRow(r) \/ CacheKey(r) \/ Enrich(r)
      PROVE  IInv'
  BY <1>4, FindRowKeeps, CacheKeyKeeps, EnrichKeeps
<1>5. ASSUME NEW r \in Requests, End(r)
      PROVE  IInv'
  BY <1>5, CloseKeeps DEF End
<1>6. ASSUME NEW i \in Ids, SetActive(i) \/ Forget(i)
      PROVE  IInv'
  BY <1>6, SetActiveKeeps, ForgetKeeps
<1>7. CASE UNCHANGED vars
  BY <1>7 DEF vars, IInv, RowsInv, CloudInv, CrossReferences, Held, Stored, Answer, Undisturbed,
     Echoes, Echoed, ShowsSent
<1> QED
  BY <1>1, <1>2, <1>3, <1>4, <1>5, <1>6, <1>7 DEF Next

\* Every variable keeps its type, and no row is without a name.
THEOREM TypeCorrect == Spec => []PeopleTypeOK
<1>1. IInv => PeopleTypeOK
  BY Types
<1> QED
  BY <1>1, InitInv, NextInv, PTL DEF Spec

\* Whatever fails or interleaves, the cloud has only pseudonyms of ids that were
\* stored before, and a cached person_key is one of a person created for its id
\* (intercept_person, update_person_key).
THEOREM ReferencesAgree == Spec => []CrossReferences
<1>1. IInv => CrossReferences
  BY DEF IInv
<1> QED
  BY <1>1, InitInv, NextInv, PTL DEF Spec

\* A write that nobody disturbs reads back what it sent of the overlaid columns,
\* and nothing for one it emptied, however many others write the person meanwhile
\* (upsert_person, the enrichment of the answer).
THEOREM WritesReadBack == Spec => []EchoesSent
<1>1. IInv => EchoesSent
  BY DEF IInv, Held, Echoes, Echoed, ShowsSent, EchoesSent, Written
<1> QED
  BY <1>1, InitInv, NextInv, PTL DEF Spec

\* What a step does to the fields of a row that stays.
LEMMA StepKeepsFields ==
  ASSUME IInv, [Next]_vars, NEW i \in Ids, row[i] # Null, row'[i] # Null,
         NEW f \in Fields, row[i].data[f] # Null
  PROVE  row'[i].data[f] # Null
<1>1. row[i] \in Row /\ DOMAIN row = Ids
  BY DEF IInv, RowsInv
<1>2. ASSUME NEW r \in Requests, Upsert(r)
      PROVE  row'[i].data[f] # Null
  <2>1. PICK sent \in Data, j \in Ids :
          /\ sent[Name] # Null
          /\ row[j] = Null => ids[j] < MaxRows
          /\ row' = [row EXCEPT ![j] = Upserted(j, sent)]
    BY <1>2, PeopleAssumption DEF Upsert, Ids, Invented
  <2> QED
    BY <1>1, <2>1, UpsertedRow
<1>3. ASSUME NEW r \in Requests, CacheKey(r)
      PROVE  row'[i].data[f] # Null
  BY <1>1, <1>3 DEF CacheKey, Row
<1>4. ASSUME NEW j \in Ids, SetActive(j) \/ Forget(j)
      PROVE  row'[i].data[f] # Null
  BY <1>1, <1>4 DEF SetActive, Forget, Row
<1>5. ASSUME row' = row
      PROVE  row'[i].data[f] # Null
  BY <1>5
<1> QED
  BY <1>2, <1>3, <1>4, <1>5 DEF Next, vars, Reload, CloudCreate, CloudUpdate, ListPeople,
     RetrievePerson, Fetched, FindRow, Enrich, End

\* No field of a person is lost short of an erasure, whatever the bodies that
\* come and their order (upsert_person).
THEOREM NoFieldLost == Spec => FieldsKept
<1>1. IInv /\ [Next]_vars =>
        [\A i \in Ids :
           row[i] # Null /\ row'[i] # Null
             => \A f \in Fields : row[i].data[f] # Null => row'[i].data[f] # Null]_vars
  BY StepKeepsFields
<1> QED
  BY <1>1, InitInv, NextInv, PTL DEF Spec, FieldsKept

\* Answers are made by Enrich alone; every other step of a request empties or
\* keeps them.
LEMMA StepShows ==
  ASSUME IInv, [Next]_vars, NEW r \in Requests, NEW s \in req'[r].shown \ req[r].shown,
         s.id # Null
  PROVE  row[s.ext] # Null /\ row[s.ext].id = s.id /\ row[s.ext].active
<1>1. req[r] \in Request /\ DOMAIN req = Requests
  BY DEF IInv, Held
<1>2. Idle.shown = {}
  BY DEF Idle
<1>3. ASSUME Enrich(r)
      PROVE  row[s.ext] # Null /\ row[s.ext].id = s.id /\ row[s.ext].active
  <2>1. req'[r].shown = {Enriched(r, person) : person \in req[r].reply}
    BY <1>1, <1>3 DEF Enrich, Idle
  <2>2. PICK person \in req[r].reply : s = Enriched(r, person)
    BY <2>1
  <2>3. person \in Person
    BY <1>1 DEF Request
  <2> QED
    BY <2>2, <2>3, EnrichedShown
<1>4. ASSUME NEW q \in Requests, Enrich(q), q # r
      PROVE  FALSE
  BY <1>1, <1>4 DEF Enrich
<1>5. ASSUME NEW q \in Requests, Upsert(q)
      PROVE  FALSE
  <2>1. \A i, labels : Disturb(i, labels)[r].shown = req[r].shown
    BY <1>1 DEF Disturb, Request
  <2>2. PICK kind \in {"create", "update"}, sent \in Bodies, i \in ExtIds \cup Invented, k \in Keys :
          /\ sent[Name] # Null
          /\ row[i] = Null => ids[i] < MaxRows
          /\ row' = [row EXCEPT ![i] = Upserted(i, sent)]
          /\ ids' = [ids EXCEPT ![i] = Upserted(i, sent).id]
          /\ req' = [Disturb(i, {"reload"}) EXCEPT ![q] =
                       [Idle EXCEPT !.pc = "reload", !.kind = kind, !.sent = sent, !.ext = i,
                                    !.key = IF kind = "update" THEN k ELSE Null,
                                    !.disturbed = ~Upserted(i, sent).active]]
    BY <1>5, Zenon DEF Upsert
  <2>3. r # q => req'[r].shown = req[r].shown
    BY <2>1, <2>2 DEF Disturb
  <2>4. r = q => req'[r].shown = {}
    BY <2>2 DEF Disturb, Idle
  <2> QED
    BY <2>3, <2>4
<1>6. ASSUME NEW i \in Ids, SetActive(i) \/ Forget(i)
      PROVE  FALSE
  BY <1>1, <1>6 DEF SetActive, Forget, Disturb, Request
<1>7. ASSUME NEW q \in Requests, Reload(q) \/ FindRow(q) \/ CacheKey(q) \/ End(q)
      PROVE  FALSE
  BY <1>1, <1>2, <1>7 DEF Reload, FindRow, CacheKey, End, Close, Goto, Request
<1>8. ASSUME NEW q \in Requests, NEW keys, Fetched(q, keys)
      PROVE  FALSE
  BY <1>1, <1>8 DEF Fetched, Idle
<1>9. ASSUME NEW q \in Requests, CloudCreate(q) \/ CloudUpdate(q)
      PROVE  FALSE
  <2>1. PICK k, next : req' = [Goto(q, next) EXCEPT ![q].key = k, ![q].reply = {Cleaned(q)}]
    BY <1>9 DEF CloudCreate, CloudUpdate, Reached
  <2>2. r # q => req'[r] = req[r]
    BY <1>1, <2>1 DEF Goto
  <2>3. r = q => req'[r].shown = req[r].shown
    BY <1>1, <2>1 DEF Goto, Request
  <2> QED
    BY <2>2, <2>3
<1>10. ~UNCHANGED vars
  BY DEF vars
<1> QED
  BY <1>3, <1>4, <1>5, <1>6, <1>7, <1>8, <1>9, <1>10 DEF Next, ListPeople, RetrievePerson

\* An answer has no data of a row that is erased or deactivated when it is made,
\* for any number of requests and people (get_person, get_persons_batch).
THEOREM ErasedNotShown == Spec => WithdrawnStaysHidden
<1>1. IInv /\ [Next]_vars =>
        [\A r \in Requests : \A s \in req'[r].shown \ req[r].shown :
           s.id # Null => row[s.ext] # Null /\ row[s.ext].id = s.id /\ row[s.ext].active]_vars
  BY StepShows
<1> QED
  BY <1>1, InitInv, NextInv, PTL DEF Spec, WithdrawnStaysHidden

=============================================================================
