# Verification of the eAgendas Data Proxy

The Data Proxy (`src/app/`) sits between a client and the eAgendas cloud. It
keeps personal data in a local Postgres database, sends the cloud pseudonyms and
redaction tokens, and puts the originals back into the cloud's answers. It also
enforces booking limits, from a local table that it fills itself and that the
cloud's webhooks update. It is an asyncio program: a request is a coroutine with
one database session, nothing is locked between two awaits of it, and Postgres
runs at READ COMMITTED.

This directory holds TLA+ models of its core, the TLC configurations that check
them and proofs that TLAPS checks.

    tlasany Appointments.tla
    tlc -workers 2 -config appointments_webhooks.cfg MCAppointments
    tlapm AppointmentsProofs.tla

## 1. Inventory

| Component | State it keeps | Operations | What is hard |
|---|---|---|---|
| Appointment creation, `routers/appointments.py` | none of its own; writes `local_appointment`, `pii_person`, `pii_questionnaire_answer`, `local_custom_data` | POST: check, redact, intercept, forward, record, store, respond | a dozen awaits between the check and the record; commits at several places; cloud time-outs |
| Booking limiter, `services/booking_limiter.py` | `local_appointment`; cache of `booking_limits.json` | `check`, `record_appointment`, `update_status` | counts that age, tiers and rules that depend on them, a flush without a commit |
| Webhook receiver, `routers/webhook_receiver.py` | `local_appointment` | status update, dispatch of two Celery tasks | races with POST for the same unique key; late, repeated and reordered events |
| Relay and notification tasks, `tasks/` | Celery queue in Redis, `notification_log` | `relay_webhook`, `send_appointment_notification` | retries, reordering, loss; personal data in queued payloads |
| Data privacy, `services/data_privacy.py` | every PII table, `audit_log` | `forget_person`, `export_person_data`, `purge_expired` | seven statements at READ COMMITTED against requests in progress; a purge over a list that ages; exports assembled from several statements |
| PII store, interceptor, enricher | `pii_person`, `pii_questionnaire_answer` | upsert, redact, restore | upserts that merge, invented identifiers, stale objects in the session |
| Questionnaire processor | process-wide form cache | classify, redact, store | a cache used across awaits, five minutes stale |
| Custom data, `services/custom_data_store.py`, `routers/local_data.py` | `local_custom_data` | GET, PUT, PATCH, DELETE, of a person or an appointment | PATCH reads, merges and writes; a key need not be one that anything else knows |
| People, `routers/people.py` | `pii_person.person_key` | create, update, forget, export | the local row and the cloud's person drift apart |
| Authentication, audit, pass-through routers, providers, admin, configuration | `proxy_token`, `audit_log` | lookups, appends, calls | no shared state the rest depends on |

How they interact. `create_appointment` asks the limiter, has the questionnaire
processor and the interceptor replace personal data (the interceptor commits the
person), forwards to the cloud, and after a 201 lets the limiter insert the
row (flushed only), stores answers and custom data (each with a commit) and
answers. The cloud reports what becomes of an appointment through webhooks,
which update the row, or insert it when it is not there. `forget_person` and the
retention task find what belongs to a person through `local_appointment`; other
systems write custom data of people and of appointments through the local-data
routes, which look at no other table. The
limiter's answer to the next request depends on all of these.

What makes each part correct:

- creation: the cap is exceeded by no more than the overlap of requests; a 201
  means that every token can be restored; whatever a booking stores can be found
  again by the owner's erasure; every request ends;
- webhooks: the row says who owns the appointment and an outcome the cloud
  announced; rows enter the table once and keep their owner;
- limiter: the documented tiers and windows, over time;
- erasure: complete as far as rows lead to what is stored, and repeatable, as long
  as no write of what is the person's is in progress - and what is left when there
  is no row; exact, when erasures overlap and
  people come back; traced in the audit log; and, by the purge, in time;
- export: whatever was stored within its reach when it was asked for;
- people: the two stores refer to each other consistently, no column goes back to
  NULL, an answer shows what was sent of the columns that are overlaid and nothing of
  who was erased;
- questionnaire: how stale a classification can be, and that answers read back;
- relay and notifications: bounded retries, no message sent twice, none to who was
  erased before the event, and queues that empty.

## 2. Modules

| Module | Models | Kind |
|---|---|---|
| `BookingRules` | `resolve_rule`, `_matches`, `resolve_penalty`, the defaults | operators |
| `AppointmentLedger` | what `local_appointment` promises | abstract specification |
| `Appointments` | `create_appointment` and `_update_appointment_status`, overlapping | specification |
| `AppointmentsProofs` | inductive invariant, safety theorems, refinement of the ledger | proofs |
| `BookingLimiter` | `check` over time for one client | specification |
| `BookingLimiterProofs` | the rule and the tier `BookingRules` picks, the cap and the block over time | proofs |
| `CustomStore` | what `local_custom_data` promises to overlapping requests | abstract specification |
| `CustomData` | `CustomDataStore` and its routes, overlapping | specification |
| `CustomDataProofs` | `CustomData` implements `CustomStore` | proofs |
| `Erasure` | `forget_person` and `export_person_data` between the steps of `Appointments` | composition, EXTENDS `Appointments` |
| `ErasureProofs` | safety of `Erasure`, refinement of the ledger, EXTENDS `AppointmentsProofs` | proofs |
| `Retention` | overlapping erasures, the daily purge and clean-up, people who come back | specification |
| `RetentionProofs` | safety of `Retention` | proofs |
| `People` | the people endpoints over `pii_person` and the cloud, PII store, interceptor, enricher | specification |
| `PeopleProofs` | safety of `People` | proofs |
| `Questionnaire` | form cache, classification, tokens, restoring | specification |
| `QuestionnaireProofs` | safety of `Questionnaire` | proofs |
| `WebhookDispatch` | the receiver's dispatch, the relay and the notification task | specification |
| `WebhookDispatchProofs` | safety of `WebhookDispatch` | proofs |
| `MCAppointments`, `MCBookingLimiter`, `MCCustomData`, `MCErasure`, `MCRetention`, `MCPeople`, `MCQuestionnaire`, `MCWebhookDispatch` | constants and symmetry for TLC | model checking |

### Appointments

A worker `w` is a POST in progress, a hook `h` a webhook delivery in progress;
both serve request after request, so their number is how many run at once.
`pc` is the await the coroutine stands at. The tables hold committed rows only.
A flushed write that is not committed is `s \in staged`, for the row `key[s]`;
a second writer of that row waits (`Locked`), as Postgres makes it wait for the
row lock or the unique index entry, and an INSERT of a committed key fails
(`Taken`). `Commit` is called by `StoreAnswer` and `StoreCustom`, because the
commits of `store_questionnaire_answer` and `CustomDataStore.upsert` are what
keeps the row `record_appointment` flushed. `Close` is `get_db` closing the
session: what is uncommitted is gone.

| Code | Action |
|---|---|
| request arrives, custom_data and PII answers split off | `Arrive` |
| `limiter.check`: no-show queries, rule, tier, block | `CheckNoShows` |
| `limiter.check`: future count, cooldown | `CheckFuture`, `CheckCooldown` |
| `interceptor.intercept_appointment`, re-resolved external_id | `Intercept` |
| `forwarder.forward` | `CloudCreate`, `CloudReject`, `Timeout`, `Receive` |
| `limiter.record_appointment` | `Record` |
| `questionnaire.store`, `custom_store.upsert`, the 201 | `StoreAnswer`, `StoreCustom`, `Respond` |
| exception, disconnect, process end | `Crash`, `HookCrash` |
| webhook: SELECT; flush; commit; IntegrityError | `SelectRow`, `WriteRow`, `CommitRow`, `InsertConflict` |
| the cloud books, settles, time passes | `CloudBooking`, `CloudSettle`, `Elapse` |
| a person is stored by a people request | `Register` |
| PUT, PATCH and DELETE `/local-data/appointment/{key}/` | `PutCustom`, `DropCustom` |

`ext[w]` is the first attendee's external_id, `top[w]` one at the top level of the
payload (`AppointmentCreate` lets extra fields through); `Primary(w)`, like
`_primary_external_id`, prefers the second, while only attendees have their data
stored. The cloud is assumed to file the appointment under the attendee and to
send its events in the same shape; `flat` remembers that a payload had a
top-level id. `ErasureReach` and the owner in `RowMirrorsCloud` are claims about
the eagendas shape (`Nested`); section 4 says what happens otherwise.

`customs` are the keys with custom data. A booking adds one in `StoreCustom`, after
its row; `PutCustom` adds any key of `LocalKeys`, also one without a row, whose booking
was rolled back, took place in the cloud or does not exist. So custom data, unlike
answers, may be where no erasure finds it, and `ErasureReach` says which steps put it
there: a PUT or PATCH for an appointment that is not linked, and no other. (What a
PATCH makes of the fields is in `CustomData`.)

Abstractions. A person is an `external_id`; attendees after the first are left
out (the code tracks the first only). Which answers are PII is an input of
`Arrive` instead of the result of the form lookup. A message is not its text. The
clock appears as `Elapse` (a `scheduled_at` passes) and as choices in
`CheckNoShows` and `CheckCooldown`: any number of no-shows up to those recorded
can be inside the window, a block can have run out or not. `BookingLimiter` has
the clock. `IdsExhausted` exists only because `ExtIds` is finite where `uuid4`
is not. `CloudBooking` and `CloudSettle` are the environment, `Announced` the
outcomes it may report.

### BookingLimiter

One client, requests one after the other, time in ticks (one for a day). Times
are differences to now: `left` until `scheduled_at`, `age` since a row became
a no-show, `rest` since the last `created_at`. Ages stop growing at `Old`, one
more than every window, block and cooldown in the configuration, where no
comparison can tell the difference: time itself needs no bound. `Book` keeps the
row or not (section 4, first finding), `Webhook` settles an appointment, with a
row or without, `Reschedule` moves the cloud's time (`visit`) and not the row's.
A request asks for a service and a tag, which rules can match on besides the
no-show count (`LimitsFor`).
`told` is the block date the client was last told. Cooldown minutes are counted
in the same ticks. Two of the properties hold only of configurations the
documentation has in mind. `Progressive` says that penalties escalate: fewer
no-shows, as ageing leaves them, meet no longer block, through whatever rule they
are resolved. `WindowsCover` says that no window is shorter than the block of a first
no-show. TLC checks that `MCConfig` has both.

### CustomData

A client `c` is a request with a session of its own. A PATCH (and the upsert of a
booking) is `Select`, which keeps what `get` returned in `read`, and `Upsert`,
which writes `Merged` over whatever the row has become; PUT and DELETE are one
statement. A statement and the commit after it are one action: a second writer of
the row waits for that commit, and a reader or a DELETE that comes between them
sees the row as it was, as if it had come before. `seen` is history: the versions
of the entity committed since a PATCH began. `CustomStore` is the promise: a PATCH
takes effect at once on one of those versions, so that it is an atomic merge
when nobody else wrote the entity. GET changes nothing and is left out.

### Erasure

`Erasure` adds `forget_person` to `Appointments`: one action per statement, the
deletions collected in `cut` and applied by `CommitErasure`. A deletion waits
for a row a webhook has locked, and inserts or updates of a row the erasure has
deleted wait for its end (`Waiting`). An UPDATE of a row deleted since its SELECT
matches nothing (`StaleUpdate`). `profile` is person-level custom data. The
local-data routes of both kinds (`LocalDataRoutes`) come at any time, also between two
statements of an erasure or an export; one that writes what the erasure has deleted
waits for its end. `mixed` is a history variable: the people with a request or a
delivery of their own inside an erasure of theirs, or with a PUT or PATCH of their
custom data there. `Tracked` is the custom data of a person's appointments that have
a row. `ErasureComplete` says that all of it goes; of appointments without a row,
`QuietReach` says how custom data gets there, and section 4 that it stays.
One erasure or export runs at a time; `Retention` has overlapping ones. The
audit-log queries find nothing in this code, because nothing writes an entry with
resource_type "appointment".

The export goes the same way by SELECTs of its own: `given` is what it has
gathered, `owed` a history variable: what was stored of the person when it began, less
what a DELETE of theirs has taken since, found from the cloud's side (`KeysOf`) and not
by the export's own search.

### Retention

An erasure here is two steps: the query that finds the person (`Find`,
`PurgeFind`), which keeps the primary key, and the transaction that deletes by it
and writes the audit entry (`EraseCommit`, `PurgeErase`). What lies between them
for one person is `Erasure`. `Register` stores an erased person again, with a new
primary key. The daily task is `CleanAudit` (a transaction of its own),
`ListExpired`, then `PurgeFind` and `PurgeErase` for each of the list in any order,
`PurgeEnd`; `PurgeFails` is an exception anywhere, which ends it. Days pass between
its steps too. `due` is `purge_after` seen from today; `audit` and `done` are the
ages of the newest audit entry and of the newest erasure that took effect.
An erasure that finds its row gone deletes nothing and writes its audit entry all
the same, as the code does.

### People

A request walks through the code's awaits:

| Code | Action |
|---|---|
| `intercept_person`, `upsert_person` up to the commit | `Upsert` |
| `upsert_person`: the row read back | `Reload` |
| POST, PUT or PATCH at the cloud | `CloudCreate`, `CloudUpdate` |
| `list_people`, `retrieve_person` at the cloud | `ListPeople`, `RetrievePerson` |
| `update_person_key`: SELECT; UPDATE and commit | `FindRow`, `CacheKey` |
| `enrich_person`, `enrich_paginated`; the answer | `Enrich` |
| refused, timed out, failed, disconnected | `End` |
| erasure; `is_active` in the admin interface | `Forget`, `SetActive` |

`loaded` is the object in the session's identity map. A query says which rows
exist, but an object that is already loaded keeps its values
(`expire_on_commit=False`): `Got`. So an answer shows the request's own view of the
person, except that an erased or deactivated row disappears from it.
A person has a set of fields; `Name`, the only column that is NOT NULL, stands for
the one that is pseudonymized, the others for those that are stripped. `Overlays` are
the columns the enricher puts into an answer, each only if it is truthy: `Blank` is the
empty string, which is stored and leaves the cloud's value in the answer. date_of_birth
is stored and never overlaid. The cloud
is assumed to keep the external_id and the name it is sent and to return them.
`Bodies` are the bodies sent.

### Questionnaire

One calendar, in one process. `Begin` is the look at the cache, `CloudForm` the
moment the cloud answers, `CompleteFetch` the continuation that caches and
classifies: the two are apart, so that the form may change, and others may fill
the cache, in between. Time is in ticks; a fetch ends within `Latency` of them
(the http client's time-out), an entry expires after `TTL`. `recent[q]` counts how
long ago the cloud's form last had `q` under a type that is not personal. An edit is
the cloud's; an answer other than 200 yields the empty form, which is cached. The
model starts with an empty cache, as every process does.

### WebhookDispatch

A delivery is one webhook request; the same event delivered again is another. The
status update is one step here (`Appointments` has its parts). A task is in one of
the states of `relay` or `note`; the payload it carries names the attendees known
when it was enriched (`known`). Celery acknowledges a task when a worker takes it:
one that dies with its worker is lost, as is one Redis loses, and no failed task
comes back except through `self.retry`. The POST and its answer are two steps, so
that the client's system may have got what the worker believes failed. A message of
the notification task is a number: attendees in order, and for each the enabled
channels. `Planned` assumes that a payload has addresses only from `pii_person`: the
code takes any it finds in the payload, and the cloud is sent none. An attendee who is
listed twice is two entries, with messages of their own. `Send` hands a message to the
provider, which may take it and still not answer; `WriteLog` commits the row of
`notification_log`, or `LogFails` ends the task.

## 3. Runs

| Run | Instance | Shows |
|---|---|---|
| `appointments_cap` | 2 POSTs, 3 keys, cap 1, payloads with and without a top-level id, no webhooks | `OvershootBounded` |
| `appointments_webhooks` | 1 POST, 1 delivery at a time, 1 key, which local-data requests use too, 2 people, 1 question, 2 outcomes | `TypeOK`, `ErasureReach`, `RowMirrorsCloud`, `Restorable`, `LedgerSpec`; `Answered` under `FairSpec` |
| `limiter_tiers` | 3 keys, 3 tiers, 2 rules, a client with 2 tags, appointments up to 3 ticks ahead (`Far`) | `SequentialCap`, `NoShowNeverHelps`, `BlockEnds` |
| `erasure_webhook` | 1 POST, 1 delivery, 1 key, 1 person, local-data requests about both, 1 erasure or export | `EraseTypeOK`, `QuietReach`, `ErasureComplete`, `ExportComplete`, `LedgerSpec` |
| `custom_data` | 3 requests, 1 entity, 1 field with 2 values | `StoreSpec` |
| `retention` | 2 people, 2 requests and the daily task, 1 return each, retention of 1 day | `RetentionTypeOK`, `TraceKept`, `ErasesWhatItFound`; `PurgeReaches` under `FairSpec` |
| `people` | 2 requests, 1 external_id and 1 invented, 1 person_key, 3 fields of which 2 are overlaid, 2 bodies, 2 rows per id | `PeopleTypeOK`, `CrossReferences`, `EchoesSent`, `FieldsKept`, `WithdrawnStaysHidden` |
| `questionnaire` | 2 bookings, 2 questions, `TTL` 2, `Latency` 1 | `FormTypeOK`, `ReadsBack`, `ClearIsRecent` |
| `dispatch` | 2 deliveries, one of them notified of to 2 attendees on 2 channels, 2 retries | `DispatchTypeOK`, `RelayAfterStatus`, `CopiesBounded`, `LoggedOnce`, `NothingSkipped`, `QuietAfterErasure`; `PayloadsDrain` under `FairSpec` |
| `appointments_tracked`, `limiter_reschedule`, `erasure_orphans` | as their passing neighbours | section 4 |

Bounds. Handlers of `Appointments` interact only through rows of the same appointment or of
the same person, so one key already brings a POST and webhooks into every order on one row;
a hook serves delivery after delivery, which gives late, repeated and reordered updates. Two
deliveries that overlap each other are left to the proofs of section 5, which hold for any
number. The cap needs as many appointments as exceed it: with a cap of one, two requests
reach two, and the third key would show a third. `limiter_tiers` scales days down so that
windows, blocks and rules still differ and overlap (window 3, blocks 1 to 3; a rule with
window 4; a rule on three no-shows with a block longer than its window; the first of them
matches one of the two tags the client comes with); three appointments reach the highest
tier, and with `Far` at 3 all of them can lie ahead at once although a cooldown of one tick
keeps bookings apart. `erasure_webhook` has one appointment, which a webhook brings back and
another erasure removes; a second one is out of reach of a short run, and `FindKeys` treats
each key by itself. A PATCH in `custom_data` is overlapped by up to two other writers, and
one field is enough to tell a version, a merge and an overwrite apart; entities share
nothing. `TopLevel` is empty in the runs with webhooks, which would otherwise outgrow their
time, and appointments in the two passing ones have no `scheduled_at` (`Starts`), which
matters to the limiter only. `LocalKeys` bounds the keys the local-data routes are used
with: the one there is, and none in `appointments_cap`, where nothing reads custom data.
`MaxFuture` is the largest cap the configuration resolves to, which TLC checks as an
assumption.

`retention`: one return after an erasure is what it takes for an old request to meet
a new row, two people are what it takes for one to be left over when the task fails
at the other, and with a retention of one day ages of 0, 1 and more than that are
told apart (`Returns` and `Older` bound the counters). `people`: a second row under an
id is an erased and re-created person (`MaxRows`); a body that sets all fields and one
that leaves a field alone and empties another, with different names, tell every merge
apart; ids, keys
and rows are handled one by one, and one of each is enough for two requests to meet.
`questionnaire`: `TTL` and `Latency` differ, and an entry can be older than the edit it
misses by both; `recent` stops at their sum. `dispatch`: `copies` stops above every
allowed number; two retries make a first, a middle and a last attempt; message
numbers cover an unknown attendee, a next channel and a next attendee.

Fairness. In `Appointments`: weak fairness of what a handler does by itself, because
the event loop runs every coroutine that is ready and httpx ends a wait for the
cloud by itself; strong fairness of a write that may have to wait for another
transaction, because Postgres wakes the waiters of a lock when its holder ends.
Neither arrivals, crashes, events nor the clock are fair. `Answered` needs the
strong part: webhooks of one appointment could overtake a POST's INSERT for ever.
In `WebhookDispatch`: weak fairness of a handler that has begun, of a worker with a
task, of a countdown; not of deliveries, failures or providers' success. In
`Retention`: Celery beat starts the task daily, and each step that comes up day
after day succeeds some day (strong fairness of `ListExpired` and of each person's
`PurgeFind` and `PurgeErase`). That is an assumption about faults, not about
scheduling: a person whose erasure failed every time would keep those after it in
the list from being reached, because the exception ends the loop.

Deadlock is checked in every run.

## 4. Where code and documentation disagree

Three are runs that end in a counterexample.

1. `appointments_tracked`: a 201 for a booking without answers and custom data
   leaves no row. `record_appointment` (booking_limiter.py:215) flushes, nothing
   commits. booking-limits.md:29 promises the row.
2. `limiter_reschedule`: an appointment moved to a later date is no longer counted
   after its first date (appointments.py:227).
3. `erasure_orphans`: custom data is PUT for an appointment that has no row, here one
   booked in the cloud; an erasure of its owner, with nothing of theirs under way, finds
   no key and leaves it (local_data.py:77-98, data_privacy.py:91). custom-data.md:220 and
   data-privacy.md:28 promise that it goes. A plain booking through the proxy, whose row
   is rolled back (1), leads there just as well.

Others were met while modelling; no run is kept for them.

- An export leaves out the same custom data (data_privacy.py:231; custom-data.md:221,
  data-privacy.md:85). `ExportComplete` is about what has a row.
- A POST that is past the interceptor when its person is erased goes on and stores
  answers and custom data (data_privacy.py:58). As there is no `pii_person` row any more, a
  second erasure answers 404 (data_privacy.py:49) until the person is stored again. This is
  what `mixed` takes out of `QuietReach` and `ErasureComplete`.
- A row that a webhook inserts for somebody without a `pii_person` row, and custom data PUT
  for an unknown id, are out of reach for the same reason.
- A top-level external_id takes precedence over the attendees' (appointments.py:40),
  although it is documented as the fallback: the row then names somebody else than
  the cloud's attendee, whose limit does not count it and whose erasure does not find
  the answers stored under it. This is why `ErasureReach` is about `Nested` payloads.
- A block ends before the date the client was told, when an older no-show leaves the
  window and the tier falls (booking_limiter.py:145; booking-limits.md:117).
- A PATCH of custom data that overlaps another write overwrites it with what it had
  read before (custom_data_store.py:44; custom-data.md:111). `StoreSpec` says what is
  left.
- After an erasure the cloud is asked to pseudonymize `/people/{external_id}/`, where
  every other route uses a person_key (people.py:176). Nothing looks at the answer.
- An erasure leaves `notification_log`, with recipient addresses, and queued payloads
  alone. `QuietAfterErasure` and `PayloadsDrain` say what holds for the latter.
- purge_after is not a field of the API's person (data-privacy.md:182 sends it there);
  only the admin interface sets it.
- A person PATCH without external_id stores under an invented one (interceptor.py:53)
  and hands that to the cloud, so that the cloud's person loses its older local row.
- date_of_birth is stored and no answer about a person shows it, and a field set to the
  empty string reads back as the cloud has it (enricher.py:31, pii_store.py:28). No code
  writes `address_json`, although an export lists an address (data-privacy.md:82).
- A PATCH without a name ends with 500, because the INSERT of the upsert violates
  NOT NULL before it can conflict; a field sent as null keeps its old value.
- A person whose POST the cloud refuses stays in `pii_person`, under an invented id
  that nobody was told, if none was sent.
- `webhook_relay_retry_max` is read nowhere; the relay task has max_retries=5. The
  notification task's max_retries=3 has no effect, because it never retries.
- An answer given twice for one question gets one token, and reads back as either.
- The export's and the erasure's search in `audit_log` finds nothing, because no code
  writes an entry with resource_type "appointment"; READ and UPDATE entries are
  documented and never written.

booking-limits.md:81 calls max_future_appointments the maximum of simultaneous
future appointments. Overlapping requests exceed it; by how much, and that it is
never more, is `OvershootBounded`, with a cap of one and two appointments in
`appointments_cap`.

## 5. Proofs

TLAPS checks, for every value of the constants that satisfies the assumptions of the
module that declares them. Every property of the passing runs is a theorem - two of
`BookingLimiter` under hypotheses on the configuration - except the three liveness
properties.

`AppointmentsProofs` (finite, non-empty `Workers`, finite `Keys`; caps between 0 and
`MaxFuture`; model values distinct; `TopLevel` any set of external_ids):

- `Inductive`, `TypeCorrect`, `ErasureReaches`, `Restores`, `MirrorsCloud`. The properties
  are not inductive: `ErasureReach` at `StoreAnswer` depends on the row being staged or
  committed by then, which depends on who may have written it since `Record`. `IInv` says
  what each handler may rely on at each await, in three parts. `Core`: who a POST books for,
  that its key is the cloud's and its owner's (`WorkerInv`); that the event of a webhook was
  announced and a row to be inserted has an owner (`HookInv`); one uncommitted write per key
  (`StagedInv`). `Reach(e)`, for each person: the answers stored of them are linked, and
  stay so while their POSTs go on - after `Record` the row is staged or there. That what a
  POST commits under its key is linked when it does (`CommitLinks`) covers custom data,
  which is not part of the invariant: a PUT may have left some anywhere. `Whole`: a redacted
  answer is stored or still in the hands of its POST. The parts are kept apart because an
  erasure keeps the first, keeps the second except for people it meets in the middle of a
  request, and not the third. One lemma per action shows that it keeps all three (`Kept`).
- `CapHolds`: `OvershootBounded`, by a second induction on top of `IInv`. The sum
  of future appointments and requests past the check grows only in `CheckFuture`,
  which has just seen a count below the cap while all other workers are at most
  `Cardinality(Workers) - 1`.
- `RefinesLedger`: `Spec => LedgerSpec`. `Commit` and `CommitRow` are `Track` or
  `Settle` steps, everything else stutters.

`CustomDataProofs` proves `TypeCorrect` and `RefinesStore` (`Spec => StoreSpec`).
What carries it is `RequestInv`: the current version of the entity is among those
a PATCH under way has seen, and so is the version it read.

`ErasureProofs` proves the five properties of `Erasure`, with any number of POSTs, webhooks,
people, keys and questions around one erasure or export at a time: `EraseTypeCorrect`,
`QuietlyReached`, `ErasesAll` (`ErasureComplete`), `ExportsAll`, `ErasureRefinesLedger`; and
`CapHoldsWithErasures`, the bound of `CapHolds` in the same setting. The inductive invariant
(`ErasureInductive`) `EInv` keeps `Core`, and `Reach(e)` for everybody who is not in
`mixed`. The rest says what a statement may rely on of those before it:

- `CutInv`: the rows deleted so far are still the person's, and no other transaction
  writes one. This is why the table makes only the ledger's moves: `CommitErasure` is
  `Forget`.
- `MixedInv`: who has a request under way inside an erasure of theirs is in `mixed`.
- `SweepInv`: of a person who is not, all answers, and all custom data of appointments with
  a row, are under the keys in `seen`, all answers are in `cut` after `DeleteAnswers`, all
  rows after `DeleteRows`, and so on. It rests on `QuietStep`: what a step of any handler
  adds to the tables (`Grows`) belongs to the person its request or delivery is about; of
  the local-data routes `Disturbed` says whose data they add to (`LocalDataRoutesKeep`).
- `GatherInv`: what is owed stays stored until it is given, and the keys of owed
  answers and custom data are those of rows that are owed too (by `Reach`).

The handlers' steps are those of `Appointments` (`HandlersAreSteps`; `StaleUpdate` ends like
`HookCrash`), so that its lemmas carry over; where the erasure has deleted the row
under a webhook, `StaleUpdate` is what happens instead.

`BookingLimiterProofs`, for any configuration of the documented shape (`ShapeAssumption`:
tiers are lists with natural thresholds, lengths of time are natural numbers with a
longest), any number of appointments and services:

- `HighestTier`, `PenaltyGrows`, `FirstRule`, `NoRule`: `ResolvePenalty` picks a reached tier
  with the highest threshold, more no-shows never pick a lower one, and `ResolveRule`
  merges exactly the first rule that matches.
- `CapKept` (`SequentialCap`, `ConfigAssumption`: maxima are natural numbers): only
  `Book` adds to the upcoming appointments, after it has counted fewer than the cap of its own
  rule and tier, which is one of `Caps`.
- `BlockEndsAsTold` (`BlockEnds`), if `Progressive`: `ToldInv`, that what is left of a block
  is never more than what the client was told, is kept by `Tick` because both counts fall as
  no-shows age (`CountFalls`), so that the block they lead to gets no longer
  (`LengthFalls`).
- `FreshNoShowBlocks` (`NoShowNeverHelps`), if `Progressive` and `WindowsCover`. Without
  them the properties are false: a rule that fewer no-shows switch on may block for longer, and
  a no-show that blocks for longer than it counts stops blocking when it stops counting.
- `EscalatingTiersSuffice`: tiers that block for longer the higher they are, and rules
  that do not match on noshow_count, make a configuration `Progressive`. The shipped
  booking_limits.json (four such tiers, no rules, window 90, first block 7 days) is one. The
  documentation's "Repeat offender" rule does match on the count; its block is longer than
  those of fewer no-shows, as is that of its scaled form in `MCConfig`, for which
  TLC checks `Progressive` itself.

`RetentionProofs` proves the three safety properties of `Retention` for any number of
people, requests and returns and any retention (`BoundsAssumption`). `RetentionTypeOK`
and `TraceKept` are inductive together: an erasure's age never passes that of its trace,
and the clean-up takes only traces older than any erasure that still counts.
`OnlyWhatWasFound` then is a statement about the two steps that delete a row.

`QuestionnaireProofs` proves `FormTypeOK`, `ClearIsRecent` and `ReadsBack` for any `TTL` and
`Latency`. What makes the bound `TTL + Latency` inductive is `CacheInv` (the age of what a
cache entry says and the time it has left are together within the bound) and
`FetchInv` (what a fetch holds is no older than the fetch). `ReadsBack` follows from
`SplitInv`: no question is both in clear and redacted. `TextsAssumption`, that no
answer is by chance the token of a question, is a real assumption about the clients:
the code looks tokens up among the stored answers and does not mark them otherwise.

`PeopleProofs` proves all five properties of `People`, for any ids, keys, fields,
bodies and overlapping requests. `Held` says what a request holds at each await:
`Stored` (the id its data was stored under is still in a row, or erased), `Answer` (the
cloud's answer is that id's pseudonym), `Undisturbed` (as long as nobody got in between,
the row is there and the session's copy has what was sent), `Echoes` (the answer then
shows of it what is overlaid and not empty). `CrossReferences` needs
that a key the cloud has not given was born of nobody, so that a create never takes
over a key that some row has cached. `NullAssumption` says that a model value is not a record.

`WebhookDispatchProofs` proves the six safety properties of `WebhookDispatch`, for any
attendees, channels, contacts and `MaxRetries`. `RelayInv` counts copies against retries
by the state of the task; `CallsInv` says that the calls so far are the planned messages
up to the last, in order and without a gap, `LogInv` how the log follows the calls.

Only model-checked: liveness (`Answered`, `PurgeReaches`, `PayloadsDrain`), which is
out of the prover's reach.

## 6. Plan

Every safety property a run checks is proved. What a further proof could add is to
let several erasures overlap bookings and webhooks: `Erasure` has one at a time, and
`Retention`, which has any number, has no bookings. `CutInv`, `SweepInv` and the lock of
a deleted row would have to be stated for each of them.

## 7. Not modelled

Bearer-token authentication (one query before a handler, `last_used_at` is read by nobody),
the pass-through routers and health checks (no local state), message texts and templates,
which column a field of a person goes to, the file cache of `booking_limits.json`, the
migration. Of the admin interface only a person's `is_active` and `purge_after` are
modelled: an administrator can also create, change and delete rows of `local_appointment`
and `local_custom_data`, and create and change rows of `pii_person`, by hand
(admin/setup.py), and what `Reach` or the ledger say of a table does not survive that.
Secondary attendees of a booking are stored like the first, and are not counted by the
limiter. What list, retrieve and update of appointments do to local state is nothing; what
they read back is `ReadsBack` and the enrichment in `People`.
