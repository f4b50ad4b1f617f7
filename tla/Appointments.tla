----------------------------- MODULE Appointments -----------------------------
(***************************************************************************)
(* POST /appointments/ (create_appointment) and POST /webhooks/receive/    *)
(* (receive_webhook) running against one Postgres database, READ COMMITTED,*)
(* one session per request.                                                *)
(*                                                                         *)
(* A handler is a coroutine: between two awaits of it any step of another  *)
(* handler may run, so every query, commit and cloud call is an action.    *)
(* "Workers" are the POST requests and "Hooks" the webhook deliveries that *)
(* can be under way at once; each serves request after request.  The other *)
(* routes that write these tables, for people and for custom data, need one*)
(* statement each.                                                         *)
(***************************************************************************)
EXTENDS Integers, FiniteSets, BookingRules

CONSTANTS Workers, Hooks,
          Keys,       \* appointment keys the cloud can allot: bounds bookings
          ExtIds,     \* external_ids of people
          TopLevel,   \* ... that a payload may carry outside its attendees
          LocalKeys,  \* bound: keys the local-data routes are used with
          Questions,  \* questionnaire answers that are PII
          Starts,     \* what scheduled_at can be for a booking
          Services,   \* what a request may ask for: [service_key, tag]
          Config,     \* booking_limits.json, with "enabled": true
          Announced,  \* the outcomes the cloud's webhooks announce
          MaxFuture,  \* the largest cap Config can resolve to
          Anon,       \* an attendee without external_id
          Nobody,     \* no attendee at all
          None        \* no row

Sessions == Workers \cup Hooks
Outcomes == {"noshow", "completed", "canceled"}
Statuses == Outcomes \cup {"scheduled"}
Times    == {"future", "past", "unset"}

VARIABLES
  appts,     \* local_appointment: key -> committed row
  answers,   \* pii_questionnaire_answer: committed <<key, question>> pairs
  customs,   \* keys with a committed local_custom_data row
  people,    \* external_ids with a committed pii_person row
  cloud,     \* the cloud's appointments: key -> owner, redacted answers, status
  events,    \* status webhooks the cloud has announced
  pc,        \* where each handler stands
  ext,       \* POST: the external_id of the first attendee
  top,       \* POST: the external_id at the top level of the payload
  pending,   \* POST: redacted answers not stored yet
  custom,    \* POST: custom_data still to be stored
  start,     \* POST: scheduled_at of the booking
  limit,     \* POST: the cap the rules gave
  key,       \* the appointment key the handler works on
  news,      \* webhook: the status it announces
  staged,    \* sessions with a flushed, uncommitted write to row key[s]
  confirmed  \* keys the client got a 201 for

tables == <<appts, answers, customs, people>>
remote == <<cloud, events>>
form   == <<ext, top, pending, custom, start, limit>>
vars   == <<tables, remote, pc, form, key, news, staged, confirmed>>

Row       == [ext : ExtIds, status : Statuses, when : Times]
CloudAppt == [ext : ExtIds \cup {Nobody}, flat : BOOLEAN,
              tokens : SUBSET Questions, status : Statuses]

(***************************************************************************)
(* The limits a request may meet: no-shows age out of the window, so the   *)
(* count a query returns is anything up to the rows that say "noshow".     *)
(***************************************************************************)
RowsOf(e) == {k \in Keys : appts[k] # None /\ appts[k].ext = e}

NoShows(e) == {k \in RowsOf(e) : appts[k].status = "noshow"}

FutureKeys(e) == {k \in RowsOf(e) : /\ appts[k].status = "scheduled"
                                    /\ appts[k].when = "future"}

LimitsFor(s, n) ==
  ResolveRule(Config, [service_key |-> s.service_key, tag |-> s.tag, noshow_count |-> n])

Tier(limits, n) == ResolvePenalty(Setting(limits, "noshow_penalties"), n)

SameWindow(limits) == Setting(limits, "noshow_window_days")
                        = Setting(Config.defaults, "noshow_window_days")

Cap(s, n, m) == EffectiveMax(LimitsFor(s, n), Tier(LimitsFor(s, n), m))

ASSUME MaxFutureAssumption == MaxFuture \in Nat \ {0}
ASSUME CapAssumption ==
  \A s \in Services, n, m \in 0..Cardinality(Keys) :
    Cap(s, n, m) \in Nat /\ Cap(s, n, m) <= MaxFuture
ASSUME FiniteAssumption ==
  IsFiniteSet(Workers) /\ IsFiniteSet(Keys) /\ Workers # {}
ASSUME DistinctAssumption ==
  /\ Workers \cap Hooks = {}
  /\ Anon \notin ExtIds \cup {Nobody}
  /\ Nobody \notin ExtIds
  /\ None \notin Row \cup CloudAppt \cup Keys \cup ExtIds
  /\ None \notin [ext : ExtIds, status : Statuses]
  /\ TopLevel \subseteq ExtIds
  /\ LocalKeys \subseteq Keys
  /\ Starts \subseteq Times
  /\ Announced \subseteq Outcomes

Init ==
  /\ appts = [k \in Keys |-> None]
  /\ answers = {}
  /\ customs = {}
  /\ people = {}
  /\ cloud = [k \in Keys |-> None]
  /\ events = {}
  /\ pc = [s \in Sessions |-> "idle"]
  /\ ext = [w \in Workers |-> Nobody]
  /\ top = [w \in Workers |-> None]
  /\ pending = [w \in Workers |-> {}]
  /\ custom = [w \in Workers |-> FALSE]
  /\ start = [w \in Workers |-> "unset"]
  /\ limit = [w \in Workers |-> 0]
  /\ key = [s \in Sessions |-> None]
  /\ news = [h \in Hooks |-> "scheduled"]
  /\ staged = {}
  /\ confirmed = {}

-----------------------------------------------------------------------------
(***************************************************************************)
(* Sessions and transactions                                               *)
(***************************************************************************)
Goto(s, label) == pc' = [pc EXCEPT ![s] = label]

\* _primary_external_id: who a POST is checked and tracked for.
Primary(w) == IF top[w] = None THEN ext[w] ELSE top[w]

\* The row a POST inserts.
Booking(w) == [ext |-> Primary(w), status |-> "scheduled", when |-> start[w]]

\* Variant: every event is taken for a no-show.
SettledAsNoShow(h) ==
  IF appts[key[h]] = None
  THEN [ext |-> cloud[key[h]].ext, status |-> "noshow", when |-> "unset"]
  ELSE [appts[key[h]] EXCEPT !.status = "noshow"]

\* What a webhook's commit makes of the row.
Settled(h) == IF appts[key[h]] = None
              THEN [ext |-> cloud[key[h]].ext, status |-> news[h], when |-> "unset"]
              ELSE [appts[key[h]] EXCEPT !.status = news[h]]

\* Variant: an upsert in place of an INSERT.
NeverTaken(k) == FALSE

\* appointment_key is unique: an INSERT of a committed key raises IntegrityError.
Taken(k) == appts[k] # None

\* Another transaction holds row k (or its unique index entry): a write waits.
Locked(k) == \E s \in staged : key[s] = k

\* Variant: answers are stored through a session of their own.
CommitElsewhere(w) == UNCHANGED <<appts, staged>>

\* A commit in worker w's session also commits what record_appointment flushed.
Commit(w) ==
  /\ appts' = IF w \in staged THEN [appts EXCEPT ![key[w]] = Booking(w)] ELSE appts
  /\ staged' = staged \ {w}

\* Variant: the session is not closed, and its transaction stays open.
CloseLeaking(s) ==
  Goto(s, "idle") /\ key' = key /\ UNCHANGED staged

\* The request is over and its session closed: what is uncommitted is rolled back.
Close(s) == Goto(s, "idle") /\ staged' = staged \ {s} /\ key' = [key EXCEPT ![s] = None]

CloseWorker(w) ==
  /\ Close(w)
  /\ ext' = [ext EXCEPT ![w] = Nobody]
  /\ top' = [top EXCEPT ![w] = None]
  /\ pending' = [pending EXCEPT ![w] = {}]
  /\ custom' = [custom EXCEPT ![w] = FALSE]
  /\ start' = [start EXCEPT ![w] = "unset"]
  /\ limit' = [limit EXCEPT ![w] = 0]
  /\ UNCHANGED <<tables, remote, news>>

CloseHook(h) ==
  /\ Close(h)
  /\ news' = [news EXCEPT ![h] = "scheduled"]
  /\ UNCHANGED <<answers, customs, people, remote, form, confirmed>>

-----------------------------------------------------------------------------
(***************************************************************************)
(* POST /appointments/                                                     *)
(***************************************************************************)
\* A request comes in.  Without an external_id the limiter is not asked.
Arrive(w) ==
  /\ pc[w] = "idle"
  /\ \E e \in ExtIds \cup {Anon, Nobody}, t \in TopLevel \cup {None} :
       /\ ext' = [ext EXCEPT ![w] = e]
       /\ top' = [top EXCEPT ![w] = t]
       /\ Goto(w, IF e \in ExtIds \/ t # None THEN "noshows" ELSE "intercept")
  /\ \E redacted \in SUBSET Questions : pending' = [pending EXCEPT ![w] = redacted]
  /\ \E given \in BOOLEAN : custom' = [custom EXCEPT ![w] = given]
  /\ \E t \in Starts : start' = [start EXCEPT ![w] = t]
  /\ UNCHANGED <<tables, remote, limit, key, news, staged, confirmed>>

\* BookingLimiter.check: the no-show queries, rule resolution and the block.
\* Whether the tier's block still runs depends on the clock.
CheckNoShows(w) ==
  /\ pc[w] = "noshows"
  /\ \E s \in Services, n \in 0..Cardinality(NoShows(Primary(w))) :
     \E m \in IF SameWindow(LimitsFor(s, n)) THEN {n}
              ELSE 0..Cardinality(NoShows(Primary(w))) :
       \/ /\ Tier(LimitsFor(s, n), m).block_days > 0
          /\ NoShows(Primary(w)) # {}
          /\ CloseWorker(w) /\ UNCHANGED confirmed
       \/ /\ limit' = [limit EXCEPT ![w] = Cap(s, n, m)]
          /\ Goto(w, "future")
          /\ UNCHANGED <<tables, remote, ext, top, pending, custom, start, key, news,
                         staged, confirmed>>

\* Variant: off by one.
BeyondLimit(w) == Cardinality(FutureKeys(Primary(w))) > limit[w]

AtLimit(w) == Cardinality(FutureKeys(Primary(w))) >= limit[w]

\* The future-appointments query: 429 or on to the cooldown.
CheckFuture(w) ==
  /\ pc[w] = "future"
  /\ IF AtLimit(w)
     THEN CloseWorker(w) /\ UNCHANGED confirmed
     ELSE /\ Goto(w, "cooldown")
          /\ UNCHANGED <<tables, remote, form, key, news, staged, confirmed>>

\* A cooldown can only deny someone who has booked before.
CheckCooldown(w) ==
  /\ pc[w] = "cooldown"
  /\ \/ /\ RowsOf(Primary(w)) # {}
        /\ \E s \in Services, n \in 0..Cardinality(Keys) :
             Setting(LimitsFor(s, n), "cooldown_minutes") > 0
        /\ CloseWorker(w) /\ UNCHANGED confirmed
     \/ /\ Goto(w, "intercept")
        /\ UNCHANGED <<tables, remote, form, key, news, staged, confirmed>>

\* An external_id nobody has: what uuid4 returns.
Fresh ==
  ExtIds \ (people \cup TopLevel \cup {ext[w] : w \in Workers}
              \cup {appts[k].ext : k \in {j \in Keys : appts[j] # None}}
              \cup {cloud[k].ext : k \in {j \in Keys : cloud[j] # None}})

\* intercept_appointment upserts the attendee (and commits), inventing an
\* external_id where there is none; the handler then re-resolves it.
Intercept(w) ==
  /\ pc[w] = "intercept"
  /\ \E e \in IF ext[w] = Anon THEN Fresh ELSE {ext[w]} :
       /\ ext' = [ext EXCEPT ![w] = e]
       /\ people' = people \cup ({e} \ {Nobody})
  /\ Goto(w, "forward")
  /\ UNCHANGED <<appts, answers, customs, remote, top, pending, custom, start, limit,
                 key, news, staged, confirmed>>

\* Bound: ExtIds is finite, so the pool of unused identifiers can run dry.
\* The code's does not; here the request is dropped.
IdsExhausted(w) ==
  /\ pc[w] = "intercept"
  /\ ext[w] = Anon
  /\ Fresh = {}
  /\ CloseWorker(w) /\ UNCHANGED confirmed

\* The cloud creates the appointment for the attendee: tokens stand for the
\* redacted answers, and what else the payload holds is passed on as it is.
CloudCreate(w) ==
  /\ pc[w] = "forward"
  /\ \E k \in Keys :
       /\ cloud[k] = None
       /\ cloud' = [cloud EXCEPT ![k] =
                      [ext |-> ext[w], flat |-> top[w] # None,
                       tokens |-> pending[w], status |-> "scheduled"]]
       /\ key' = [key EXCEPT ![w] = k]
  /\ Goto(w, "created")
  /\ UNCHANGED <<tables, events, form, news, staged, confirmed>>

\* The cloud refuses: its answer is passed on.
CloudReject(w) ==
  /\ pc[w] = "forward"
  /\ CloseWorker(w) /\ UNCHANGED confirmed

\* httpx gives up waiting, before or after the cloud did its work: 500.
Timeout(w) ==
  /\ pc[w] \in {"forward", "created"}
  /\ CloseWorker(w) /\ UNCHANGED confirmed

\* The 201 arrives.
Receive(w) ==
  /\ pc[w] = "created"
  /\ Goto(w, "record")
  /\ UNCHANGED <<tables, remote, form, key, news, staged, confirmed>>

\* limiter.record_appointment: an INSERT that is flushed and not committed.
\* It waits for another transaction's uncommitted row and fails on a committed one.
Record(w) ==
  /\ pc[w] = "record"
  /\ \/ /\ Primary(w) = Nobody
        /\ Goto(w, "store")
        /\ UNCHANGED <<tables, remote, form, key, news, staged, confirmed>>
     \/ /\ Primary(w) # Nobody
        /\ ~Locked(key[w])
        /\ ~Taken(key[w])
        /\ staged' = staged \cup {w}
        /\ Goto(w, "store")
        /\ UNCHANGED <<tables, remote, form, key, news, confirmed>>
     \/ /\ Primary(w) # Nobody
        /\ ~Locked(key[w])
        /\ Taken(key[w])
        /\ CloseWorker(w) /\ UNCHANGED confirmed

\* questionnaire.store: one answer, one commit.
StoreAnswer(w) ==
  /\ pc[w] = "store"
  /\ \E q \in pending[w] :
       /\ answers' = answers \cup {<<key[w], q>>}
       /\ pending' = [pending EXCEPT ![w] = @ \ {q}]
  /\ Commit(w)
  /\ UNCHANGED <<customs, people, remote, pc, ext, top, custom, start, limit, key, news,
                 confirmed>>

\* custom_store.upsert, once the answers are in.
StoreCustom(w) ==
  /\ pc[w] = "store"
  /\ pending[w] = {}
  /\ custom[w]
  /\ customs' = customs \cup {key[w]}
  /\ custom' = [custom EXCEPT ![w] = FALSE]
  /\ Commit(w)
  /\ UNCHANGED <<answers, people, remote, pc, ext, top, pending, start, limit, key, news,
                 confirmed>>

\* Variant: the answers are stored in the background.
CustomStored(w) == ~custom[w]

AllStored(w) == pending[w] = {} /\ ~custom[w]

\* Enrich, answer 201, close the session.
Respond(w) ==
  /\ pc[w] = "store"
  /\ AllStored(w)
  /\ confirmed' = confirmed \cup {key[w]}
  /\ CloseWorker(w)

\* A query fails, the client disconnects or the process dies.
Crash(w) ==
  /\ pc[w] # "idle"
  /\ CloseWorker(w) /\ UNCHANGED confirmed

-----------------------------------------------------------------------------
(***************************************************************************)
(* POST /webhooks/receive/: _update_appointment_status                     *)
(***************************************************************************)
\* A status event arrives; the cloud may send it again, late or out of order.
Deliver(h) ==
  /\ pc[h] = "idle"
  /\ \E event \in events :
       /\ key' = [key EXCEPT ![h] = event[1]]
       /\ news' = [news EXCEPT ![h] = event[2]]
  /\ Goto(h, "select")
  /\ UNCHANGED <<tables, remote, form, staged, confirmed>>

\* Variant: the payload's owner is not looked at.
AnyPayload(k) == TRUE

\* _extract_first_external_id finds somebody in the payload.
HasOwner(k) == cloud[k].ext # Nobody

\* update_status reads the row; no row and an owner in the payload: insert one.
\* A row that already has the status is not written.
SelectRow(h) ==
  /\ pc[h] = "select"
  /\ LET row == appts[key[h]]
     IN  \/ /\ row # None
            /\ row.status # news[h]
            /\ Goto(h, "update")
            /\ UNCHANGED <<tables, remote, form, key, news, staged, confirmed>>
         \/ /\ row = None
            /\ HasOwner(key[h])
            /\ Goto(h, "insert")
            /\ UNCHANGED <<tables, remote, form, key, news, staged, confirmed>>
         \/ /\ IF row = None THEN ~HasOwner(key[h]) ELSE row.status = news[h]
            /\ CloseHook(h) /\ UNCHANGED appts

\* The flush of UPDATE ... SET status, or of the INSERT.
WriteRow(h) ==
  /\ pc[h] = "update" \/ (pc[h] = "insert" /\ ~Taken(key[h]))
  /\ ~Locked(key[h])
  /\ staged' = staged \cup {h}
  /\ Goto(h, "commit")
  /\ UNCHANGED <<tables, remote, form, key, news, confirmed>>

\* The unique key was taken since the SELECT: the exception is logged, the
\* status is not applied, and the delivery is still answered "accepted".
InsertConflict(h) ==
  /\ pc[h] = "insert"
  /\ ~Locked(key[h])
  /\ Taken(key[h])
  /\ CloseHook(h) /\ UNCHANGED appts

CommitRow(h) ==
  /\ pc[h] = "commit"
  /\ appts' = [appts EXCEPT ![key[h]] = Settled(h)]
  /\ CloseHook(h)

HookCrash(h) ==
  /\ pc[h] # "idle"
  /\ CloseHook(h) /\ UNCHANGED appts

-----------------------------------------------------------------------------
(***************************************************************************)
(* The cloud and the clock                                                 *)
(***************************************************************************)
\* Somebody books in the cloud without the proxy.
CloudBooking(e) ==
  /\ \E k \in Keys :
       /\ cloud[k] = None
       /\ cloud' = [cloud EXCEPT ![k] =
                      [ext |-> e, flat |-> FALSE, tokens |-> {}, status |-> "scheduled"]]
  /\ UNCHANGED <<tables, events, pc, form, key, news, staged, confirmed>>

\* An appointment ends, or its outcome is corrected, and the cloud says so.
CloudSettle(k, outcome) ==
  /\ cloud[k] # None
  /\ cloud[k].status # outcome
  /\ cloud' = [cloud EXCEPT ![k].status = outcome]
  /\ events' = events \cup {<<k, outcome>>}
  /\ UNCHANGED <<tables, pc, form, key, news, staged, confirmed>>

\* scheduled_at passes.
Elapse(k) ==
  /\ appts[k] # None
  /\ appts[k].when = "future"
  /\ appts' = [appts EXCEPT ![k].when = "past"]
  /\ UNCHANGED <<answers, customs, people, remote, pc, form, key, news, staged,
                 confirmed>>

-----------------------------------------------------------------------------
(***************************************************************************)
(* The other routes that write these tables                                *)
(***************************************************************************)
\* POST, PUT or PATCH /people/...: intercept_person upserts the row.
Register(e) ==
  /\ people' = people \cup {e}
  /\ UNCHANGED <<appts, answers, customs, remote, pc, form, key, news, staged, confirmed>>

\* PUT or PATCH /local-data/appointment/{key}/: one upsert, whatever the key; there
\* need be no row for it, nor an appointment.
PutCustom(k) ==
  /\ customs' = customs \cup {k}
  /\ UNCHANGED <<appts, answers, people, remote, pc, form, key, news, staged, confirmed>>

\* DELETE /local-data/appointment/{key}/; what is not there answers 404.
DropCustom(k) ==
  /\ customs' = customs \ {k}
  /\ UNCHANGED <<appts, answers, people, remote, pc, form, key, news, staged, confirmed>>

-----------------------------------------------------------------------------
\* What a POST in progress does by itself, once it has arrived.
Progress(w) ==
  \/ CheckNoShows(w) \/ CheckFuture(w) \/ CheckCooldown(w)
  \/ Intercept(w) \/ IdsExhausted(w) \/ CloudCreate(w) \/ CloudReject(w) \/ Timeout(w)
  \/ Receive(w) \/ Record(w) \/ StoreAnswer(w) \/ StoreCustom(w) \/ Respond(w)

HookProgress(h) ==
  \/ SelectRow(h) \/ WriteRow(h) \/ InsertConflict(h) \/ CommitRow(h)

Environment ==
  \/ \E e \in ExtIds \cup {Nobody} : CloudBooking(e)
  \/ \E k \in Keys, outcome \in Announced : CloudSettle(k, outcome)
  \/ \E k \in Keys : Elapse(k)
  \/ \E e \in ExtIds : Register(e)

LocalData == \E k \in LocalKeys : PutCustom(k) \/ DropCustom(k)

Next ==
  \/ \E w \in Workers : Arrive(w) \/ Progress(w) \/ Crash(w)
  \/ \E h \in Hooks : Deliver(h) \/ HookProgress(h) \/ HookCrash(h)
  \/ Environment
  \/ LocalData

Spec == Init /\ [][Next]_vars

\* The event loop keeps running every coroutine that can go on, and httpx times
\* out.  A transaction that waits for a row is woken when the holder ends, so
\* it is not passed over for ever by later ones: strong fairness of the writes.
\* Nothing makes a client send requests, a handler crash or an event arrive.
Fairness ==
  /\ \A w \in Workers : WF_vars(Progress(w)) /\ SF_vars(Record(w))
  /\ \A h \in Hooks : WF_vars(HookProgress(h)) /\ SF_vars(WriteRow(h) \/ InsertConflict(h))

FairSpec == Spec /\ Fairness

-----------------------------------------------------------------------------
(***************************************************************************)
(* Properties                                                              *)
(***************************************************************************)
TypeOK ==
  /\ appts \in [Keys -> Row \cup {None}]
  /\ answers \subseteq Keys \X Questions
  /\ customs \subseteq Keys
  /\ people \subseteq ExtIds
  /\ cloud \in [Keys -> CloudAppt \cup {None}]
  /\ events \subseteq Keys \X Outcomes
  /\ pc \in [Sessions -> {"idle", "noshows", "future", "cooldown", "intercept",
                          "forward", "created", "record", "store",
                          "select", "update", "insert", "commit"}]
  /\ ext \in [Workers -> ExtIds \cup {Anon, Nobody}]
  /\ top \in [Workers -> TopLevel \cup {None}]
  /\ pending \in [Workers -> SUBSET Questions]
  /\ custom \in [Workers -> BOOLEAN]
  /\ start \in [Workers -> Times]
  /\ limit \in [Workers -> Nat]
  /\ key \in [Sessions -> Keys \cup {None}]
  /\ news \in [Hooks -> Statuses]
  /\ staged \subseteq Sessions
  /\ confirmed \subseteq Keys

\* Requests of e that passed the check and may still add a row.
InFlight(e) ==
  {w \in Workers : /\ Primary(w) = e
                   /\ \/ pc[w] \in {"cooldown", "intercept", "forward", "created",
                                "record"}
                      \/ w \in staged}

\* The check reads, the row comes many awaits later, and nothing is locked in
\* between, so the cap of check() can be exceeded; but never by more than the
\* requests that run at once: each admission saw a count below the cap
\* (create_appointment, booking_limiter.check).
OvershootBounded ==
  \A e \in ExtIds :
    Cardinality(FutureKeys(e)) + Cardinality(InFlight(e))
      <= MaxFuture - 1 + Cardinality(Workers)

Linked(k) == /\ appts[k] # None
             /\ appts[k].ext = cloud[k].ext
             /\ appts[k].ext \in people

\* The payload had the eagendas shape: who it is for is among the attendees.
Nested(k) == cloud[k] # None /\ ~cloud[k].flat

\* Answers are stored under key k.
Filled(k) == \E q \in Questions : <<k, q>> \in answers

\* What forget_person needs to find what it deletes.  Answers under the key of an
\* appointment with an attendee are linked to its owner by a committed
\* local_appointment row, and the owner has a pii_person row - although the row is
\* only flushed by record_appointment and it takes a later commit to keep it, and
\* although webhooks create the same rows concurrently.  Custom data is linked
\* too, from then on, unless it comes by a PUT or PATCH of its own for an
\* appointment that is not: no booking stores any out of reach.
ErasureReach ==
  [][\A k \in Keys : (Nested(k) /\ cloud[k].ext # Nobody)' =>
       /\ Filled(k)' => Linked(k)'
       /\ k \in customs' /\ ~Linked(k)' => \/ k \in customs /\ ~Linked(k)
                                          \/ PutCustom(k)]_vars

\* A client that got 201 can have every token in the cloud's copy restored
\* (questionnaire.store runs before the response, one commit per answer).
Restorable ==
  \A k \in confirmed, q \in Questions :
    q \in cloud[k].tokens => <<k, q>> \in answers

\* Whoever wrote the row first - the POST or a webhook that overtook it - it
\* names the cloud's attendee, and an outcome in it is one the cloud announced.
RowMirrorsCloud ==
  \A k \in Keys :
    appts[k] # None => /\ cloud[k] # None
                       /\ Nested(k) => appts[k].ext = cloud[k].ext
                       /\ appts[k].status # "scheduled" => <<k, appts[k].status>> \in events

\* The table refines the ledger: entries appear once, keep their owner and
\* never go back to "scheduled", whatever the handlers interleave.
Ledger == INSTANCE AppointmentLedger WITH
  ledger <- [k \in Keys |->
               IF appts[k] = None THEN None
               ELSE [ext |-> appts[k].ext, status |-> appts[k].status]]

LedgerSpec == Ledger!Spec

\* Every request is answered: a POST waiting for a webhook's transaction, or a
\* webhook waiting for a POST's, is let through in the end.
Answered == \A s \in Sessions : pc[s] # "idle" ~> pc[s] = "idle"

\* docs/booking-limits.md: after a 201 the appointment is in local_appointment.
TrackedAfter201 ==
  \A k \in confirmed : cloud[k].ext # Nobody => appts[k] # None

=============================================================================
