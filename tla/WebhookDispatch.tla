---------------------------- MODULE WebhookDispatch ----------------------------
(***************************************************************************)
(* What becomes of a webhook: receive_webhook enriches it, updates the     *)
(* local row (the module Appointments has that step in detail) and queues  *)
(* two Celery tasks in Redis.  relay_webhook posts the enriched payload to *)
(* the client's system and is retried; send_appointment_notification sends *)
(* a message per attendee and channel, logs each, and is not.  Tasks are   *)
(* acknowledged when they start: one that dies with its worker is gone.    *)
(***************************************************************************)
EXTENDS Integers, Sequences

CONSTANTS Deliveries, \* webhook requests; a repeated event is another delivery
          Notable,    \* ... with an event that is notified of
          Attendees,  \* delivery -> sequence of external_ids
          Channels,   \* sequence of the channels that are enabled
          Provider,   \* channel -> what it is configured with, if anything
          Contacts,   \* external_id -> channels its pii_person row has data for
          Anon,       \* an attendee without external_id
          MaxRetries  \* of relay_webhook

People == DOMAIN Contacts

VARIABLES
  people,  \* external_ids with a pii_person row
  target,  \* webhook_relay_target_url is set
  pc,      \* delivery -> where receive_webhook stands
  known,   \* delivery -> attendees whose contact data the enriched payload has
  handled, \* deliveries whose status update has run
  relay,   \* delivery -> state of its relay task
  tries,   \* delivery -> retries of that task so far
  copies,  \* delivery -> how often the client's system has got it
  note,    \* delivery -> state of its notification task
  calls,   \* delivery -> the messages handed to a provider, in order
  log,     \* delivery -> its notification_log rows, in order
  went,    \* <<delivery, message>> pairs that reached the recipient
  erased   \* history: delivery -> people erased when it was enriched

receiver == <<known, handled, erased>>
relaying == <<relay, tries, copies>>
noting   == <<note, calls, log, went>>
vars     == <<people, target, pc, receiver, relaying, noting>>

ASSUME RetriesAssumption == MaxRetries \in Nat
ASSUME DeliveriesAssumption ==
  /\ Notable \subseteq Deliveries
  /\ Attendees \in [Deliveries -> Seq(People \cup {Anon})]
  /\ Channels \in Seq({"email", "sms", "whatsapp"})
  /\ Anon \notin People

RelayStates == {"none", "queued", "running", "posted", "waiting",
                "done", "skipped", "gaveup", "lost"}
NoteStates  == {"none", "queued", "running", "log", "done", "broken", "lost"}

\* A task that Redis or a worker holds, with the payload in it.
Held == {"queued", "running", "posted", "waiting", "log"}

Init ==
  /\ people = People
  /\ target \in BOOLEAN
  /\ pc = [d \in Deliveries |-> "cloud"]
  /\ known = [d \in Deliveries |-> {}]
  /\ handled = {}
  /\ relay = [d \in Deliveries |-> "none"]
  /\ tries = [d \in Deliveries |-> 0]
  /\ copies = [d \in Deliveries |-> 0]
  /\ note = [d \in Deliveries |-> "none"]
  /\ calls = [d \in Deliveries |-> << >>]
  /\ log = [d \in Deliveries |-> << >>]
  /\ went = {}
  /\ erased = [d \in Deliveries |-> {}]

-----------------------------------------------------------------------------
(***************************************************************************)
(* receive_webhook                                                         *)
(***************************************************************************)
Attending(d) == {Attendees[d][i] : i \in DOMAIN Attendees[d]}

\* Variant: contact data of everybody, from a copy an erasure does not reach.
KnownForever(d) == Attending(d) \cap People

\* The attendees enrich_appointment finds in pii_person; of the others the
\* payload has the pseudonym and no address.
KnownNow(d) == Attending(d) \cap people

\* Variant: the status update comes last.
EnrichAndGo(d) ==
  /\ pc[d] = "cloud"
  /\ known' = [known EXCEPT ![d] = KnownNow(d)]
  /\ erased' = [erased EXCEPT ![d] = People \ people]
  /\ pc' = [pc EXCEPT ![d] = "relay"]
  /\ UNCHANGED <<people, target, handled, relaying, noting>>

Enrich(d) ==
  /\ pc[d] = "cloud"
  /\ known' = [known EXCEPT ![d] = KnownNow(d)]
  /\ erased' = [erased EXCEPT ![d] = People \ people]
  /\ pc' = [pc EXCEPT ![d] = "status"]
  /\ UNCHANGED <<people, target, handled, relaying, noting>>

\* Whether it succeeds or its exception is logged, the handler goes on.
UpdateStatus(d) ==
  /\ pc[d] = "status"
  /\ handled' = handled \cup {d}
  /\ pc' = [pc EXCEPT ![d] = "relay"]
  /\ UNCHANGED <<people, target, known, erased, relaying, noting>>

\* relay_webhook.delay: without Redis the exception is logged and that is all.
QueueRelay(d) ==
  /\ pc[d] = "relay"
  /\ relay' = [relay EXCEPT ![d] = "queued"] \/ UNCHANGED relay
  /\ pc' = [pc EXCEPT ![d] = IF d \in Notable THEN "notify" ELSE "accepted"]
  /\ UNCHANGED <<people, target, receiver, tries, copies, noting>>

QueueNote(d) ==
  /\ pc[d] = "notify"
  /\ note' = [note EXCEPT ![d] = "queued"] \/ UNCHANGED note
  /\ pc' = [pc EXCEPT ![d] = "accepted"]
  /\ UNCHANGED <<people, target, receiver, relaying, calls, log, went>>

\* The request ends without an answer; the cloud may repeat the event.
ReceiverCrash(d) ==
  /\ pc[d] \in {"status", "relay", "notify"}
  /\ pc' = [pc EXCEPT ![d] = "failed"]
  /\ UNCHANGED <<people, target, receiver, relaying, noting>>

-----------------------------------------------------------------------------
(***************************************************************************)
(* relay_webhook                                                           *)
(***************************************************************************)
SetRelay(d, state) == relay' = [relay EXCEPT ![d] = state]

\* A worker takes the task; without a target there is nothing to do.
StartRelay(d) ==
  /\ relay[d] = "queued"
  /\ SetRelay(d, IF target THEN "running" ELSE "skipped")
  /\ UNCHANGED <<people, target, pc, receiver, tries, copies, noting>>

\* Variant: the retry does not count.
RetryForEver(d) ==
  /\ SetRelay(d, "waiting") \/ SetRelay(d, "lost")
  /\ UNCHANGED tries

\* Variant: off by one.
RetryOnceMore(d) ==
  \/ /\ tries[d] <= MaxRetries
     /\ SetRelay(d, "waiting")
     /\ tries' = [tries EXCEPT ![d] = @ + 1]
  \/ /\ tries[d] > MaxRetries
     /\ SetRelay(d, "gaveup")
     /\ UNCHANGED tries

\* self.retry: a new task after a delay, unless the retries are used up or
\* Redis does not take it.
RetryRelay(d) ==
  \/ /\ tries[d] < MaxRetries
     /\ SetRelay(d, "waiting")
     /\ tries' = [tries EXCEPT ![d] = @ + 1]
  \/ /\ tries[d] < MaxRetries
     /\ SetRelay(d, "lost")
     /\ UNCHANGED tries
  \/ /\ tries[d] = MaxRetries
     /\ SetRelay(d, "gaveup")
     /\ UNCHANGED tries

\* The POST reaches the client's system, or nobody.  copies stops counting
\* above every number of attempts that is allowed.
Post(d) ==
  /\ relay[d] = "running"
  /\ \/ /\ copies' = [copies EXCEPT ![d] = IF @ <= MaxRetries + 1 THEN @ + 1 ELSE @]
        /\ SetRelay(d, "posted")
        /\ UNCHANGED tries
     \/ RetryRelay(d) /\ UNCHANGED copies
  /\ UNCHANGED <<people, target, pc, receiver, noting>>

\* Its answer: a success, or an error status, or none within the 15 seconds.
Answer(d) ==
  /\ relay[d] = "posted"
  /\ \/ SetRelay(d, "done") /\ UNCHANGED tries
     \/ RetryRelay(d)
  /\ UNCHANGED <<people, target, pc, receiver, copies, noting>>

\* The countdown of a retry ends.  How long it was is left out, so that other
\* tasks may overtake it or not.
Wake(d) ==
  /\ relay[d] = "waiting"
  /\ SetRelay(d, "queued")
  /\ UNCHANGED <<people, target, pc, receiver, tries, copies, noting>>

\* Variant: tasks are acknowledged when they end, and done again.
RedoRelay(d) ==
  /\ relay[d] \in Held
  /\ SetRelay(d, "queued")
  /\ UNCHANGED <<people, target, pc, receiver, tries, copies, noting>>

\* The worker dies with the task, or Redis with what it had not saved.
LoseRelay(d) ==
  /\ relay[d] \in Held
  /\ SetRelay(d, "lost")
  /\ UNCHANGED <<people, target, pc, receiver, tries, copies, noting>>

-----------------------------------------------------------------------------
(***************************************************************************)
(* send_appointment_notification                                           *)
(***************************************************************************)
SetNote(d, state) == note' = [note EXCEPT ![d] = state]

\* Message n of a delivery: the channels of the first attendee, then of the next.
Person(d, n)  == Attendees[d][((n - 1) \div Len(Channels)) + 1]
Channel(d, n) == Channels[((n - 1) % Len(Channels)) + 1]

\* The messages for which the payload has an address.  (The code uses whatever
\* email or phone it finds there; that the cloud, which is sent neither, puts none
\* of its own into an event is assumed.)
Planned(d) ==
  {n \in 1..(Len(Attendees[d]) * Len(Channels)) :
     Person(d, n) \in known[d] /\ Channel(d, n) \in Contacts[Person(d, n)]}

\* Variant: one channel per attendee, the others are alternatives.
AheadElsewhere(d) ==
  IF calls[d] = << >> THEN Planned(d)
  ELSE {n \in Planned(d) : /\ n > calls[d][Len(calls[d])]
                           /\ Person(d, n) # Person(d, calls[d][Len(calls[d])])}

\* What is still to do when the loop stands after its last call.
Ahead(d) ==
  IF calls[d] = << >> THEN Planned(d)
  ELSE {n \in Planned(d) : n > calls[d][Len(calls[d])]}

StartNote(d) ==
  /\ note[d] = "queued"
  /\ SetNote(d, "running")
  /\ UNCHANGED <<people, target, pc, receiver, relaying, calls, log, went>>

\* What can become of a call: a provider reports success only for a message it
\* has taken, but its answer may be lost, and every exception counts as failure;
\* without a provider the function returns False.
Called  == {[taken |-> TRUE, success |-> TRUE], [taken |-> TRUE, success |-> FALSE],
            [taken |-> FALSE, success |-> FALSE]}
Skipped == {[taken |-> FALSE, success |-> FALSE]}

SendEmail    == IF Provider["email"] = "smtp" THEN Called ELSE Skipped
SendSms      == IF Provider["sms"] \in {"twilio", "vonage"} THEN Called ELSE Skipped
SendWhatsApp == IF Provider["whatsapp"] \in {"evolution", "meta"} THEN Called ELSE Skipped

Outcomes(channel) == {outcome \in Called : \/ channel = "email"    /\ outcome \in SendEmail
                                           \/ channel = "sms"      /\ outcome \in SendSms
                                           \/ channel = "whatsapp" /\ outcome \in SendWhatsApp}

\* The next message goes to its provider.
Send(d) ==
  /\ note[d] = "running"
  /\ \E n \in Ahead(d) :
       /\ \A m \in Ahead(d) : n <= m
       /\ calls' = [calls EXCEPT ![d] = Append(@, n)]
       /\ \E outcome \in Outcomes(Channel(d, n)) :
            went' = IF outcome.taken THEN went \cup {<<d, n>>} ELSE went
  /\ SetNote(d, "log")
  /\ UNCHANGED <<people, target, pc, receiver, relaying, log>>

Last(d) == calls[d][Len(calls[d])]

\* Its row in notification_log is committed.
WriteLog(d) ==
  /\ note[d] = "log"
  /\ \E outcome \in Outcomes(Channel(d, Last(d))) :
       /\ outcome.taken = (<<d, Last(d)>> \in went)
       /\ log' = [log EXCEPT ![d] =
                    Append(@, [message |-> Last(d),
                               status |-> IF outcome.success THEN "sent" ELSE "failed"])]
  /\ SetNote(d, "running")
  /\ UNCHANGED <<people, target, pc, receiver, relaying, calls, went>>

\* Variant: max_retries=3 takes effect, and the task starts again.
LogFailsAndRetries(d) ==
  /\ note[d] = "log"
  /\ SetNote(d, "queued")
  /\ calls' = [calls EXCEPT ![d] = << >>]
  /\ UNCHANGED <<people, target, pc, receiver, relaying, log, went>>

\* The row cannot be written: the exception ends the task.
LogFails(d) ==
  /\ note[d] = "log"
  /\ SetNote(d, "broken")
  /\ UNCHANGED <<people, target, pc, receiver, relaying, calls, log, went>>

FinishNote(d) ==
  /\ note[d] = "running"
  /\ Ahead(d) = {}
  /\ SetNote(d, "done")
  /\ UNCHANGED <<people, target, pc, receiver, relaying, calls, log, went>>

LoseNote(d) ==
  /\ note[d] \in Held
  /\ SetNote(d, "lost")
  /\ UNCHANGED <<people, target, pc, receiver, relaying, calls, log, went>>

-----------------------------------------------------------------------------
\* forget_person: the row goes; queued payloads and notification_log stay.
Forget(p) ==
  /\ p \in people
  /\ people' = people \ {p}
  /\ UNCHANGED <<target, pc, receiver, relaying, noting>>

\* The person is stored again, by a booking or a person request.
Register(p) ==
  /\ p \notin people
  /\ people' = people \cup {p}
  /\ UNCHANGED <<target, pc, receiver, relaying, noting>>

Receive(d)  == Enrich(d) \/ UpdateStatus(d) \/ QueueRelay(d) \/ QueueNote(d)
Relay(d)    == StartRelay(d) \/ Post(d) \/ Answer(d) \/ Wake(d)
Note(d)     == StartNote(d) \/ Send(d) \/ WriteLog(d) \/ LogFails(d) \/ FinishNote(d)
Fail(d)     == ReceiverCrash(d) \/ LoseRelay(d) \/ LoseNote(d)

Next ==
  \/ \E d \in Deliveries : Receive(d) \/ Relay(d) \/ Note(d) \/ Fail(d)
  \/ \E p \in People : Forget(p) \/ Register(p)

Spec == Init /\ [][Next]_vars

\* A handler that has begun goes on, and so does a worker with a task: requests
\* and the providers' clients time out.  Countdowns end.  Deliveries, erasures
\* and failures just may happen.
Fairness ==
  \A d \in Deliveries :
    /\ WF_vars(UpdateStatus(d) \/ QueueRelay(d) \/ QueueNote(d))
    /\ WF_vars(Relay(d))
    /\ WF_vars(Note(d))

FairSpec == Spec /\ Fairness

-----------------------------------------------------------------------------
(***************************************************************************)
(* Properties                                                              *)
(***************************************************************************)
DispatchTypeOK ==
  /\ people \subseteq People
  /\ target \in BOOLEAN
  /\ pc \in [Deliveries -> {"cloud", "status", "relay", "notify", "accepted", "failed"}]
  /\ known \in [Deliveries -> SUBSET People]
  /\ handled \subseteq Deliveries
  /\ relay \in [Deliveries -> RelayStates]
  /\ tries \in [Deliveries -> 0..MaxRetries]
  /\ copies \in [Deliveries -> 0..(MaxRetries + 2)]
  /\ note \in [Deliveries -> NoteStates]
  /\ calls \in [Deliveries -> Seq(Nat)]
  /\ log \in [Deliveries -> Seq([message : Nat, status : {"sent", "failed"}])]
  /\ went \subseteq Deliveries \X Nat
  /\ erased \in [Deliveries -> SUBSET People]

\* The client's system hears of an event only after the proxy has dealt with
\* it: whoever reacts to the relay by booking meets limits that count it, unless
\* the status update failed (receive_webhook).
RelayAfterStatus == \A d \in Deliveries : copies[d] > 0 => d \in handled

\* However POSTs, answers, retries and workers fail, an event reaches the
\* client's system at most once per attempt, there are at most 1 + MaxRetries
\* attempts, and one that is done has reached it (relay_webhook).
CopiesBounded ==
  \A d \in Deliveries :
    /\ copies[d] <= tries[d] + 1
    /\ relay[d] = "done" => copies[d] > 0
    /\ relay[d] = "gaveup" => tries[d] = MaxRetries

\* Of a delivery no entry of its attendee list gets a message twice on a channel
\* (somebody who is listed twice is two entries), and the log tells what was tried:
\* a row per call, in order, except for a last call the task may have died
\* after; and "sent" only for what was taken (_send_notification).
LoggedOnce ==
  \A d \in Deliveries :
    /\ \A i, j \in DOMAIN calls[d] : i < j => calls[d][i] < calls[d][j]
    /\ Len(log[d]) \in {Len(calls[d]) - 1, Len(calls[d])}
    /\ \A i \in DOMAIN log[d] :
         /\ log[d][i].message = calls[d][i]
         /\ log[d][i].status = "sent" => <<d, calls[d][i]>> \in went

\* A notification task that runs to its end has tried every message it had an
\* address for; only a failure leaves some out, and always the last ones.
NothingSkipped ==
  \A d \in Deliveries :
    /\ note[d] = "done" =>
         Planned(d) = {log[d][i].message : i \in DOMAIN log[d]}
    /\ \A i \in DOMAIN calls[d], n \in Planned(d) :
         n < calls[d][i] => \E j \in DOMAIN calls[d] : calls[d][j] = n

\* Who is erased gets no message from any event that arrives later: what is
\* still sent, and what the log still gets, comes from payloads enriched before.
QuietAfterErasure ==
  \A d \in Deliveries : \A i \in DOMAIN calls[d] : Person(d, calls[d][i]) \notin erased[d]

Carries(d, p) == p \in known[d] /\ (relay[d] \in Held \/ note[d] \in Held)

\* The personal data that queued payloads keep after an erasure goes away:
\* every task ends, because retries are bounded and counted.
PayloadsDrain ==
  \A p \in People : p \notin people ~> \A d \in Deliveries : ~Carries(d, p)

=============================================================================
