----------------------------- MODULE Questionnaire -----------------------------
(***************************************************************************)
(* QuestionnaireProcessor and the enricher's half of it.  The answers of a *)
(* booking are classified by the types in the calendar's form, which is    *)
(* fetched from the cloud and kept in a cache of the process; what may be  *)
(* personal is replaced by a token and stored under the appointment's key; *)
(* a read puts the stored answer back where the cloud has the token.       *)
(*                                                                         *)
(* One process and one calendar: caches and forms of others are apart.     *)
(***************************************************************************)
EXTENDS Integers, FiniteSets

CONSTANTS Bookings,  \* requests that carry answers
          Questions, \* question keys
          Texts,     \* what an answer's body can be
          TTL,       \* _FORM_TTL_SECONDS, in ticks
          Latency    \* a fetch of the form ends within so many ticks

\* A type in pii_types, another type, or no such question in the form.
Types   == {"text", "choice", "absent"}
NoForm  == [q \in Questions |-> "absent"]
Answers == [question : Questions, body : Texts]

\* What a booking carries: no question twice, each with a key and a body.
\* (An answer without either is passed on as it is.)
Answered == {given \in SUBSET Answers :
               \A a, c \in given : a.question = c.question => a = c}

\* From this many ticks on, it no longer matters how long ago something was.
Old     == TTL + Latency

VARIABLES
  form,     \* the cloud's form: question -> type
  recent,   \* history: ticks since a question was last of another type, up to Old
  left,     \* ticks until the cache entry expires; 0 when there is none
  cache,    \* the types it holds
  pc,       \* where each booking stands
  fetched,  \* the form the cloud has answered it with
  age,      \* ticks its fetch has taken
  clear,    \* the answers it forwards as they are
  pending   \* the answers it redacts, to be stored under its appointment's key

clock   == <<form, recent>>
entry   == <<left, cache>>
request == <<pc, fetched, age, clear, pending>>
vars    == <<clock, entry, request>>

ASSUME TimesAssumption == TTL \in Nat \ {0} /\ Latency \in Nat

Init ==
  /\ form \in [Questions -> Types]
  /\ recent = [q \in Questions |-> IF form[q] = "choice" THEN 0 ELSE Old]
  /\ left = 0
  /\ cache = NoForm
  /\ pc = [b \in Bookings |-> "idle"]
  /\ fetched = [b \in Bookings |-> NoForm]
  /\ age = [b \in Bookings |-> 0]
  /\ clear = [b \in Bookings |-> {}]
  /\ pending = [b \in Bookings |-> {}]

-----------------------------------------------------------------------------
\* Fail-safe: a question the form does not have is treated as personal.
IsPII(types, a) == types[a.question] # "choice"

\* Variant: the bare placeholder.
BareToken(q) == <<"[REDACTED]">>

\* _token: the placeholder and the question's key.
Token(q) == <<"[REDACTED]", q>>

\* No answer looks like a token.
ASSUME TextsAssumption == \A q \in Questions : Token(q) \notin Texts

\* redact_outbound, once the types are known.
Classify(b, types) ==
  /\ \E given \in Answered :
       /\ clear' = [clear EXCEPT ![b] = {a \in given : ~IsPII(types, a)}]
       /\ pending' = [pending EXCEPT ![b] = {a \in given : IsPII(types, a)}]
  /\ pc' = [pc EXCEPT ![b] = "forward"]
  /\ age' = [age EXCEPT ![b] = 0]
  /\ fetched' = [fetched EXCEPT ![b] = NoForm]

\* Variant: an entry is used until it is replaced.
CachedForEver == cache # NoForm

Cached == left > 0

\* A booking comes to redact_outbound.  Without a calendar_key every question is
\* unknown; with a valid cache entry the form is not fetched.
Begin(b) ==
  /\ pc[b] = "idle"
  /\ \/ Classify(b, NoForm)
     \/ Cached /\ Classify(b, cache)
     \/ /\ ~Cached
        /\ pc' = [pc EXCEPT ![b] = "fetch"]
        /\ UNCHANGED <<fetched, age, clear, pending>>
  /\ UNCHANGED <<clock, entry>>

\* The cloud answers the GET with its form, or with something else than 200.
CloudForm(b) ==
  /\ pc[b] = "fetch"
  /\ \E types \in {form, NoForm} : fetched' = [fetched EXCEPT ![b] = types]
  /\ pc' = [pc EXCEPT ![b] = "fetched"]
  /\ UNCHANGED <<clock, entry, age, clear, pending>>

\* The answer arrives: it replaces whatever other bookings have cached since.
CompleteFetch(b) ==
  /\ pc[b] = "fetched"
  /\ left' = TTL
  /\ cache' = fetched[b]
  /\ Classify(b, fetched[b])
  /\ UNCHANGED clock

\* The request fails or its answer cannot be read: nothing is cached.
FetchFails(b) ==
  /\ pc[b] \in {"fetch", "fetched"}
  /\ Classify(b, NoForm)
  /\ UNCHANGED <<clock, entry>>

\* The client disconnects during the fetch.
Abort(b) ==
  /\ pc[b] \in {"fetch", "fetched"}
  /\ pc' = [pc EXCEPT ![b] = "idle"]
  /\ age' = [age EXCEPT ![b] = 0]
  /\ fetched' = [fetched EXCEPT ![b] = NoForm]
  /\ UNCHANGED <<clock, entry, clear, pending>>

\* The appointment is created and the answers stored (Appointments has the
\* steps), or the booking fails.
Finish(b) ==
  /\ pc[b] = "forward"
  /\ pc' = [pc EXCEPT ![b] = "idle"]
  /\ clear' = [clear EXCEPT ![b] = {}]
  /\ pending' = [pending EXCEPT ![b] = {}]
  /\ UNCHANGED <<clock, entry, fetched, age>>

-----------------------------------------------------------------------------
\* The calendar's owner edits the form in the cloud.
Edit(q, type) ==
  /\ form[q] # type
  /\ form' = [form EXCEPT ![q] = type]
  /\ recent' = [recent EXCEPT ![q] = IF "choice" \in {type, form[q]} THEN 0 ELSE @]
  /\ UNCHANGED <<entry, request>>

Fetching(b) == pc[b] \in {"fetch", "fetched"}

\* Variant: an http client without a time-out.
TickOn ==
  /\ age' = [b \in Bookings |-> IF Fetching(b) THEN age[b] + 1 ELSE age[b]]
  /\ left' = IF left > 0 THEN left - 1 ELSE 0
  /\ recent' = [q \in Questions |-> IF form[q] = "choice" \/ recent[q] = Old
                                    THEN recent[q] ELSE recent[q] + 1]
  /\ UNCHANGED <<form, cache, pc, fetched, clear, pending>>

\* Time passes; no fetch takes longer than the client's time-out lets it.
Tick ==
  /\ \A b \in Bookings : Fetching(b) => age[b] < Latency
  /\ age' = [b \in Bookings |-> IF Fetching(b) THEN age[b] + 1 ELSE age[b]]
  /\ left' = IF left > 0 THEN left - 1 ELSE 0
  /\ recent' = [q \in Questions |-> IF form[q] = "choice" \/ recent[q] = Old
                                    THEN recent[q] ELSE recent[q] + 1]
  /\ UNCHANGED <<form, cache, pc, fetched, clear, pending>>

Next ==
  \/ \E b \in Bookings : \/ Begin(b) \/ CloudForm(b) \/ CompleteFetch(b)
                         \/ FetchFails(b) \/ Abort(b) \/ Finish(b)
  \/ \E q \in Questions, type \in Types : Edit(q, type)
  \/ Tick

Spec == Init /\ [][Next]_vars

-----------------------------------------------------------------------------
(***************************************************************************)
(* Properties                                                              *)
(***************************************************************************)
FormTypeOK ==
  /\ form \in [Questions -> Types]
  /\ recent \in [Questions -> 0..Old]
  /\ left \in 0..TTL
  /\ cache \in [Questions -> Types]
  /\ pc \in [Bookings -> {"idle", "fetch", "fetched", "forward"}]
  /\ fetched \in [Bookings -> [Questions -> Types]]
  /\ age \in [Bookings -> 0..Latency]
  /\ clear \in [Bookings -> SUBSET Answers]
  /\ pending \in [Bookings -> SUBSET Answers]

\* An answer is forwarded in clear only if its question had a type that is not
\* personal less than TTL + Latency ago, in whatever order overlapping fetches
\* fill the cache, fail and expire: a stale entry has that much effect and no
\* more (_resolve_types, redact_outbound).
ClearIsRecent ==
  [][\A b \in Bookings :
       pc[b] # "forward" /\ pc'[b] = "forward"
         => \A a \in clear'[b] : recent[a.question] < Old]_vars

\* What the cloud has for an answer.
Sent(b, a) == IF a \in clear[b] THEN a.body ELSE Token(a.question)

\* What enrich_appointment may make of it: a stored answer with that token.
Restored(b, x) ==
  LET matching == {r \in pending[b] : Token(r.question) = x}
  IN  IF matching = {} THEN {x} ELSE {r.body : r \in matching}

\* With its answers stored, a booking reads back as it was sent, whichever of
\* them were redacted (QuestionnaireProcessor and PIIEnricher together).
ReadsBack ==
  \A b \in Bookings : \A a \in clear[b] \cup pending[b] : Restored(b, Sent(b, a)) = {a.body}

=============================================================================
