-------------------------- MODULE QuestionnaireProofs --------------------------
(***************************************************************************)
(* How stale a classification can be, and that redacted answers read back, *)
(* for any number of bookings, questions and texts, any TTL and any        *)
(* latency.  Two clocks carry the argument: what a cache entry holds is at *)
(* most Latency old when it is made and ages as its time runs down, and    *)
(* what a fetch holds is no older than the fetch.                          *)
(***************************************************************************)
EXTENDS Questionnaire, TLAPS

\* The form itself.
FormInv == \A q \in Questions : form[q] = "choice" => recent[q] = 0

\* A valid cache entry: its age and what is left of its time are within Old.
CacheInv ==
  left > 0 => \A q \in Questions : cache[q] = "choice" => recent[q] + left <= Old

\* The cloud's answer to a fetch under way.
FetchInv ==
  \A b \in Bookings, q \in Questions :
    pc[b] = "fetched" /\ fetched[b][q] = "choice" => recent[q] <= age[b]

\* No question is both in clear and redacted, or redacted twice.
SplitInv ==
  \A b \in Bookings :
    \A a, c \in clear[b] \cup pending[b] : a.question = c.question => a = c

\* The two are apart.
ApartInv == \A b \in Bookings : clear[b] \cap pending[b] = {}

IInv == FormTypeOK /\ FormInv /\ CacheInv /\ FetchInv /\ SplitInv /\ ApartInv

\* What classifying an answer leaves: types and the split.
LEMMA ClassifyKeeps ==
  ASSUME IInv, NEW b \in Bookings, NEW types \in [Questions -> Types], Classify(b, types)
  PROVE  /\ pc' = [pc EXCEPT ![b] = "forward"]
         /\ age' = [age EXCEPT ![b] = 0]
         /\ fetched' = [fetched EXCEPT ![b] = NoForm]
         /\ clear' \in [Bookings -> SUBSET Answers]
         /\ pending' \in [Bookings -> SUBSET Answers]
         /\ SplitInv' /\ ApartInv'
         /\ \A a \in clear'[b] : types[a.question] = "choice"
<1>1. PICK given \in Answered :
        /\ clear' = [clear EXCEPT ![b] = {a \in given : ~IsPII(types, a)}]
        /\ pending' = [pending EXCEPT ![b] = {a \in given : IsPII(types, a)}]
  BY DEF Classify
<1>2. given \subseteq Answers /\ \A a, c \in given : a.question = c.question => a = c
  BY DEF Answered
<1>3. clear \in [Bookings -> SUBSET Answers] /\ pending \in [Bookings -> SUBSET Answers]
  BY DEF IInv, FormTypeOK
<1>4. clear' \in [Bookings -> SUBSET Answers] /\ pending' \in [Bookings -> SUBSET Answers]
  BY <1>1, <1>2, <1>3
<1>5. clear'[b] \cup pending'[b] \subseteq given /\ clear'[b] \cap pending'[b] = {}
  BY <1>1, <1>3
<1>6. \A x \in Bookings \ {b} : clear'[x] = clear[x] /\ pending'[x] = pending[x]
  BY <1>1, <1>3
<1>7. SplitInv'
  BY <1>2, <1>5, <1>6 DEF SplitInv, IInv
<1>8. ApartInv'
  BY <1>5, <1>6 DEF ApartInv, IInv
<1>9. \A a \in clear'[b] : types[a.question] = "choice"
  BY <1>1, <1>3 DEF IsPII
<1> QED
  BY <1>4, <1>7, <1>8, <1>9 DEF Classify

LEMMA NoFormType == NoForm \in [Questions -> Types]
  BY DEF NoForm, Types

LEMMA InitInv == Init => IInv
  BY TimesAssumption DEF Init, IInv, FormTypeOK, FormInv, CacheInv, FetchInv, SplitInv, ApartInv,
     NoForm, Types, Old

\* A classification that leaves clock and cache alone.
LEMMA UncachedKeeps ==
  ASSUME IInv, NEW b \in Bookings, NEW types \in [Questions -> Types],
         Classify(b, types), UNCHANGED <<clock, entry>>
  PROVE  IInv'
<1>1. /\ pc' = [pc EXCEPT ![b] = "forward"]
      /\ age' = [age EXCEPT ![b] = 0]
      /\ fetched' = [fetched EXCEPT ![b] = NoForm]
      /\ clear' \in [Bookings -> SUBSET Answers]
      /\ pending' \in [Bookings -> SUBSET Answers]
      /\ SplitInv' /\ ApartInv'
  BY ClassifyKeeps
<1>2. FormTypeOK'
  BY <1>1, NoFormType, TimesAssumption DEF IInv, FormTypeOK, clock, entry
<1>3. FormInv' /\ CacheInv'
  BY DEF IInv, FormInv, CacheInv, clock, entry
<1>4. FetchInv'
  BY <1>1 DEF IInv, FormTypeOK, FetchInv, clock
<1> QED
  BY <1>1, <1>2, <1>3, <1>4 DEF IInv

LEMMA BeginKeeps ==
  ASSUME IInv, NEW b \in Bookings, Begin(b)
  PROVE  IInv'
<1>1. CASE Classify(b, NoForm)
  BY <1>1, NoFormType, UncachedKeeps DEF Begin
<1>2. CASE Classify(b, cache)
  <2>1. cache \in [Questions -> Types]
    BY DEF IInv, FormTypeOK
  <2> QED
    BY <1>2, <2>1, UncachedKeeps DEF Begin
<1>3. CASE pc' = [pc EXCEPT ![b] = "fetch"] /\ UNCHANGED <<fetched, age, clear, pending>>
  <2>1. FormTypeOK'
    BY <1>3 DEF Begin, IInv, FormTypeOK, clock, entry
  <2>2. FormInv' /\ CacheInv' /\ FetchInv'
    BY <1>3 DEF Begin, IInv, FormTypeOK, FormInv, CacheInv, FetchInv, clock, entry
  <2>3. SplitInv' /\ ApartInv'
    BY <1>3 DEF IInv, SplitInv, ApartInv
  <2> QED
    BY <2>1, <2>2, <2>3 DEF IInv
<1> QED
  BY <1>1, <1>2, <1>3 DEF Begin

LEMMA CloudFormKeeps ==
  ASSUME IInv, NEW b \in Bookings, CloudForm(b)
  PROVE  IInv'
<1>1. PICK types \in {form, NoForm} : fetched' = [fetched EXCEPT ![b] = types]
  BY DEF CloudForm
<1>2. types \in [Questions -> Types]
  BY NoFormType DEF IInv, FormTypeOK
<1>3. FormTypeOK'
  BY <1>1, <1>2 DEF CloudForm, IInv, FormTypeOK, clock, entry
<1>4. FormInv' /\ CacheInv'
  BY DEF CloudForm, IInv, FormInv, CacheInv, clock, entry
<1>5. FetchInv'
  <2>1. \A q \in Questions : types[q] = "choice" => recent[q] = 0
    BY DEF IInv, FormInv, NoForm
  <2>2. age[b] \in Nat
    BY TimesAssumption DEF IInv, FormTypeOK
  <2> QED
    BY <1>1, <2>1, <2>2 DEF CloudForm, IInv, FormTypeOK, FetchInv, clock
<1>6. SplitInv' /\ ApartInv'
  BY DEF CloudForm, IInv, SplitInv, ApartInv
<1> QED
  BY <1>3, <1>4, <1>5, <1>6 DEF IInv

LEMMA CompleteFetchKeeps ==
  ASSUME IInv, NEW b \in Bookings, CompleteFetch(b)
  PROVE  IInv'
<1>1. fetched[b] \in [Questions -> Types] /\ Classify(b, fetched[b])
  BY DEF CompleteFetch, IInv, FormTypeOK
<1>2. /\ pc' = [pc EXCEPT ![b] = "forward"]
      /\ age' = [age EXCEPT ![b] = 0]
      /\ fetched' = [fetched EXCEPT ![b] = NoForm]
      /\ clear' \in [Bookings -> SUBSET Answers]
      /\ pending' \in [Bookings -> SUBSET Answers]
      /\ SplitInv' /\ ApartInv'
  BY <1>1, ClassifyKeeps
<1>3. FormTypeOK'
  BY <1>1, <1>2, NoFormType, TimesAssumption DEF CompleteFetch, IInv, FormTypeOK, clock
<1>4. FormInv'
  BY DEF CompleteFetch, IInv, FormInv, clock
<1>5. CacheInv'
  <2>1. \A q \in Questions : fetched[b][q] = "choice" => recent[q] <= Latency
    BY TimesAssumption DEF CompleteFetch, IInv, FormTypeOK, FetchInv, Old
  <2> QED
    BY <2>1, TimesAssumption DEF CompleteFetch, IInv, FormTypeOK, CacheInv, Old, clock
<1>6. FetchInv'
  BY <1>2 DEF CompleteFetch, IInv, FormTypeOK, FetchInv, clock
<1> QED
  BY <1>2, <1>3, <1>4, <1>5, <1>6 DEF IInv

LEMMA FetchFailsKeeps ==
  ASSUME IInv, NEW b \in Bookings, FetchFails(b)
  PROVE  IInv'
  BY NoFormType, UncachedKeeps DEF FetchFails

LEMMA AbortKeeps ==
  ASSUME IInv, NEW b \in Bookings, Abort(b)
  PROVE  IInv'
<1>1. FormTypeOK'
  BY NoFormType, TimesAssumption DEF Abort, IInv, FormTypeOK, clock, entry
<1>2. FormInv' /\ CacheInv' /\ FetchInv'
  BY DEF Abort, IInv, FormTypeOK, FormInv, CacheInv, FetchInv, clock, entry
<1>3. SplitInv' /\ ApartInv'
  BY DEF Abort, IInv, SplitInv, ApartInv
<1> QED
  BY <1>1, <1>2, <1>3 DEF IInv

LEMMA FinishKeeps ==
  ASSUME IInv, NEW b \in Bookings, Finish(b)
  PROVE  IInv'
<1>1. FormTypeOK'
  BY DEF Finish, IInv, FormTypeOK, clock, entry
<1>2. FormInv' /\ CacheInv' /\ FetchInv'
  BY DEF Finish, IInv, FormTypeOK, FormInv, CacheInv, FetchInv, clock, entry
<1>3. SplitInv' /\ ApartInv'
  BY DEF Finish, IInv, FormTypeOK, SplitInv, ApartInv
<1> QED
  BY <1>1, <1>2, <1>3 DEF IInv

LEMMA EditKeeps ==
  ASSUME IInv, NEW q \in Questions, NEW type \in Types, Edit(q, type)
  PROVE  IInv'
<1>1. FormTypeOK'
  BY TimesAssumption DEF Edit, IInv, FormTypeOK, entry, request, Old
<1>2. FormInv'
  BY DEF Edit, IInv, FormTypeOK, FormInv
<1>3. \A x \in Questions : recent'[x] = recent[x] \/ recent'[x] = 0
  BY DEF Edit, IInv, FormTypeOK
<1>4. CacheInv'
  BY <1>3, TimesAssumption DEF Edit, IInv, FormTypeOK, CacheInv, entry, Old
<1>5. FetchInv'
  BY <1>3, TimesAssumption DEF Edit, IInv, FormTypeOK, FetchInv, request
<1>6. SplitInv' /\ ApartInv'
  BY DEF Edit, IInv, SplitInv, ApartInv, request
<1> QED
  BY <1>1, <1>2, <1>4, <1>5, <1>6 DEF IInv

LEMMA TickKeeps ==
  ASSUME IInv, Tick
  PROVE  IInv'
<1>1. FormTypeOK'
  <2>1. age' \in [Bookings -> 0..Latency]
    BY TimesAssumption DEF Tick, IInv, FormTypeOK
  <2>2. recent' \in [Questions -> 0..Old]
    <3>1. Old \in Nat
      BY TimesAssumption DEF Old
    <3>2. \A n \in 0..Old : n # Old => n + 1 \in 0..Old
      BY <3>1
    <3>3. recent \in [Questions -> 0..Old]
      BY DEF IInv, FormTypeOK
    <3> QED
      BY <3>2, <3>3 DEF Tick
  <2>3. left' \in 0..TTL
    BY TimesAssumption DEF Tick, IInv, FormTypeOK
  <2> QED
    BY <2>1, <2>2, <2>3 DEF Tick, IInv, FormTypeOK
<1>2. FormInv'
  BY DEF Tick, IInv, FormTypeOK, FormInv
<1>3. \A q \in Questions : recent'[q] \in Nat /\ recent'[q] <= recent[q] + 1
  BY TimesAssumption DEF Tick, IInv, FormTypeOK, Old
<1>4. CacheInv'
  BY <1>3, TimesAssumption DEF Tick, IInv, FormTypeOK, CacheInv, Old
<1>5. FetchInv'
  BY <1>3, TimesAssumption DEF Tick, IInv, FormTypeOK, FetchInv, Fetching, Old
<1>6. SplitInv' /\ ApartInv'
  BY DEF Tick, IInv, SplitInv, ApartInv
<1> QED
  BY <1>1, <1>2, <1>4, <1>5, <1>6 DEF IInv

LEMMA NextInv == IInv /\ [Next]_vars => IInv'
<1> SUFFICES ASSUME IInv, [Next]_vars
             PROVE  IInv'
  OBVIOUS
<1>1. ASSUME NEW b \in Bookings, Begin(b) \/ CloudForm(b) \/ CompleteFetch(b)
      PROVE  IInv'
  BY <1>1, BeginKeeps, CloudFormKeeps, CompleteFetchKeeps
<1>2. ASSUME NEW b \in Bookings, FetchFails(b) \/ Abort(b) \/ Finish(b)
      PROVE  IInv'
  BY <1>2, FetchFailsKeeps, AbortKeeps, FinishKeeps
<1>3. ASSUME NEW q \in Questions, NEW type \in Types, Edit(q, type)
      PROVE  IInv'
  BY <1>3, EditKeeps
<1>4. CASE Tick
  BY <1>4, TickKeeps
<1>5. CASE UNCHANGED vars
  BY <1>5 DEF vars, clock, entry, request, IInv, FormTypeOK, FormInv, CacheInv, FetchInv,
     SplitInv, ApartInv
<1> QED
  BY <1>1, <1>2, <1>3, <1>4, <1>5 DEF Next

\* Every variable keeps its type: no fetch outlives its time-out, no entry its
\* time (QuestionnaireProcessor).
THEOREM TypeCorrect == Spec => []FormTypeOK
<1>1. IInv => FormTypeOK
  BY DEF IInv
<1> QED
  BY <1>1, InitInv, NextInv, PTL DEF Spec

\* A booking is classified by no form, by a valid entry, or by the answer to its
\* own fetch.
LEMMA StepIsRecent ==
  ASSUME IInv, [Next]_vars, NEW b \in Bookings, pc[b] # "forward", pc'[b] = "forward",
         NEW a \in clear'[b]
  PROVE  recent[a.question] < Old
<1>1. ASSUME NEW types \in [Questions -> Types], Classify(b, types)
      PROVE  a.question \in Questions /\ types[a.question] = "choice"
  <2>1. clear' \in [Bookings -> SUBSET Answers]
    BY <1>1, ClassifyKeeps
  <2> QED
    BY <1>1, <2>1, ClassifyKeeps DEF Answers
<1>2. ~Classify(b, NoForm)
  BY <1>1, NoFormType DEF NoForm
<1>3. CASE Cached /\ Classify(b, cache)
  <2>1. cache \in [Questions -> Types]
    BY DEF IInv, FormTypeOK
  <2>2. a.question \in Questions /\ cache[a.question] = "choice" /\ left > 0
    BY <1>1, <1>3, <2>1 DEF Cached
  <2> QED
    BY <2>2, TimesAssumption DEF IInv, CacheInv, FormTypeOK, Old
<1>4. CASE CompleteFetch(b)
  <2>1. fetched[b] \in [Questions -> Types]
    BY DEF IInv, FormTypeOK
  <2>2. a.question \in Questions /\ fetched[b][a.question] = "choice" /\ pc[b] = "fetched"
    BY <1>1, <1>4, <2>1 DEF CompleteFetch
  <2> QED
    BY <2>2, TimesAssumption DEF IInv, FetchInv, FormTypeOK, Old
<1>5. ASSUME NEW c \in Bookings, CloudForm(c) \/ Abort(c) \/ Finish(c)
      PROVE  FALSE
  BY <1>5 DEF CloudForm, Abort, Finish, IInv, FormTypeOK
<1>6. ASSUME NEW c \in Bookings, c # b, Begin(c) \/ CompleteFetch(c) \/ FetchFails(c)
      PROVE  FALSE
  BY <1>6 DEF Begin, CompleteFetch, FetchFails, Classify, IInv, FormTypeOK
<1>7. ~(\E q \in Questions, type \in Types : Edit(q, type)) /\ ~Tick /\ ~UNCHANGED vars
  BY DEF Edit, Tick, vars, request
<1>8. CASE Begin(b)
  <2>1. pc' # [pc EXCEPT ![b] = "fetch"]
    BY DEF IInv, FormTypeOK
  <2> QED
    BY <1>2, <1>3, <1>8, <2>1 DEF Begin
<1>9. CASE FetchFails(b)
  BY <1>2, <1>9 DEF FetchFails
<1> QED
  BY <1>4, <1>5, <1>6, <1>7, <1>8, <1>9 DEF Next

\* For any TTL and latency an answer leaves in clear only if its question was of
\* another type less than TTL + Latency ago (_resolve_types, redact_outbound).
THEOREM StaleNoLonger == Spec => ClearIsRecent
<1>1. IInv /\ [Next]_vars =>
        [\A b \in Bookings :
           pc[b] # "forward" /\ pc'[b] = "forward"
             => \A a \in clear'[b] : recent[a.question] < Old]_vars
  BY StepIsRecent
<1> QED
  BY <1>1, InitInv, NextInv, PTL DEF Spec, ClearIsRecent

LEMMA BackFromSplit == IInv => ReadsBack
<1> SUFFICES ASSUME IInv, NEW b \in Bookings, NEW a \in clear[b] \cup pending[b]
             PROVE  Restored(b, Sent(b, a)) = {a.body}
  BY DEF ReadsBack
<1> DEFINE matching(x) == {r \in pending[b] : Token(r.question) = x}
<1>1. clear[b] \subseteq Answers /\ pending[b] \subseteq Answers
  BY DEF IInv, FormTypeOK
<1>2. CASE a \in clear[b]
  <2>1. a.body \in Texts /\ \A r \in pending[b] : Token(r.question) \notin Texts
    BY <1>1, <1>2, TextsAssumption DEF Answers
  <2>2. Sent(b, a) = a.body /\ matching(a.body) = {}
    BY <1>2, <2>1 DEF Sent
  <2> QED
    BY <2>2 DEF Restored
<1>3. CASE a \notin clear[b]
  <2>1. Sent(b, a) = Token(a.question)
    BY <1>3 DEF Sent
  <2>2. \A r \in pending[b] : Token(r.question) = Token(a.question) => r.question = a.question
    BY DEF Token
  <2>3. matching(Token(a.question)) = {a}
    BY <1>3, <2>2 DEF IInv, SplitInv
  <2> QED
    BY <2>1, <2>3 DEF Restored
<1> QED
  BY <1>2, <1>3

\* A booking's answers read back as they were sent, whichever of them were
\* redacted (redact_outbound, enrich_appointment).
THEOREM AnswersReadBack == Spec => []ReadsBack
  BY BackFromSplit, InitInv, NextInv, PTL DEF Spec

=============================================================================
