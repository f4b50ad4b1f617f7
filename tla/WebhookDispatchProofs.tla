------------------------- MODULE WebhookDispatchProofs -------------------------
(***************************************************************************)
(* For any number of deliveries, attendees, channels and retries.  The     *)
(* relay and the notification of a delivery do not meet, so the invariant  *)
(* has a part for each: how many copies a relay task in some state can     *)
(* have made, and which messages a notification task in some state has     *)
(* tried and logged.                                                       *)
(***************************************************************************)
EXTENDS WebhookDispatch, TLAPS

RelayInv(d) ==
  /\ pc[d] \in {"relay", "notify", "accepted"} => d \in handled
  /\ pc[d] \in {"cloud", "status", "relay"} => relay[d] = "none"
  /\ relay[d] # "none" => d \in handled
  /\ relay[d] = "none" => copies[d] = 0 /\ tries[d] = 0
  /\ relay[d] \in {"queued", "running", "waiting"} => copies[d] <= tries[d]
  /\ relay[d] \in {"posted", "done"} => copies[d] > 0
  /\ relay[d] = "gaveup" => tries[d] = MaxRetries
  /\ copies[d] <= tries[d] + 1

\* The calls are the planned messages up to the last call, in order.
CallsInv(d) ==
  /\ \A i, j \in 1..Len(calls[d]) : i < j => calls[d][i] < calls[d][j]
  /\ \A i \in 1..Len(calls[d]) : calls[d][i] \in Planned(d)
  /\ \A i \in 1..Len(calls[d]) : \A n \in Planned(d) :
       n < calls[d][i] => \E j \in 1..Len(calls[d]) : calls[d][j] = n

\* The log follows the calls.
LogInv(d) ==
  /\ note[d] \in {"none", "queued", "running", "done"} => Len(log[d]) = Len(calls[d])
  /\ note[d] = "log" => Len(log[d]) = Len(calls[d]) - 1
  /\ Len(log[d]) \in {Len(calls[d]) - 1, Len(calls[d])}
  /\ \A i \in 1..Len(log[d]) : /\ log[d][i].message = calls[d][i]
                               /\ log[d][i].status = "sent" => <<d, calls[d][i]>> \in went

DoneInv(d) ==
  note[d] = "done" => Planned(d) \subseteq {calls[d][i] : i \in 1..Len(calls[d])}

NoteInv(d) ==
  /\ pc[d] \in {"cloud", "status", "relay", "notify"} => note[d] = "none"
  /\ note[d] \in {"none", "queued"} => calls[d] = << >>
  /\ CallsInv(d) /\ LogInv(d) /\ DoneInv(d)

\* An enriched payload has nothing of whom was erased before.
ErasedInv(d) == known[d] \cap erased[d] = {}

IInv ==
  /\ DispatchTypeOK
  /\ \A d \in Deliveries : RelayInv(d) /\ NoteInv(d) /\ ErasedInv(d)

-----------------------------------------------------------------------------
(***************************************************************************)
(* What a step that leaves one side alone leaves of the invariant          *)
(***************************************************************************)
LEMMA RelayUntouched ==
  ASSUME NEW d \in Deliveries, RelayInv(d), pc'[d] = pc[d], handled' = handled,
         UNCHANGED relaying
  PROVE  RelayInv(d)'
  BY DEF RelayInv, relaying

LEMMA NoteUntouched ==
  ASSUME NEW d \in Deliveries, NoteInv(d), known'[d] = known[d], UNCHANGED noting,
         pc'[d] = pc[d] \/ pc'[d] \in {"accepted", "failed"} \/ note[d] = "none"
  PROVE  NoteInv(d)'
<1>1. Planned(d)' = Planned(d)
  BY DEF Planned
<1> QED
  BY <1>1 DEF NoteInv, CallsInv, LogInv, DoneInv, noting

\* The receiver's steps leave the tasks' records alone.
LEMMA ReceiverTypes ==
  ASSUME IInv, NEW d \in Deliveries, Receive(d) \/ ReceiverCrash(d)
  PROVE  DispatchTypeOK'
<1>1. CASE Enrich(d)
  <2>1. KnownNow(d) \subseteq People /\ People \ people \subseteq People
    BY DEF KnownNow, IInv, DispatchTypeOK
  <2> QED
    BY <1>1, <2>1 DEF Enrich, IInv, DispatchTypeOK, relaying, noting
<1>2. CASE UpdateStatus(d)
  BY <1>2 DEF UpdateStatus, IInv, DispatchTypeOK, relaying, noting
<1>3. CASE QueueRelay(d)
  BY <1>3 DEF QueueRelay, IInv, DispatchTypeOK, RelayStates, receiver, noting
<1>4. CASE QueueNote(d)
  BY <1>4 DEF QueueNote, IInv, DispatchTypeOK, NoteStates, receiver, relaying
<1>5. CASE ReceiverCrash(d)
  BY <1>5 DEF ReceiverCrash, IInv, DispatchTypeOK, receiver, relaying, noting
<1> QED
  BY <1>1, <1>2, <1>3, <1>4, <1>5 DEF Receive

LEMMA ReceiverKeeps ==
  ASSUME IInv, NEW d \in Deliveries, Receive(d) \/ ReceiverCrash(d), NEW e \in Deliveries
  PROVE  RelayInv(e)' /\ NoteInv(e)' /\ ErasedInv(e)'
<1>1. RelayInv(e) /\ NoteInv(e) /\ ErasedInv(e) /\ DispatchTypeOK
  BY DEF IInv
<1>2. CASE Enrich(d)
  <2>1. pc[d] = "cloud" /\ pc' = [pc EXCEPT ![d] = "status"] /\ UNCHANGED <<handled, relaying, noting>>
        /\ known' = [known EXCEPT ![d] = KnownNow(d)]
        /\ erased' = [erased EXCEPT ![d] = People \ people]
    BY <1>2 DEF Enrich
  <2>2. RelayInv(e)'
    BY <1>1, <2>1 DEF RelayInv, relaying, DispatchTypeOK
  <2>3. NoteInv(e)'
    <3>1. CASE e = d
      <4>1. note[e] = "none" /\ calls[e] = << >> /\ Len(log[e]) = 0
        BY <1>1, <2>1, <3>1 DEF NoteInv, LogInv
      <4> QED
        BY <1>1, <2>1, <4>1 DEF NoteInv, CallsInv, LogInv, DoneInv, noting
    <3>2. CASE e # d
      BY <1>1, <2>1, <3>2, NoteUntouched DEF DispatchTypeOK
    <3> QED
      BY <3>1, <3>2
  <2>4. ErasedInv(e)'
    BY <1>1, <2>1 DEF ErasedInv, KnownNow, DispatchTypeOK
  <2> QED
    BY <2>2, <2>3, <2>4
<1>3. CASE UpdateStatus(d) \/ ReceiverCrash(d)
  <2>1. /\ UNCHANGED <<known, erased, relaying, noting>>
        /\ \/ pc'[e] = pc[e]
           \/ pc[e] = "status" /\ pc'[e] = "relay" /\ e \in handled'
           \/ pc'[e] = "failed"
        /\ handled \subseteq handled'
    BY <1>1, <1>3 DEF UpdateStatus, ReceiverCrash, receiver, DispatchTypeOK
  <2>2. RelayInv(e)'
    BY <1>1, <2>1 DEF RelayInv, relaying
  <2>3. NoteInv(e)'
    BY <1>1, <2>1, NoteUntouched DEF NoteInv
  <2> QED
    BY <1>1, <2>1, <2>2, <2>3 DEF ErasedInv
<1>4. CASE QueueRelay(d)
  <2>1. /\ UNCHANGED <<known, handled, erased, tries, copies, noting>>
        /\ \/ pc'[e] = pc[e] /\ relay'[e] = relay[e]
           \/ pc[e] = "relay" /\ pc'[e] \in {"notify", "accepted"} /\ relay'[e] \in {"queued", relay[e]}
    BY <1>1, <1>4 DEF QueueRelay, receiver, DispatchTypeOK
  <2>2. RelayInv(e)'
    BY <1>1, <2>1 DEF RelayInv
  <2>3. NoteInv(e)'
    BY <1>1, <2>1, NoteUntouched DEF NoteInv
  <2> QED
    BY <1>1, <2>1, <2>2, <2>3 DEF ErasedInv
<1>5. CASE QueueNote(d)
  <2>1. /\ UNCHANGED <<known, handled, erased, relaying, calls, log, went>>
        /\ \/ pc'[e] = pc[e] /\ note'[e] = note[e]
           \/ pc[e] = "notify" /\ pc'[e] = "accepted" /\ note'[e] \in {"queued", note[e]}
    BY <1>1, <1>5 DEF QueueNote, receiver, DispatchTypeOK
  <2>2. RelayInv(e)'
    BY <1>1, <2>1 DEF RelayInv, relaying
  <2>3. Planned(e)' = Planned(e)
    BY <2>1 DEF Planned
  <2>4. NoteInv(e)'
    BY <1>1, <2>1, <2>3 DEF NoteInv, CallsInv, LogInv, DoneInv
  <2> QED
    BY <1>1, <2>1, <2>2, <2>4 DEF ErasedInv
<1> QED
  BY <1>2, <1>3, <1>4, <1>5 DEF Receive

-----------------------------------------------------------------------------
(***************************************************************************)
(* The relay                                                               *)
(***************************************************************************)
LEMMA RetryCases ==
  ASSUME IInv, NEW d \in Deliveries, RetryRelay(d)
  PROVE  /\ \E state \in {"waiting", "lost", "gaveup"} : SetRelay(d, state)
         /\ \E n \in 0..MaxRetries : tries' = [tries EXCEPT ![d] = n] /\ n >= tries[d]
         /\ relay'[d] = "waiting" => tries'[d] = tries[d] + 1
         /\ relay'[d] = "gaveup" => tries'[d] = MaxRetries
<1>1. tries[d] \in 0..MaxRetries /\ tries \in [Deliveries -> 0..MaxRetries]
      /\ relay \in [Deliveries -> RelayStates]
  BY DEF IInv, DispatchTypeOK
<1>2. tries = [tries EXCEPT ![d] = tries[d]]
  BY <1>1
<1>3. CASE tries[d] < MaxRetries /\ SetRelay(d, "waiting") /\ tries' = [tries EXCEPT ![d] = @ + 1]
  <2>1. tries[d] + 1 \in 0..MaxRetries /\ tries' = [tries EXCEPT ![d] = tries[d] + 1]
    BY <1>1, <1>3, RetriesAssumption
  <2>2. relay'[d] = "waiting" /\ tries'[d] = tries[d] + 1 /\ tries[d] + 1 >= tries[d]
    BY <1>1, <1>3, <2>1 DEF SetRelay
  <2> QED
    BY <1>3, <2>1, <2>2
<1>4. CASE SetRelay(d, "lost") /\ UNCHANGED tries
  BY <1>1, <1>2, <1>4 DEF SetRelay
<1>5. CASE tries[d] = MaxRetries /\ SetRelay(d, "gaveup") /\ UNCHANGED tries
  BY <1>1, <1>2, <1>5 DEF SetRelay
<1> QED
  BY <1>3, <1>4, <1>5 DEF RetryRelay

\* One relay task changes its state, retries and copies, and keeps its part of
\* the invariant.
LEMMA RelayStep ==
  ASSUME IInv, NEW d \in Deliveries, Relay(d) \/ LoseRelay(d)
  PROVE  /\ UNCHANGED <<people, target, pc, receiver, noting>>
         /\ \E state \in RelayStates : relay' = [relay EXCEPT ![d] = state]
         /\ \E n \in 0..MaxRetries : tries' = [tries EXCEPT ![d] = n]
         /\ \E n \in 0..(MaxRetries + 2) : copies' = [copies EXCEPT ![d] = n]
         /\ RelayInv(d)'
<1>1. /\ RelayInv(d) /\ relay[d] \in RelayStates /\ tries[d] \in 0..MaxRetries
      /\ copies[d] \in 0..(MaxRetries + 2)
      /\ relay \in [Deliveries -> RelayStates] /\ tries \in [Deliveries -> 0..MaxRetries]
      /\ copies \in [Deliveries -> 0..(MaxRetries + 2)]
  BY DEF IInv, DispatchTypeOK
<1>2. tries = [tries EXCEPT ![d] = tries[d]] /\ copies = [copies EXCEPT ![d] = copies[d]]
  BY <1>1
<1>3. relay[d] # "none" => d \in handled /\ pc[d] \notin {"cloud", "status", "relay"}
  BY <1>1 DEF RelayInv
<1>4. CASE StartRelay(d)
  BY <1>1, <1>2, <1>3, <1>4 DEF StartRelay, SetRelay, RelayStates, RelayInv, receiver
<1>5. CASE Post(d)
  <2>1. relay[d] = "running" /\ copies[d] <= tries[d]
    BY <1>1, <1>5 DEF Post, RelayInv
  <2>2. UNCHANGED <<people, target, pc, receiver, noting>>
    BY <1>5 DEF Post
  <2>3. CASE RetryRelay(d) /\ UNCHANGED copies
    BY <1>1, <1>2, <1>3, <2>1, <2>2, <2>3, RetryCases, RetriesAssumption
       DEF SetRelay, RelayStates, RelayInv, receiver
  <2>4. CASE ~(RetryRelay(d) /\ UNCHANGED copies)
    <3>1. copies[d] <= MaxRetries + 1 /\ copies[d] + 1 \in 0..(MaxRetries + 2)
      BY <1>1, <2>1, RetriesAssumption
    <3>2. /\ copies' = [copies EXCEPT ![d] = copies[d] + 1]
          /\ SetRelay(d, "posted") /\ UNCHANGED tries
      BY <1>1, <1>5, <2>4, <3>1 DEF Post
    <3>3. /\ relay'[d] = "posted" /\ tries'[d] = tries[d]
          /\ copies'[d] = copies[d] + 1 /\ copies[d] + 1 > 0 /\ copies[d] + 1 <= tries[d] + 1
      BY <1>1, <2>1, <3>2, RetriesAssumption DEF SetRelay
    <3>4. RelayInv(d)'
      BY <1>1, <1>3, <2>1, <2>2, <3>3 DEF RelayInv, receiver
    <3> QED
      BY <1>2, <2>2, <3>1, <3>2, <3>4, <1>1 DEF SetRelay, RelayStates
  <2> QED
    BY <2>3, <2>4
<1>6. CASE Answer(d)
  <2>1. relay[d] = "posted" /\ copies[d] > 0 /\ copies[d] <= tries[d] + 1
    BY <1>1, <1>6 DEF Answer, RelayInv
  <2>2. UNCHANGED <<people, target, pc, receiver, copies, noting>>
    BY <1>6 DEF Answer
  <2>3. CASE RetryRelay(d)
    BY <1>1, <1>2, <1>3, <2>1, <2>2, <2>3, RetryCases, RetriesAssumption
       DEF SetRelay, RelayStates, RelayInv, receiver
  <2>4. CASE SetRelay(d, "done") /\ UNCHANGED tries
    BY <1>1, <1>2, <1>3, <2>1, <2>2, <2>4 DEF SetRelay, RelayStates, RelayInv, receiver
  <2> QED
    BY <1>6, <2>3, <2>4 DEF Answer
<1>7. CASE Wake(d)
  BY <1>1, <1>2, <1>3, <1>7 DEF Wake, SetRelay, RelayStates, RelayInv, receiver
<1>8. CASE LoseRelay(d)
  BY <1>1, <1>2, <1>3, <1>8 DEF LoseRelay, Held, SetRelay, RelayStates, RelayInv, receiver
<1> QED
  BY <1>4, <1>5, <1>6, <1>7, <1>8 DEF Relay

LEMMA RelayKeeps ==
  ASSUME IInv, NEW d \in Deliveries, Relay(d) \/ LoseRelay(d)
  PROVE  IInv'
<1>1. /\ UNCHANGED <<people, target, pc, receiver, noting>>
      /\ \E state \in RelayStates : relay' = [relay EXCEPT ![d] = state]
      /\ \E n \in 0..MaxRetries : tries' = [tries EXCEPT ![d] = n]
      /\ \E n \in 0..(MaxRetries + 2) : copies' = [copies EXCEPT ![d] = n]
      /\ RelayInv(d)'
  BY RelayStep
<1>2. DispatchTypeOK'
  BY <1>1 DEF IInv, DispatchTypeOK, receiver, noting
<1>3. ASSUME NEW e \in Deliveries
      PROVE  RelayInv(e)' /\ NoteInv(e)' /\ ErasedInv(e)'
  <2>1. RelayInv(e) /\ NoteInv(e) /\ ErasedInv(e) /\ DispatchTypeOK
    BY DEF IInv
  <2>2. RelayInv(e)'
    BY <1>1, <2>1 DEF RelayInv, receiver, DispatchTypeOK
  <2>3. NoteInv(e)'
    BY <1>1, <2>1, NoteUntouched DEF receiver
  <2> QED
    BY <1>1, <2>1, <2>2, <2>3 DEF ErasedInv, receiver
<1> QED
  BY <1>2, <1>3 DEF IInv

-----------------------------------------------------------------------------
(***************************************************************************)
(* The notification                                                        *)
(***************************************************************************)
LEMMA PlannedNat == \A d \in Deliveries : Planned(d) \subseteq Nat
  BY DEF Planned

\* A notification task touches its own records only.
LEMMA NoteStep ==
  ASSUME IInv, NEW d \in Deliveries, UNCHANGED <<people, target, pc, receiver, relaying>>,
         NEW state \in NoteStates, note' = [note EXCEPT ![d] = state],
         NEW c \in Seq(Nat), calls' = [calls EXCEPT ![d] = c],
         NEW l \in Seq([message : Nat, status : {"sent", "failed"}]), log' = [log EXCEPT ![d] = l],
         went' \subseteq Deliveries \X Nat, went \subseteq went',
         NoteInv(d)'
  PROVE  IInv'
<1>1. DispatchTypeOK'
  BY DEF IInv, DispatchTypeOK, receiver, relaying
<1>2. ASSUME NEW e \in Deliveries
      PROVE  RelayInv(e)' /\ NoteInv(e)' /\ ErasedInv(e)'
  <2>1. RelayInv(e) /\ NoteInv(e) /\ ErasedInv(e) /\ DispatchTypeOK
    BY DEF IInv
  <2>2. RelayInv(e)'
    BY <2>1, RelayUntouched DEF receiver
  <2>3. CASE e # d
    <3>1. /\ note'[e] = note[e] /\ calls'[e] = calls[e] /\ log'[e] = log[e]
          /\ known'[e] = known[e] /\ pc'[e] = pc[e]
      BY <2>1, <2>3 DEF DispatchTypeOK, receiver
    <3>2. Planned(e)' = Planned(e)
      BY <3>1 DEF Planned
    <3>3. LogInv(e)'
      BY <2>1, <3>1 DEF NoteInv, LogInv
    <3> QED
      BY <2>1, <2>2, <3>1, <3>2, <3>3 DEF NoteInv, CallsInv, DoneInv, ErasedInv, receiver
  <2> QED
    BY <2>1, <2>2, <2>3 DEF ErasedInv, receiver
<1> QED
  BY <1>1, <1>2 DEF IInv

\* The next message in order keeps the calls in order and without a gap.
LEMMA CallsGrow ==
  ASSUME IInv, NEW d \in Deliveries, NEW n \in Ahead(d), \A m \in Ahead(d) : n <= m,
         calls'[d] = Append(calls[d], n), known' = known
  PROVE  CallsInv(d)' /\ n \in Nat
<1> DEFINE s == calls[d]
           t == calls'[d]
<1>1. s \in Seq(Nat) /\ CallsInv(d)
  BY DEF IInv, DispatchTypeOK, NoteInv
<1>2. n \in Planned(d) /\ n \in Nat
  BY PlannedNat DEF Ahead
<1>3. /\ Len(t) = Len(s) + 1 /\ Len(s) \in Nat
      /\ \A i \in 1..Len(s) : t[i] = s[i] /\ s[i] \in Nat
      /\ t[Len(t)] = n
  BY <1>1, <1>2
<1>4. \A i \in 1..Len(s) : s[i] < n
  <2>1. ASSUME NEW i \in 1..Len(s)
        PROVE  s[i] < n
    <3>1. s # << >> /\ Len(s) \in 1..Len(s)
      BY <1>1, <2>1
    <3>2. n > s[Len(s)]
      BY <3>1 DEF Ahead
    <3>3. i = Len(s) \/ s[i] < s[Len(s)]
      BY <1>1, <2>1, <3>1 DEF CallsInv
    <3> QED
      BY <1>2, <1>3, <2>1, <3>1, <3>2, <3>3
  <2> QED
    BY <2>1
<1>5. ASSUME NEW m \in Planned(d), m < n
      PROVE  \E j \in 1..Len(s) : s[j] = m
  <2>1. m \in Nat /\ m \notin Ahead(d)
    BY <1>2, <1>5, PlannedNat
  <2>2. s # << >> /\ ~(m > s[Len(s)])
    BY <1>5, <2>1 DEF Ahead
  <2>3. Len(s) \in 1..Len(s)
    BY <1>1, <2>2
  <2>4. m = s[Len(s)] \/ m < s[Len(s)]
    BY <1>3, <2>1, <2>2, <2>3
  <2> QED
    BY <1>1, <1>5, <2>3, <2>4 DEF CallsInv
<1>6. Planned(d)' = Planned(d)
  BY DEF Planned
<1>7. \A i, j \in 1..Len(t) : i < j => t[i] < t[j]
  <2>1. ASSUME NEW i \in 1..Len(t), NEW j \in 1..Len(t), i < j
        PROVE  t[i] < t[j]
    <3>1. i \in 1..Len(s)
      BY <1>3, <2>1
    <3>2. CASE j = Len(t)
      BY <1>3, <1>4, <3>1, <3>2
    <3>3. CASE j # Len(t)
      <4>1. j \in 1..Len(s)
        BY <1>3, <3>3
      <4> QED
        BY <1>1, <1>3, <2>1, <3>1, <4>1 DEF CallsInv
    <3> QED
      BY <3>2, <3>3
  <2> QED
    BY <2>1
<1>8. \A i \in 1..Len(t) : i = Len(t) \/ i \in 1..Len(s)
  BY <1>3
<1>9. \A i \in 1..Len(s) : i \in 1..Len(t)
  BY <1>3
<1>10. \A i \in 1..Len(t) : t[i] \in Planned(d)
  BY <1>1, <1>2, <1>3, <1>8 DEF CallsInv
<1>11. \A i \in 1..Len(t) : \A m \in Planned(d) :
         m < t[i] => \E j \in 1..Len(t) : t[j] = m
  <2>1. ASSUME NEW i \in 1..Len(t), NEW m \in Planned(d), m < t[i]
        PROVE  \E j \in 1..Len(s) : s[j] = m
    BY <1>1, <1>3, <1>5, <1>8, <2>1 DEF CallsInv
  <2> QED
    BY <1>3, <1>9, <2>1
<1> HIDE DEF s, t
<1> QED
  BY <1>2, <1>6, <1>7, <1>10, <1>11 DEF CallsInv, t

LEMMA SendKeeps ==
  ASSUME IInv, NEW d \in Deliveries, Send(d)
  PROVE  IInv'
<1>1. PICK n \in Ahead(d) :
        /\ \A m \in Ahead(d) : n <= m
        /\ calls' = [calls EXCEPT ![d] = Append(@, n)]
        /\ \E outcome \in Outcomes(Channel(d, n)) :
             went' = IF outcome.taken THEN went \cup {<<d, n>>} ELSE went
  BY DEF Send
<1>2. NoteInv(d) /\ DispatchTypeOK /\ note[d] = "running" /\ calls[d] \in Seq(Nat)
  BY DEF Send, IInv, DispatchTypeOK
<1>3. calls'[d] = Append(calls[d], n) /\ calls' = [calls EXCEPT ![d] = Append(calls[d], n)]
  BY <1>1, <1>2 DEF DispatchTypeOK
<1>4. UNCHANGED <<people, target, pc, receiver, relaying, log>> /\ note' = [note EXCEPT ![d] = "log"]
  BY DEF Send, SetNote
<1>5. CallsInv(d)' /\ n \in Nat
  BY <1>1, <1>3, <1>4, CallsGrow DEF receiver
<1>6. /\ Append(calls[d], n) \in Seq(Nat) /\ Len(calls'[d]) = Len(calls[d]) + 1
      /\ \A i \in 1..Len(calls[d]) : calls'[d][i] = calls[d][i]
  BY <1>2, <1>3, <1>5
<1>7. went' \subseteq Deliveries \X Nat /\ went \subseteq went'
  BY <1>1, <1>2, <1>5 DEF DispatchTypeOK
<1>8. NoteInv(d)'
  <2>1. note'[d] = "log" /\ pc'[d] = pc[d] /\ log'[d] = log[d] /\ Len(log[d]) = Len(calls[d])
    BY <1>2, <1>4 DEF DispatchTypeOK, NoteInv, LogInv
  <2>2. LogInv(d)'
    BY <1>2, <1>6, <1>7, <2>1 DEF NoteInv, LogInv
  <2> QED
    BY <1>2, <1>5, <2>1, <2>2 DEF NoteInv, DoneInv
<1>9. log' = [log EXCEPT ![d] = log[d]] /\ log[d] \in Seq([message : Nat, status : {"sent", "failed"}])
  BY <1>2, <1>4 DEF DispatchTypeOK
<1> QED
  BY <1>3, <1>4, <1>6, <1>7, <1>8, <1>9, NoteStep DEF NoteStates

LEMMA WriteLogKeeps ==
  ASSUME IInv, NEW d \in Deliveries, WriteLog(d)
  PROVE  IInv'
<1> DEFINE entry(status) == [message |-> Last(d), status |-> status]
<1>1. NoteInv(d) /\ DispatchTypeOK /\ note[d] = "log" /\ calls[d] \in Seq(Nat)
  BY DEF WriteLog, IInv, DispatchTypeOK
<1>2. Len(log[d]) = Len(calls[d]) - 1 /\ log[d] \in Seq([message : Nat, status : {"sent", "failed"}])
  BY <1>1 DEF NoteInv, LogInv, DispatchTypeOK
<1>3. Len(calls[d]) \in 1..Len(calls[d]) /\ Last(d) = calls[d][Len(calls[d])] /\ Last(d) \in Nat
  BY <1>1, <1>2 DEF Last
<1>4. PICK status \in {"sent", "failed"} :
        /\ log' = [log EXCEPT ![d] = Append(log[d], entry(status))]
        /\ status = "sent" => <<d, Last(d)>> \in went
  <2>1. \A outcome \in Outcomes(Channel(d, Last(d))) : outcome.success => outcome.taken
    BY DEF Outcomes, Called
  <2>2. PICK outcome \in Outcomes(Channel(d, Last(d))) :
          /\ outcome.taken = (<<d, Last(d)>> \in went)
          /\ log' = [log EXCEPT ![d] =
                       Append(@, [message |-> Last(d),
                                  status |-> IF outcome.success THEN "sent" ELSE "failed"])]
    BY DEF WriteLog
  <2>3. CASE outcome.success
    BY <1>1, <2>1, <2>2, <2>3 DEF DispatchTypeOK
  <2>4. CASE ~outcome.success
    BY <1>1, <2>2, <2>4 DEF DispatchTypeOK
  <2> QED
    BY <2>3, <2>4
<1> DEFINE l == Append(log[d], entry(status))
<1>5. entry(status) \in [message : Nat, status : {"sent", "failed"}]
  BY <1>3
<1>6. /\ l \in Seq([message : Nat, status : {"sent", "failed"}])
      /\ Len(l) = Len(log[d]) + 1 /\ l[Len(l)] = entry(status)
      /\ \A i \in 1..Len(log[d]) : l[i] = log[d][i]
  BY <1>2, <1>5
<1>7. /\ UNCHANGED <<people, target, pc, receiver, relaying, calls, went>>
      /\ note' = [note EXCEPT ![d] = "running"]
  BY DEF WriteLog, SetNote
<1>8. log' = [log EXCEPT ![d] = l] /\ log'[d] = l /\ note'[d] = "running" /\ calls'[d] = calls[d]
  BY <1>1, <1>4, <1>7 DEF DispatchTypeOK
<1> HIDE DEF l
<1>9. Len(l) = Len(calls[d])
  BY <1>2, <1>3, <1>6
<1>10. LogInv(d)'
  <2>1. ASSUME NEW i \in 1..Len(l)
        PROVE  /\ l[i].message = calls[d][i]
               /\ l[i].status = "sent" => <<d, calls[d][i]>> \in went
    <3>1. i = Len(l) \/ i \in 1..Len(log[d])
      BY <1>2, <1>3, <1>6, <2>1
    <3>2. CASE i = Len(l)
      BY <1>3, <1>4, <1>6, <1>9, <3>2
    <3>3. CASE i \in 1..Len(log[d])
      BY <1>1, <1>6, <3>3 DEF NoteInv, LogInv
    <3> QED
      BY <3>1, <3>2, <3>3
  <2> QED
    BY <1>3, <1>7, <1>8, <1>9, <2>1 DEF LogInv
<1>11. NoteInv(d)'
  <2>1. Planned(d)' = Planned(d)
    BY <1>7 DEF Planned, receiver
  <2>2. CallsInv(d) /\ calls' = calls
    BY <1>1, <1>7 DEF NoteInv
  <2>3. CallsInv(d)'
    BY <2>1, <2>2 DEF CallsInv
  <2> QED
    BY <1>1, <1>7, <1>8, <1>10, <2>3 DEF NoteInv, DoneInv
<1>12. calls' = [calls EXCEPT ![d] = calls[d]]
  BY <1>1, <1>7 DEF DispatchTypeOK
<1> QED
  BY <1>1, <1>6, <1>7, <1>8, <1>11, <1>12, NoteStep DEF NoteStates, l, DispatchTypeOK

\* The steps of a task that only go to another state.
LEMMA NoteMoves ==
  ASSUME IInv, NEW d \in Deliveries, StartNote(d) \/ LogFails(d) \/ FinishNote(d) \/ LoseNote(d)
  PROVE  IInv'
<1>1. NoteInv(d) /\ DispatchTypeOK
  BY DEF IInv
<1>2. PICK state \in NoteStates :
        /\ note' = [note EXCEPT ![d] = state]
        /\ UNCHANGED <<people, target, pc, receiver, relaying, calls, log, went>>
        /\ \/ note[d] = "queued" /\ state = "running"
           \/ note[d] = "running" /\ Ahead(d) = {} /\ state = "done"
           \/ note[d] # "none" /\ state \in {"broken", "lost"}
  BY DEF StartNote, LogFails, FinishNote, LoseNote, SetNote, NoteStates, Held
<1>3. /\ calls' = [calls EXCEPT ![d] = calls[d]] /\ calls[d] \in Seq(Nat)
      /\ log' = [log EXCEPT ![d] = log[d]] /\ note'[d] = state
      /\ log[d] \in Seq([message : Nat, status : {"sent", "failed"}])
  BY <1>1, <1>2 DEF DispatchTypeOK
<1>4. Planned(d)' = Planned(d)
  BY <1>2 DEF Planned, receiver
<1>5. DoneInv(d)'
  <2>1. SUFFICES ASSUME state = "done", NEW n \in Planned(d)
                 PROVE  \E i \in 1..Len(calls[d]) : calls[d][i] = n
    BY <1>2, <1>3, <1>4 DEF DoneInv
  <2>2. n \notin Ahead(d) /\ n \in Nat
    BY <1>2, <2>1, PlannedNat
  <2>3. calls[d] # << >> /\ ~(n > calls[d][Len(calls[d])])
    BY <2>2 DEF Ahead
  <2>4. Len(calls[d]) \in 1..Len(calls[d]) /\ calls[d][Len(calls[d])] \in Nat
    BY <1>3, <2>3
  <2>5. n = calls[d][Len(calls[d])] \/ n < calls[d][Len(calls[d])]
    BY <2>2, <2>3, <2>4
  <2> QED
    BY <1>1, <2>4, <2>5 DEF NoteInv, CallsInv
<1>6. NoteInv(d)'
  BY <1>1, <1>2, <1>3, <1>4, <1>5 DEF NoteInv, CallsInv, LogInv
<1> QED
  BY <1>1, <1>2, <1>3, <1>6, NoteStep DEF DispatchTypeOK

-----------------------------------------------------------------------------
LEMMA InitInv == Init => IInv
<1> SUFFICES ASSUME Init PROVE IInv
  OBVIOUS
<1>1. DispatchTypeOK
  BY RetriesAssumption DEF Init, DispatchTypeOK, RelayStates, NoteStates
<1>2. ASSUME NEW d \in Deliveries
      PROVE  RelayInv(d) /\ NoteInv(d) /\ ErasedInv(d)
  BY DEF Init, RelayInv, NoteInv, CallsInv, LogInv, DoneInv, ErasedInv
<1> QED
  BY <1>1, <1>2 DEF IInv

LEMMA NextInv == IInv /\ [Next]_vars => IInv'
<1> SUFFICES ASSUME IInv, [Next]_vars
             PROVE  IInv'
  OBVIOUS
<1>1. ASSUME NEW d \in Deliveries, Receive(d) \/ ReceiverCrash(d)
      PROVE  IInv'
  BY <1>1, ReceiverTypes, ReceiverKeeps DEF IInv
<1>2. ASSUME NEW d \in Deliveries, Relay(d) \/ LoseRelay(d)
      PROVE  IInv'
  BY <1>2, RelayKeeps
<1>3. ASSUME NEW d \in Deliveries, Note(d) \/ LoseNote(d)
      PROVE  IInv'
  BY <1>3, SendKeeps, WriteLogKeeps, NoteMoves DEF Note
<1>4. ASSUME people' \subseteq People, UNCHANGED <<target, pc, receiver, relaying, noting>>
      PROVE  IInv'
  <2>1. DispatchTypeOK'
    BY <1>4 DEF IInv, DispatchTypeOK, receiver, relaying, noting
  <2>2. ASSUME NEW d \in Deliveries
        PROVE  RelayInv(d)' /\ NoteInv(d)' /\ ErasedInv(d)'
    BY <1>4, RelayUntouched, NoteUntouched DEF IInv, receiver, ErasedInv
  <2> QED
    BY <2>1, <2>2 DEF IInv
<1>5. ASSUME NEW p \in People, Forget(p) \/ Register(p)
      PROVE  IInv'
  BY <1>4, <1>5 DEF Forget, Register, IInv, DispatchTypeOK
<1>6. CASE UNCHANGED vars
  BY <1>4, <1>6 DEF vars, IInv, DispatchTypeOK
<1> QED
  BY <1>1, <1>2, <1>3, <1>5, <1>6 DEF Next, Fail

\* Every variable keeps its type: in particular no relay is retried more than
\* MaxRetries times (relay_webhook).
THEOREM TypeCorrect == Spec => []DispatchTypeOK
<1>1. IInv => DispatchTypeOK
  BY DEF IInv
<1> QED
  BY <1>1, InitInv, NextInv, PTL DEF Spec

\* An event reaches the client's system only when the proxy has dealt with it
\* (receive_webhook).
THEOREM StatusFirst == Spec => []RelayAfterStatus
<1>1. IInv => RelayAfterStatus
  BY DEF IInv, RelayInv, RelayAfterStatus
<1> QED
  BY <1>1, InitInv, NextInv, PTL DEF Spec

\* An event reaches the client's system at most once per attempt, for any limit
\* of retries (relay_webhook).
THEOREM OncePerAttempt == Spec => []CopiesBounded
<1>1. IInv => CopiesBounded
  BY DEF IInv, RelayInv, CopiesBounded
<1> QED
  BY <1>1, InitInv, NextInv, PTL DEF Spec

\* Of a delivery no entry of its attendee list gets a message twice on a channel, and
\* the log tells what was tried (_send_notification).
THEOREM LogTellsTheCalls == Spec => []LoggedOnce
<1>1. ASSUME IInv, NEW d \in Deliveries
      PROVE  /\ DOMAIN calls[d] = 1..Len(calls[d]) /\ DOMAIN log[d] = 1..Len(log[d])
             /\ NoteInv(d)
  BY <1>1 DEF IInv, DispatchTypeOK
<1>2. ASSUME IInv, NEW d \in Deliveries
      PROVE  /\ \A i, j \in DOMAIN calls[d] : i < j => calls[d][i] < calls[d][j]
             /\ Len(log[d]) \in {Len(calls[d]) - 1, Len(calls[d])}
             /\ \A i \in DOMAIN log[d] :
                  /\ log[d][i].message = calls[d][i]
                  /\ log[d][i].status = "sent" => <<d, calls[d][i]>> \in went
  <2>1. CallsInv(d) /\ LogInv(d) /\ DOMAIN calls[d] = 1..Len(calls[d]) /\ DOMAIN log[d] = 1..Len(log[d])
    BY <1>1, <1>2 DEF NoteInv
  <2>2. \A i, j \in DOMAIN calls[d] : i < j => calls[d][i] < calls[d][j]
    BY <2>1 DEF CallsInv
  <2>3. \A i \in DOMAIN log[d] : /\ log[d][i].message = calls[d][i]
                                 /\ log[d][i].status = "sent" => <<d, calls[d][i]>> \in went
    BY <2>1 DEF LogInv
  <2> QED
    BY <2>1, <2>2, <2>3 DEF LogInv
<1>3. IInv => LoggedOnce
  BY <1>2 DEF LoggedOnce
<1> QED
  BY <1>3, InitInv, NextInv, PTL DEF Spec

\* A task that runs to its end has tried all it had an address for
\* (_send_notification).
THEOREM AllTried == Spec => []NothingSkipped
<1>1. ASSUME IInv, NEW d \in Deliveries
      PROVE  /\ DOMAIN calls[d] = 1..Len(calls[d]) /\ DOMAIN log[d] = 1..Len(log[d])
             /\ Len(calls[d]) \in Nat /\ Len(log[d]) \in Nat /\ NoteInv(d)
  BY <1>1 DEF IInv, DispatchTypeOK
<1>2. ASSUME IInv, NEW d \in Deliveries, note[d] = "done"
      PROVE  Planned(d) = {log[d][i].message : i \in DOMAIN log[d]}
  <2>1. /\ Len(log[d]) = Len(calls[d])
        /\ \A i \in 1..Len(calls[d]) : log[d][i].message = calls[d][i] /\ calls[d][i] \in Planned(d)
        /\ Planned(d) \subseteq {calls[d][i] : i \in 1..Len(calls[d])}
    BY <1>1, <1>2 DEF NoteInv, CallsInv, LogInv, DoneInv
  <2> QED
    BY <1>1, <1>2, <2>1
<1>3. ASSUME IInv, NEW d \in Deliveries
      PROVE  \A i \in DOMAIN calls[d], n \in Planned(d) :
               n < calls[d][i] => \E j \in DOMAIN calls[d] : calls[d][j] = n
  <2>1. CallsInv(d) /\ DOMAIN calls[d] = 1..Len(calls[d])
    BY <1>1, <1>3 DEF NoteInv
  <2> QED
    BY <2>1 DEF CallsInv
<1>4. IInv => NothingSkipped
  BY <1>2, <1>3 DEF NothingSkipped
<1> QED
  BY <1>4, InitInv, NextInv, PTL DEF Spec

\* Who is erased gets no message from an event that arrives later, however many
\* tasks are under way (receive_webhook, forget_person).
THEOREM ErasedGetNothing == Spec => []QuietAfterErasure
<1>1. ASSUME IInv, NEW d \in Deliveries, NEW i \in DOMAIN calls[d]
      PROVE  Person(d, calls[d][i]) \notin erased[d]
  <2>1. i \in 1..Len(calls[d]) /\ NoteInv(d) /\ ErasedInv(d)
    BY <1>1 DEF IInv, DispatchTypeOK
  <2>2. calls[d][i] \in Planned(d)
    BY <2>1 DEF NoteInv, CallsInv
  <2> QED
    BY <2>1, <2>2 DEF Planned, ErasedInv
<1>2. IInv => QuietAfterErasure
  BY <1>1 DEF QuietAfterErasure
<1> QED
  BY <1>2, InitInv, NextInv, PTL DEF Spec

=============================================================================
