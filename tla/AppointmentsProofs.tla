-------------------------- MODULE AppointmentsProofs --------------------------
(***************************************************************************)
(* Proofs about Appointments for any number of handlers, keys, people and  *)
(* questions.  IInv is the inductive invariant: what a handler that has    *)
(* reached a given await may rely on although others ran in between.  It   *)
(* has three parts.  Core holds whatever is erased meanwhile; Reach(e)     *)
(* holds of a person as long as no erasure of theirs interferes; Whole     *)
(* needs that nothing is erased at all.  Each step keeps each part for     *)
(* itself, so that the proofs about Erasure take over the first two.       *)
(***************************************************************************)
EXTENDS Appointments, FiniteSetTheorems, TLAPS

WorkerLabels == {"idle", "noshows", "future", "cooldown", "intercept", "forward",
                 "created", "record", "store"}
HookLabels == {"idle", "select", "update", "insert", "commit"}

Holding(w) == pc[w] \in {"created", "record", "store"}

\* A POST: who it books for, which appointment it holds, and that between the
\* flush and the first commit the row is staged and not in the table.
WorkerInv ==
  \A w \in Workers :
    /\ pc[w] \in WorkerLabels
    /\ limit[w] <= MaxFuture
    /\ pc[w] \in {"noshows", "future", "cooldown"} => Primary(w) \in ExtIds
    /\ pc[w] = "forward" \/ Holding(w) => ext[w] \in ExtIds \cup {Nobody}
    /\ Holding(w) => /\ key[w] \in Keys
                     /\ cloud[key[w]] # None
                     /\ cloud[key[w]].ext = ext[w]
                     /\ cloud[key[w]].flat <=> top[w] # None
    /\ w \in staged => pc[w] = "store" /\ Primary(w) # Nobody /\ appts[key[w]] = None

\* A webhook: the event it carries was announced, and a row it will insert has
\* an owner.
HookInv ==
  \A h \in Hooks :
    /\ pc[h] \in HookLabels
    /\ h \in staged <=> pc[h] = "commit"
    /\ pc[h] # "idle" => /\ key[h] \in Keys
                         /\ news[h] \in Outcomes
                         /\ <<key[h], news[h]>> \in events
    /\ pc[h] = "insert" \/ (pc[h] = "commit" /\ appts[key[h]] = None)
         => cloud[key[h]].ext \in ExtIds

\* One uncommitted write per key.
StagedInv == \A s, t \in staged : key[s] = key[t] => s = t

\* Every key with answers, or confirmed, is a key the cloud allotted.  (Custom data
\* may be put under any.)
KnownKeys ==
  /\ \A k \in Keys, o \in Outcomes : <<k, o>> \in events => cloud[k] # None
  /\ \A k \in Keys, q \in Questions : <<k, q>> \in answers => cloud[k] # None
  /\ confirmed \subseteq {k \in Keys : cloud[k] # None}

Core == /\ TypeOK /\ WorkerInv /\ HookInv /\ StagedInv /\ KnownKeys
        /\ RowMirrorsCloud

\* Answers stored of e are linked to e's pii_person row, and what a POST for e is
\* about to store will be: the person is there since the interceptor, the row
\* since record_appointment.
Reach(e) ==
  /\ \A w \in Workers : ext[w] = e =>
       /\ pc[w] = "forward" \/ Holding(w) => e \in people
       /\ top[w] = None /\ pc[w] = "store" => w \in staged \/ appts[key[w]] # None
  /\ \A k \in Keys : Nested(k) /\ cloud[k].ext = e /\ Filled(k) => Linked(k)

\* A redacted answer is in the table or still in the hands of the POST, and the
\* row a webhook updates is the one it found.
Whole ==
  /\ \A h \in Hooks : pc[h] = "update" => appts[key[h]] # None
  /\ \A w \in Workers :
       Holding(w) => \A q \in cloud[key[w]].tokens :
                       q \in pending[w] \/ <<key[w], q>> \in answers
  /\ Restorable

IInv == Core /\ (\A e \in ExtIds : Reach(e)) /\ Whole

\* A step keeps each part.
Kept == /\ Core'
        /\ \A e \in ExtIds : Reach(e) => Reach(e)'
        /\ Whole => Whole'

USE DEF tables, remote, form, Goto, Sessions, Holding, Taken, HasOwner, AllStored,
        AtLimit, Nested, Primary

LEMMA InitInv == Init => IInv
<1> SUFFICES ASSUME Init PROVE IInv
  OBVIOUS
<1>1. Core
  BY DistinctAssumption, MaxFutureAssumption
  DEF Init, Core, TypeOK, WorkerInv, HookInv, StagedInv, KnownKeys, RowMirrorsCloud,
      Statuses, Outcomes, Times, WorkerLabels, HookLabels
<1>2. \A e \in ExtIds : Reach(e)
  BY DistinctAssumption DEF Init, Reach, Filled
<1>3. Whole
  BY DistinctAssumption DEF Init, Whole, Restorable
<1> QED
  BY <1>1, <1>2, <1>3 DEF IInv

LEMMA CloseWorkerKeeps ==
  ASSUME Core, NEW w \in Workers, CloseWorker(w), UNCHANGED confirmed
  PROVE  Kept
<1> USE DEF Core, CloseWorker, Close
<1>1. TypeOK'
  BY DEF TypeOK, Row, CloudAppt, Statuses, Times
<1>2. WorkerInv'
  BY DistinctAssumption, MaxFutureAssumption DEF TypeOK, WorkerInv, WorkerLabels
<1>3. HookInv'
  BY DistinctAssumption DEF TypeOK, HookInv, HookLabels
<1>4. StagedInv'
  BY DEF TypeOK, StagedInv
<1>5. KnownKeys'
  BY DEF TypeOK, KnownKeys
<1>6. RowMirrorsCloud'
  BY DEF RowMirrorsCloud
<1>7. ASSUME NEW e \in ExtIds, Reach(e)
      PROVE  Reach(e)'
  <2>1. /\ pc'[w] = "idle"
        /\ \A x \in Workers \ {w} : /\ pc'[x] = pc[x] /\ key'[x] = key[x]
                                    /\ ext'[x] = ext[x] /\ top'[x] = top[x]
                                    /\ x \in staged' <=> x \in staged
        /\ UNCHANGED <<tables, cloud>>
    BY DEF TypeOK
  <2> HIDE DEF CloseWorker, Close, Core
  <2> QED
    BY <1>7, <2>1 DEF Reach, Filled, Linked
<1>8. ASSUME Whole
      PROVE  Whole'
  BY <1>8 DEF TypeOK, WorkerInv, HookInv, Whole, Restorable, KnownKeys
<1> QED
  BY <1>1, <1>2, <1>3, <1>4, <1>5, <1>6, <1>7, <1>8 DEF Kept

LEMMA CloseHookKeeps ==
  ASSUME Core, NEW h \in Hooks, CloseHook(h), UNCHANGED appts
  PROVE  Kept
<1> USE DEF Core, CloseHook, Close
<1>1. TypeOK'
  BY DEF TypeOK, Row, CloudAppt, Statuses, Times
<1>2. WorkerInv'
  BY DistinctAssumption, MaxFutureAssumption DEF TypeOK, WorkerInv, WorkerLabels
<1>3. HookInv'
  BY DistinctAssumption DEF TypeOK, HookInv, HookLabels
<1>4. StagedInv'
  BY DEF TypeOK, StagedInv
<1>5. KnownKeys'
  BY DEF TypeOK, KnownKeys
<1>6. RowMirrorsCloud'
  BY DEF RowMirrorsCloud
<1>7. ASSUME NEW e \in ExtIds, Reach(e)
      PROVE  Reach(e)'
  BY <1>7 DEF TypeOK, WorkerInv, Reach, Filled, Linked
<1>8. ASSUME Whole
      PROVE  Whole'
  BY <1>8 DEF TypeOK, WorkerInv, HookInv, Whole, Restorable, KnownKeys
<1> QED
  BY <1>1, <1>2, <1>3, <1>4, <1>5, <1>6, <1>7, <1>8 DEF Kept

LEMMA ArriveKeeps ==
  ASSUME Core, NEW w \in Workers, Arrive(w)
  PROVE  Kept
<1> USE DEF Core, Arrive
<1>1. TypeOK'
  <2>1. /\ ext' \in [Workers -> ExtIds \cup {Anon, Nobody}]
        /\ top' \in [Workers -> TopLevel \cup {None}]
    BY DEF TypeOK
  <2>2. /\ pending' \in [Workers -> SUBSET Questions]
        /\ custom' \in [Workers -> BOOLEAN]
        /\ start' \in [Workers -> Times]
    BY DistinctAssumption DEF TypeOK
  <2>3. pc' \in [Sessions -> {"idle", "noshows", "future", "cooldown", "intercept",
                             "forward", "created", "record", "store",
                             "select", "update", "insert", "commit"}]
    BY DEF TypeOK
  <2> QED
    BY <2>1, <2>2, <2>3 DEF TypeOK, Row, CloudAppt
<1>2. WorkerInv'
  BY DistinctAssumption, MaxFutureAssumption DEF TypeOK, WorkerInv, WorkerLabels
<1>3. HookInv'
  BY DistinctAssumption DEF TypeOK, HookInv, HookLabels
<1>4. StagedInv'
  BY DEF TypeOK, StagedInv
<1>5. KnownKeys'
  BY DEF TypeOK, KnownKeys
<1>6. RowMirrorsCloud'
  BY DEF RowMirrorsCloud
<1>7. ASSUME NEW e \in ExtIds, Reach(e)
      PROVE  Reach(e)'
  <2>1. /\ pc'[w] \in {"noshows", "intercept"}
        /\ \A x \in Workers \ {w} : /\ pc'[x] = pc[x] /\ ext'[x] = ext[x]
                                    /\ top'[x] = top[x]
        /\ UNCHANGED <<tables, cloud, key, staged>>
    BY DEF TypeOK
  <2> HIDE DEF Arrive, Core
  <2> QED
    BY <1>7, <2>1 DEF Reach, Filled, Linked
<1>8. ASSUME Whole
      PROVE  Whole'
  BY <1>8 DEF TypeOK, WorkerInv, HookInv, Whole, Restorable, KnownKeys
<1> QED
  BY <1>1, <1>2, <1>3, <1>4, <1>5, <1>6, <1>7, <1>8 DEF Kept

LEMMA InterceptKeeps ==
  ASSUME Core, NEW w \in Workers, Intercept(w)
  PROVE  Kept
<1> USE DEF Core, Intercept
<1>1. TypeOK'
  BY DEF TypeOK, Row, CloudAppt, Statuses, Fresh
<1>2. WorkerInv'
  BY DistinctAssumption DEF TypeOK, WorkerInv, WorkerLabels, Fresh
<1>3. HookInv'
  BY DistinctAssumption DEF TypeOK, HookInv, HookLabels
<1>4. StagedInv'
  BY DEF TypeOK, StagedInv
<1>5. KnownKeys'
  BY DEF TypeOK, KnownKeys
<1>6. RowMirrorsCloud'
  BY DEF RowMirrorsCloud
<1>7. ASSUME NEW e \in ExtIds, Reach(e)
      PROVE  Reach(e)'
  <2>1. people \subseteq people' /\ (ext'[w] # Nobody => ext'[w] \in people')
    BY DEF TypeOK
  <2>2. \A x \in Workers \ {w} : ext'[x] = ext[x] /\ pc'[x] = pc[x]
    BY DEF TypeOK
  <2>3. pc'[w] = "forward"
    BY DEF TypeOK
  <2>4. ASSUME NEW x \in Workers, ext'[x] = e
        PROVE  /\ pc'[x] = "forward" \/ Holding(x)' => e \in people'
               /\ top'[x] = None /\ pc'[x] = "store"
                    => x \in staged' \/ appts'[key'[x]] # None
    BY <1>7, <2>1, <2>2, <2>3, <2>4, DistinctAssumption DEF Reach
  <2>5. ASSUME NEW k \in Keys, Nested(k)', cloud'[k].ext = e, Filled(k)'
        PROVE  Linked(k)'
    BY <1>7, <2>1, <2>5 DEF Reach, Filled, Linked
  <2> QED
    BY <2>4, <2>5 DEF Reach
<1>8. ASSUME Whole
      PROVE  Whole'
  BY <1>8 DEF TypeOK, WorkerInv, HookInv, Whole, Restorable, KnownKeys
<1> QED
  BY <1>1, <1>2, <1>3, <1>4, <1>5, <1>6, <1>7, <1>8 DEF Kept

LEMMA CloudCreateKeeps ==
  ASSUME Core, NEW w \in Workers, CloudCreate(w)
  PROVE  Kept
<1> USE DEF Core, CloudCreate
<1>1. PICK k \in Keys :
      /\ cloud[k] = None
      /\ cloud' = [cloud EXCEPT ![k] =
                     [ext |-> ext[w], flat |-> top[w] # None,
                      tokens |-> pending[w], status |-> "scheduled"]]
      /\ key' = [key EXCEPT ![w] = k]
  OBVIOUS
<1>2. cloud'[k] \in CloudAppt
  BY <1>1, DistinctAssumption DEF TypeOK, WorkerInv, CloudAppt, Statuses
<1>3. cloud'[k] # None /\ \A j \in Keys \ {k} : cloud'[j] = cloud[j]
  BY <1>1, <1>2, DistinctAssumption DEF TypeOK
<1>4. \A j \in Keys : Filled(j) => cloud[j] # None /\ j # k
  BY <1>1 DEF Filled, KnownKeys
<1>5. TypeOK'
  BY <1>1, <1>2, <1>3, <1>4, DistinctAssumption DEF TypeOK, Row, CloudAppt, Statuses, WorkerInv
<1>6. WorkerInv'
  <2>1. /\ cloud'[k].ext = ext[w]
        /\ cloud'[k].flat <=> top[w] # None
        /\ key'[w] = k
    BY <1>1 DEF TypeOK
  <2>2. \A x \in Workers \ {w} : key'[x] = key[x] /\ pc'[x] = pc[x]
    BY <1>1 DEF TypeOK
  <2> QED
    BY <1>1, <1>2, <1>3, <1>4, <2>1, <2>2, DistinctAssumption
    DEF TypeOK, WorkerInv, WorkerLabels
<1>7. HookInv'
  <2>1. /\ UNCHANGED <<events, news, staged, confirmed, appts>>
        /\ \A h \in Hooks : pc'[h] = pc[h] /\ key'[h] = key[h]
    BY <1>1, DistinctAssumption DEF TypeOK
  <2>2. \A j \in Keys : cloud[j] # None => cloud'[j] = cloud[j]
    BY <1>1, <1>3
  <2>3. HookInv /\ \A j \in Keys, o \in Outcomes : <<j, o>> \in events => cloud[j] # None
    BY DEF KnownKeys
  <2> HIDE DEF CloudCreate, Core
  <2>4. ASSUME NEW h \in Hooks, pc[h] # "idle"
        PROVE  cloud'[key'[h]] = cloud[key[h]]
    BY <2>1, <2>2, <2>3, <2>4 DEF HookInv
  <2> QED
    BY <2>1, <2>3, <2>4 DEF HookInv
<1>8. StagedInv'
  BY <1>1, <1>2, <1>3, <1>4, DistinctAssumption DEF TypeOK, StagedInv, WorkerInv, HookInv
<1>9. KnownKeys'
  BY <1>1, <1>2, <1>3, <1>4 DEF TypeOK, KnownKeys
<1>10. RowMirrorsCloud'
  BY <1>1, <1>2, <1>3, <1>4 DEF RowMirrorsCloud, TypeOK
<1>11. ASSUME NEW e \in ExtIds, Reach(e)
      PROVE  Reach(e)'
  <2>1. ASSUME NEW x \in Workers, ext'[x] = e
        PROVE  /\ pc'[x] = "forward" \/ Holding(x)' => e \in people'
               /\ top'[x] = None /\ pc'[x] = "store"
                    => x \in staged' \/ appts'[key'[x]] # None
    BY <1>11, <1>1, <2>1 DEF Reach, TypeOK
  <2>2. ASSUME NEW j \in Keys, Nested(j)', cloud'[j].ext = e, Filled(j)'
        PROVE  Linked(j)'
    <3>1. Filled(j) /\ j # k
      BY <1>4, <2>2 DEF Filled
    <3> QED
      BY <1>11, <1>3, <2>2, <3>1 DEF Reach, Linked
  <2> QED
    BY <2>1, <2>2 DEF Reach
<1>12. ASSUME Whole
      PROVE  Whole'
  BY <1>1, <1>2, <1>3, <1>4, <1>12 DEF TypeOK, WorkerInv, HookInv, Whole, Restorable, KnownKeys
<1> QED
  BY <1>5, <1>6, <1>7, <1>8, <1>9, <1>10, <1>11, <1>12 DEF Kept

LEMMA ReceiveKeeps ==
  ASSUME Core, NEW w \in Workers, Receive(w)
  PROVE  Kept
<1> USE DEF Core, Receive
<1>1. TypeOK'
  BY DEF TypeOK, Row, CloudAppt, Statuses, Times
<1>2. WorkerInv'
  BY DistinctAssumption, MaxFutureAssumption DEF TypeOK, WorkerInv, WorkerLabels
<1>3. HookInv'
  BY DistinctAssumption DEF TypeOK, HookInv, HookLabels
<1>4. StagedInv'
  BY DEF TypeOK, StagedInv
<1>5. KnownKeys'
  BY DEF TypeOK, KnownKeys
<1>6. RowMirrorsCloud'
  BY DEF RowMirrorsCloud
<1>7. ASSUME NEW e \in ExtIds, Reach(e)
      PROVE  Reach(e)'
  BY <1>7 DEF TypeOK, WorkerInv, Reach, Filled, Linked
<1>8. ASSUME Whole
      PROVE  Whole'
  BY <1>8 DEF TypeOK, WorkerInv, HookInv, Whole, Restorable, KnownKeys
<1> QED
  BY <1>1, <1>2, <1>3, <1>4, <1>5, <1>6, <1>7, <1>8 DEF Kept

LEMMA RecordKeeps ==
  ASSUME Core, NEW w \in Workers, Record(w)
  PROVE  Kept
<1> USE DEF Core, Record, Locked
<1>1. SUFFICES ASSUME ~(CloseWorker(w) /\ UNCHANGED confirmed)
               PROVE  Kept
  BY CloseWorkerKeeps
<1>2. /\ pc[w] = "record"
      /\ pc' = [pc EXCEPT ![w] = "store"]
      /\ staged' = IF Primary(w) = Nobody THEN staged ELSE staged \cup {w}
      /\ Primary(w) # Nobody => appts[key[w]] = None /\ \A s \in staged : key[s] # key[w]
      /\ UNCHANGED <<tables, remote, form, key, news, confirmed>>
  BY <1>1
<1>3. TypeOK'
  BY <1>1, <1>2 DEF TypeOK, Row, CloudAppt, Statuses, Times
<1>4. WorkerInv'
  BY <1>1, <1>2, DistinctAssumption, MaxFutureAssumption DEF TypeOK, WorkerInv, WorkerLabels
<1>5. HookInv'
  BY <1>1, <1>2, DistinctAssumption DEF TypeOK, HookInv, HookLabels
<1>6. StagedInv'
  BY <1>1, <1>2 DEF TypeOK, StagedInv
<1>7. KnownKeys'
  BY <1>1, <1>2 DEF TypeOK, KnownKeys
<1>8. RowMirrorsCloud'
  BY <1>1, <1>2 DEF RowMirrorsCloud
<1>9. ASSUME NEW e \in ExtIds, Reach(e)
      PROVE  Reach(e)'
  <2>1. /\ Primary(w) # Nobody => w \in staged'
        /\ staged \subseteq staged'
        /\ \A x \in Workers \ {w} : pc'[x] = pc[x]
        /\ pc'[w] = "store" /\ Holding(w)
    BY <1>2 DEF TypeOK
  <2>2. e # Nobody
    BY DistinctAssumption
  <2> QED
    BY <1>9, <1>2, <2>1, <2>2 DEF Reach, Filled, Linked
<1>10. ASSUME Whole
      PROVE  Whole'
  BY <1>1, <1>2, <1>10 DEF TypeOK, WorkerInv, HookInv, Whole, Restorable, KnownKeys
<1> QED
  BY <1>3, <1>4, <1>5, <1>6, <1>7, <1>8, <1>9, <1>10 DEF Kept

\* What a POST's commit does to the table.
LEMMA CommitFacts ==
  ASSUME Core, NEW w \in Workers, pc[w] = "store", Commit(w)
  PROVE  /\ key[w] \in Keys
         /\ appts' \in [Keys -> Row \cup {None}]
         /\ \A k \in Keys : k # key[w] \/ w \notin staged => appts'[k] = appts[k]
         /\ w \in staged => /\ appts'[key[w]] = Booking(w) /\ appts[key[w]] = None
                            /\ Booking(w) \in Row
         /\ Booking(w).status = "scheduled" /\ Booking(w).ext = Primary(w)
<1> USE DEF Core, Commit
<1>1. key[w] \in Keys
  BY DEF WorkerInv
<1>2. Primary(w) # Nobody => Booking(w) \in Row
  BY DistinctAssumption DEF TypeOK, WorkerInv, Booking, Row, Statuses
<1>3. w \in staged => Primary(w) # Nobody /\ appts[key[w]] = None
  BY DEF WorkerInv
<1>4. appts' \in [Keys -> Row \cup {None}]
  BY <1>1, <1>2, <1>3 DEF TypeOK
<1>5. Booking(w).ext = Primary(w) /\ Booking(w).status = "scheduled"
  BY DEF Booking
<1> QED
  BY <1>1, <1>2, <1>3, <1>4, <1>5 DEF TypeOK

\* With its commit, a POST has a row for its key that links what it stores there.
LEMMA CommitLinks ==
  ASSUME Core, NEW w \in Workers, pc[w] = "store", Commit(w),
         UNCHANGED <<cloud, people, ext, top, key>>, NEW e \in ExtIds, Reach(e),
         Nested(key[w]), cloud[key[w]].ext = e
  PROVE  Linked(key[w])'
<1>1. /\ key[w] \in Keys
      /\ w \notin staged => appts'[key[w]] = appts[key[w]]
      /\ w \in staged => appts'[key[w]] = Booking(w) /\ Booking(w) \in Row
      /\ Booking(w).ext = Primary(w)
  BY CommitFacts
<1>2. ext[w] = e /\ top[w] = None
  BY DEF Core, WorkerInv
<1>3. e \in people /\ (w \in staged \/ appts[key[w]] # None)
  BY <1>2 DEF Reach
<1>4. appts'[key[w]] # None
  BY <1>1, <1>3, DistinctAssumption
<1>5. appts'[key[w]].ext = e
  BY <1>1, <1>2, <1>3 DEF Core, RowMirrorsCloud
<1> QED
  BY <1>3, <1>4, <1>5 DEF Linked

\* What a POST stores for its key, with its commit, is linked to its owner.
LEMMA CommitReach ==
  ASSUME Core, NEW w \in Workers, pc[w] = "store", Commit(w),
         UNCHANGED <<cloud, people, pc, key, ext, top>>,
         \A k \in Keys : Filled(k)' => Filled(k) \/ k = key[w],
         NEW e \in ExtIds, Reach(e)
  PROVE  Reach(e)'
<1>1. /\ key[w] \in Keys
      /\ \A k \in Keys : k # key[w] \/ w \notin staged => appts'[k] = appts[k]
      /\ w \in staged => appts'[key[w]] = Booking(w) /\ Booking(w) \in Row
  BY CommitFacts
<1>2. \A x \in Workers : pc[x] = "store" => key[x] \in Keys
  BY DEF Core, WorkerInv
<1>3. /\ staged' = staged \ {w}
      /\ w \in staged => appts'[key[w]] # None
      /\ \A k \in Keys : appts[k] # None => appts'[k] # None
  BY <1>1, DistinctAssumption DEF Commit
<1>4. ASSUME NEW x \in Workers, ext[x] = e
      PROVE  /\ pc[x] = "forward" \/ Holding(x) => e \in people
             /\ top[x] = None /\ pc[x] = "store" => x \in staged' \/ appts'[key[x]] # None
  BY <1>2, <1>3, <1>4 DEF Reach
<1>5. ASSUME NEW k \in Keys, Nested(k), cloud[k].ext = e, Filled(k)'
      PROVE  Linked(k)'
  <2>1. CASE k = key[w]
    BY <1>5, <2>1, CommitLinks
  <2>2. CASE k # key[w]
    <3>1. Filled(k) /\ appts'[k] = appts[k]
      BY <1>1, <1>5, <2>2
    <3> QED
      BY <1>5, <3>1 DEF Reach, Linked
  <2> QED
    BY <2>1, <2>2
<1> QED
  BY <1>4, <1>5 DEF Reach

LEMMA StoreAnswerKeeps ==
  ASSUME Core, NEW w \in Workers, StoreAnswer(w)
  PROVE  Kept
<1> USE DEF Core, StoreAnswer
<1>1. pc[w] = "store" /\ Commit(w) /\ staged' = staged \ {w}
  BY DEF Commit
<1>2. /\ key[w] \in Keys
      /\ appts' \in [Keys -> Row \cup {None}]
      /\ \A k \in Keys : k # key[w] \/ w \notin staged => appts'[k] = appts[k]
      /\ w \in staged => appts'[key[w]] = Booking(w) /\ appts[key[w]] = None
      /\ Booking(w).status = "scheduled" /\ Booking(w).ext = Primary(w)
  BY <1>1, CommitFacts
<1>3. cloud[key[w]] # None /\ cloud[key[w]].ext = ext[w]
  BY <1>1 DEF WorkerInv
<1>4. TypeOK'
  BY <1>1, <1>2, <1>3 DEF TypeOK
<1>5. WorkerInv'
  BY <1>1, <1>2, <1>3, DistinctAssumption DEF TypeOK, WorkerInv, WorkerLabels, StagedInv
<1>6. HookInv'
  BY <1>1, <1>2, <1>3, DistinctAssumption DEF TypeOK, HookInv, HookLabels, StagedInv
<1>7. StagedInv'
  BY <1>1, <1>2, <1>3 DEF TypeOK, StagedInv
<1>8. KnownKeys'
  BY <1>1, <1>2, <1>3 DEF TypeOK, KnownKeys, WorkerInv
<1>9. RowMirrorsCloud'
  BY <1>1, <1>2, <1>3 DEF RowMirrorsCloud, TypeOK, WorkerInv
<1>10. ASSUME NEW e \in ExtIds, Reach(e)
      PROVE  Reach(e)'
  <2>1. \A k \in Keys : Filled(k)' => Filled(k) \/ k = key[w]
    BY <1>2 DEF Filled
  <2> QED
    BY <1>10, <1>1, <2>1, CommitReach
<1>11. ASSUME Whole
      PROVE  Whole'
  <2>1. \A k \in Keys : appts[k] # None => appts'[k] # None
    BY <1>2, DistinctAssumption
  <2>2. answers \subseteq answers'
    OBVIOUS
  <2>3. ASSUME NEW x \in Workers, Holding(x), NEW q \in cloud[key[x]].tokens
        PROVE  q \in pending'[x] \/ <<key[x], q>> \in answers'
    BY <1>11, <2>2, <2>3 DEF Whole, TypeOK
  <2>4. ASSUME NEW h \in Hooks, pc[h] = "update"
        PROVE  appts'[key[h]] # None
    BY <1>11, <2>1, <2>4 DEF Whole, HookInv
  <2> QED
    BY <1>11, <2>2, <2>3, <2>4 DEF Whole, Restorable
<1> QED
  BY <1>4, <1>5, <1>6, <1>7, <1>8, <1>9, <1>10, <1>11 DEF Kept

LEMMA StoreCustomKeeps ==
  ASSUME Core, NEW w \in Workers, StoreCustom(w)
  PROVE  Kept
<1> USE DEF Core, StoreCustom
<1>1. pc[w] = "store" /\ Commit(w) /\ staged' = staged \ {w}
  BY DEF Commit
<1>2. /\ key[w] \in Keys
      /\ appts' \in [Keys -> Row \cup {None}]
      /\ \A k \in Keys : k # key[w] \/ w \notin staged => appts'[k] = appts[k]
      /\ w \in staged => appts'[key[w]] = Booking(w) /\ appts[key[w]] = None
      /\ Booking(w).status = "scheduled" /\ Booking(w).ext = Primary(w)
  BY <1>1, CommitFacts
<1>3. cloud[key[w]] # None /\ cloud[key[w]].ext = ext[w]
  BY <1>1 DEF WorkerInv
<1>4. TypeOK'
  BY <1>1, <1>2, <1>3 DEF TypeOK
<1>5. WorkerInv'
  BY <1>1, <1>2, <1>3, DistinctAssumption DEF TypeOK, WorkerInv, WorkerLabels, StagedInv
<1>6. HookInv'
  BY <1>1, <1>2, <1>3, DistinctAssumption DEF TypeOK, HookInv, HookLabels, StagedInv
<1>7. StagedInv'
  BY <1>1, <1>2, <1>3 DEF TypeOK, StagedInv
<1>8. KnownKeys'
  BY <1>1, <1>2, <1>3 DEF TypeOK, KnownKeys, WorkerInv
<1>9. RowMirrorsCloud'
  BY <1>1, <1>2, <1>3 DEF RowMirrorsCloud, TypeOK, WorkerInv
<1>10. ASSUME NEW e \in ExtIds, Reach(e)
      PROVE  Reach(e)'
  <2>1. \A k \in Keys : Filled(k)' => Filled(k) \/ k = key[w]
    BY <1>2 DEF Filled
  <2> QED
    BY <1>10, <1>1, <2>1, CommitReach
<1>11. ASSUME Whole
      PROVE  Whole'
  <2>1. \A k \in Keys : appts[k] # None => appts'[k] # None
    BY <1>2, DistinctAssumption
  <2>2. answers \subseteq answers'
    OBVIOUS
  <2>3. ASSUME NEW x \in Workers, Holding(x), NEW q \in cloud[key[x]].tokens
        PROVE  q \in pending'[x] \/ <<key[x], q>> \in answers'
    BY <1>11, <2>2, <2>3 DEF Whole, TypeOK
  <2>4. ASSUME NEW h \in Hooks, pc[h] = "update"
        PROVE  appts'[key[h]] # None
    BY <1>11, <2>1, <2>4 DEF Whole, HookInv
  <2> QED
    BY <1>11, <2>2, <2>3, <2>4 DEF Whole, Restorable
<1> QED
  BY <1>4, <1>5, <1>6, <1>7, <1>8, <1>9, <1>10, <1>11 DEF Kept

LEMMA RespondKeeps ==
  ASSUME Core, NEW w \in Workers, Respond(w)
  PROVE  Kept
<1> USE DEF Core, Respond, CloseWorker, Close
<1>1. TypeOK'
  BY DEF TypeOK, Row, CloudAppt, Statuses, Times, WorkerInv
<1>2. WorkerInv'
  BY DistinctAssumption, MaxFutureAssumption DEF TypeOK, WorkerInv, WorkerLabels
<1>3. HookInv'
  BY DistinctAssumption DEF TypeOK, HookInv, HookLabels
<1>4. StagedInv'
  BY DEF TypeOK, StagedInv
<1>5. KnownKeys'
  BY DEF TypeOK, KnownKeys, WorkerInv
<1>6. RowMirrorsCloud'
  BY DEF RowMirrorsCloud
<1>7. ASSUME NEW e \in ExtIds, Reach(e)
      PROVE  Reach(e)'
  BY <1>7 DEF TypeOK, WorkerInv, Reach, Filled, Linked
<1>8. ASSUME Whole
      PROVE  Whole'
  BY <1>8 DEF TypeOK, WorkerInv, HookInv, Whole, Restorable, KnownKeys
<1> QED
  BY <1>1, <1>2, <1>3, <1>4, <1>5, <1>6, <1>7, <1>8 DEF Kept

LEMMA DeliverKeeps ==
  ASSUME Core, NEW h \in Hooks, Deliver(h)
  PROVE  Kept
<1> USE DEF Core, Deliver
<1>1. PICK event \in events :
      /\ key' = [key EXCEPT ![h] = event[1]]
      /\ news' = [news EXCEPT ![h] = event[2]]
  OBVIOUS
<1>2. event[1] \in Keys /\ event[2] \in Outcomes /\ event = <<event[1], event[2]>>
  BY DEF TypeOK
<1>3. h \notin staged
  BY DEF HookInv
<1>4. TypeOK'
  BY <1>1, <1>2, <1>3 DEF TypeOK, Row, CloudAppt, Statuses, Outcomes
<1>5. WorkerInv'
  BY <1>1, <1>2, <1>3, DistinctAssumption, MaxFutureAssumption
  DEF TypeOK, WorkerInv, WorkerLabels
<1>6. HookInv'
  BY <1>1, <1>2, <1>3, DistinctAssumption DEF TypeOK, HookInv, HookLabels, Outcomes
<1>7. StagedInv'
  BY <1>1, <1>2, <1>3 DEF TypeOK, StagedInv
<1>8. KnownKeys'
  BY <1>1, <1>2, <1>3 DEF TypeOK, KnownKeys
<1>9. RowMirrorsCloud'
  BY <1>1, <1>2, <1>3 DEF RowMirrorsCloud
<1>10. ASSUME NEW e \in ExtIds, Reach(e)
      PROVE  Reach(e)'
  BY <1>1, <1>2, <1>3, <1>10, DistinctAssumption DEF TypeOK, WorkerInv, Reach, Filled, Linked
<1>11. ASSUME Whole
      PROVE  Whole'
  BY <1>1, <1>2, <1>3, <1>11, DistinctAssumption
  DEF TypeOK, WorkerInv, HookInv, Whole, Restorable, KnownKeys
<1> QED
  BY <1>4, <1>5, <1>6, <1>7, <1>8, <1>9, <1>10, <1>11 DEF Kept

LEMMA SelectRowKeeps ==
  ASSUME Core, NEW h \in Hooks, SelectRow(h)
  PROVE  Kept
<1> USE DEF Core, SelectRow, CloseHook, Close
<1>1. TypeOK'
  BY DEF TypeOK, Row, CloudAppt, Statuses, Times
<1>2. WorkerInv'
  BY DistinctAssumption, MaxFutureAssumption DEF TypeOK, WorkerInv, WorkerLabels
<1>3. HookInv'
  BY DistinctAssumption DEF TypeOK, HookInv, HookLabels, KnownKeys, CloudAppt
<1>4. StagedInv'
  BY DEF TypeOK, StagedInv
<1>5. KnownKeys'
  BY DEF TypeOK, KnownKeys
<1>6. RowMirrorsCloud'
  BY DEF RowMirrorsCloud
<1>7. ASSUME NEW e \in ExtIds, Reach(e)
      PROVE  Reach(e)'
  <2>1. \A x \in Workers : /\ pc'[x] = pc[x] /\ key'[x] = key[x]
                           /\ x \in staged' <=> x \in staged
    BY DistinctAssumption DEF TypeOK
  <2>2. UNCHANGED <<tables, cloud, ext, top>>
    OBVIOUS
  <2> HIDE DEF SelectRow, CloseHook, Close, Core
  <2> QED
    BY <1>7, <2>1, <2>2 DEF Reach, Filled, Linked
<1>8. ASSUME Whole
      PROVE  Whole'
  BY <1>8, DistinctAssumption DEF TypeOK, WorkerInv, HookInv, Whole, Restorable, KnownKeys
<1> QED
  BY <1>1, <1>2, <1>3, <1>4, <1>5, <1>6, <1>7, <1>8 DEF Kept

LEMMA WriteRowKeeps ==
  ASSUME Core, NEW h \in Hooks, WriteRow(h),
         pc[h] = "update" => appts[key[h]] # None
  PROVE  Kept
<1> USE DEF Core, WriteRow, Locked
<1>1. TypeOK'
  BY DEF TypeOK, Row, CloudAppt, Statuses, Times
<1>2. WorkerInv'
  BY DistinctAssumption, MaxFutureAssumption DEF TypeOK, WorkerInv, WorkerLabels
<1>3. HookInv'
  BY DistinctAssumption DEF TypeOK, HookInv, HookLabels
<1>4. StagedInv'
  BY DEF TypeOK, StagedInv
<1>5. KnownKeys'
  BY DEF TypeOK, KnownKeys
<1>6. RowMirrorsCloud'
  BY DEF RowMirrorsCloud
<1>7. ASSUME NEW e \in ExtIds, Reach(e)
      PROVE  Reach(e)'
  BY <1>7 DEF TypeOK, WorkerInv, Reach, Filled, Linked
<1>8. ASSUME Whole
      PROVE  Whole'
  BY <1>8 DEF TypeOK, WorkerInv, HookInv, Whole, Restorable, KnownKeys
<1> QED
  BY <1>1, <1>2, <1>3, <1>4, <1>5, <1>6, <1>7, <1>8 DEF Kept

\* What a webhook's commit makes of the row.
LEMMA SettledFacts ==
  ASSUME Core, NEW h \in Hooks, pc[h] = "commit"
  PROVE  /\ Settled(h) \in Row
         /\ Nested(key[h]) => Settled(h).ext = cloud[key[h]].ext
         /\ appts[key[h]] # None => Settled(h).ext = appts[key[h]].ext
         /\ appts[key[h]] = None => Settled(h).ext = cloud[key[h]].ext
         /\ Settled(h).status = news[h]
<1> USE DEF Core
<1>1. key[h] \in Keys /\ news[h] \in Statuses
  BY DEF HookInv, Statuses
<1>2. CASE appts[key[h]] = None
  <2>1. cloud[key[h]].ext \in ExtIds
    BY <1>2 DEF HookInv
  <2> QED
    BY <1>1, <1>2, <2>1 DEF Settled, Row, Times
<1>3. CASE appts[key[h]] # None
  <2>1. /\ appts[key[h]] \in Row
        /\ Nested(key[h]) => appts[key[h]].ext = cloud[key[h]].ext
    BY <1>1, <1>3 DEF TypeOK, RowMirrorsCloud
  <2> QED
    BY <1>1, <1>3, <2>1 DEF Settled, Row
<1> QED
  BY <1>2, <1>3

LEMMA CommitRowKeeps ==
  ASSUME Core, NEW h \in Hooks, CommitRow(h)
  PROVE  Kept
<1> USE DEF Core, CommitRow, CloseHook, Close
<1>1. key[h] \in Keys /\ h \in staged
  BY DEF HookInv
<1>2. /\ Settled(h) \in Row
      /\ Nested(key[h]) => Settled(h).ext = cloud[key[h]].ext
      /\ Settled(h).status = news[h]
  BY <1>1, SettledFacts DEF HookInv
<1>3. cloud[key[h]] # None /\ <<key[h], news[h]>> \in events /\ news[h] \in Outcomes
  BY <1>1 DEF HookInv, KnownKeys
<1>4. Settled(h) # None
  BY <1>2, DistinctAssumption
<1>5. TypeOK'
  BY <1>1, <1>2, <1>3, <1>4 DEF TypeOK, Row, CloudAppt, Statuses, Times
<1>6. WorkerInv'
  BY <1>1, <1>2, <1>3, <1>4, DistinctAssumption DEF TypeOK, WorkerInv, WorkerLabels, StagedInv
<1>7. HookInv'
  BY <1>1, <1>2, <1>3, <1>4, DistinctAssumption DEF TypeOK, HookInv, HookLabels, StagedInv
<1>8. StagedInv'
  BY <1>1, <1>2, <1>3, <1>4 DEF TypeOK, StagedInv
<1>9. KnownKeys'
  BY <1>1, <1>2, <1>3, <1>4 DEF TypeOK, KnownKeys
<1>10. RowMirrorsCloud'
  BY <1>1, <1>2, <1>3, <1>4 DEF RowMirrorsCloud
<1>11. ASSUME NEW e \in ExtIds, Reach(e)
      PROVE  Reach(e)'
  <2>1. \A x \in Workers : /\ pc'[x] = pc[x] /\ key'[x] = key[x]
                           /\ x \in staged' <=> x \in staged
    BY DistinctAssumption DEF TypeOK
  <2>2. \A k \in Keys : /\ appts[k] # None => appts'[k] # None
                        /\ k # key[h] => appts'[k] = appts[k]
    BY <1>1, <1>4 DEF TypeOK
  <2>3. appts'[key[h]] = Settled(h)
    BY <1>1 DEF TypeOK
  <2>4. ASSUME NEW k \in Keys, Nested(k), cloud[k].ext = e, Filled(k)
        PROVE  Linked(k)'
    BY <1>11, <1>2, <1>4, <2>2, <2>3, <2>4 DEF Reach, Linked
  <2>5. \A x \in Workers : pc[x] = "store" => key[x] \in Keys
    BY DEF WorkerInv
  <2>6. UNCHANGED <<people, answers, customs, cloud, ext, top>>
    OBVIOUS
  <2> HIDE DEF CommitRow, CloseHook, Close, Core
  <2> QED
    BY <1>11, <2>1, <2>2, <2>4, <2>5, <2>6 DEF Reach, Filled
<1>12. ASSUME Whole
      PROVE  Whole'
  BY <1>1, <1>2, <1>3, <1>4, <1>12, DistinctAssumption
  DEF TypeOK, WorkerInv, HookInv, Whole, Restorable, KnownKeys
<1> QED
  BY <1>5, <1>6, <1>7, <1>8, <1>9, <1>10, <1>11, <1>12 DEF Kept

LEMMA CloudBookingKeeps ==
  ASSUME Core, NEW e \in ExtIds \cup {Nobody}, CloudBooking(e)
  PROVE  Kept
<1> USE DEF Core, CloudBooking
<1>1. TypeOK'
  BY DistinctAssumption DEF TypeOK, Row, CloudAppt, Statuses
<1>2. WorkerInv'
  BY DEF TypeOK, WorkerInv, WorkerLabels
<1>3. HookInv'
  BY DEF TypeOK, HookInv, HookLabels, KnownKeys
<1>4. StagedInv'
  BY DEF TypeOK, StagedInv
<1>5. KnownKeys'
  BY DEF TypeOK, KnownKeys
<1>6. RowMirrorsCloud'
  BY DEF RowMirrorsCloud, TypeOK
<1>7. ASSUME NEW f \in ExtIds, Reach(f)
      PROVE  Reach(f)'
  <2>1. \A k \in Keys : Filled(k) => cloud[k] # None
    BY DEF Filled, KnownKeys
  <2>2. \A k \in Keys : cloud[k] # None => cloud'[k] = cloud[k]
    BY DEF TypeOK
  <2> QED
    BY <1>7, <2>1, <2>2 DEF Reach, Filled, Linked
<1>8. ASSUME Whole
      PROVE  Whole'
  BY <1>8 DEF TypeOK, WorkerInv, HookInv, Whole, Restorable, KnownKeys
<1> QED
  BY <1>1, <1>2, <1>3, <1>4, <1>5, <1>6, <1>7, <1>8 DEF Kept

LEMMA CloudSettleKeeps ==
  ASSUME Core, NEW k \in Keys, NEW outcome \in Outcomes, CloudSettle(k, outcome)
  PROVE  Kept
<1> USE DEF Core, CloudSettle
<1>1. cloud' \in [Keys -> CloudAppt \cup {None}]
  BY DistinctAssumption DEF TypeOK, CloudAppt, Statuses
<1>2. \A j \in Keys : /\ cloud'[j] = None <=> cloud[j] = None
                      /\ cloud'[j].ext = cloud[j].ext
                      /\ cloud'[j].flat = cloud[j].flat
                      /\ cloud'[j].tokens = cloud[j].tokens
  BY DistinctAssumption DEF TypeOK, CloudAppt, Statuses
<1>3. TypeOK'
  BY <1>1, <1>2 DEF TypeOK, Row, CloudAppt, Statuses, Times
<1>4. WorkerInv'
  BY <1>1, <1>2, DistinctAssumption, MaxFutureAssumption DEF TypeOK, WorkerInv, WorkerLabels
<1>5. HookInv'
  BY <1>1, <1>2 DEF TypeOK, HookInv, HookLabels, Outcomes
<1>6. StagedInv'
  BY <1>1, <1>2 DEF TypeOK, StagedInv
<1>7. KnownKeys'
  BY <1>1, <1>2 DEF TypeOK, KnownKeys, Outcomes
<1>8. RowMirrorsCloud'
  BY <1>1, <1>2 DEF RowMirrorsCloud
<1>9. ASSUME NEW e \in ExtIds, Reach(e)
      PROVE  Reach(e)'
  <2>1. UNCHANGED <<tables, pc, key, ext, top, staged>>
    OBVIOUS
  <2>2. \A j \in Keys : Nested(j)' => Nested(j)
    BY <1>2
  <2> HIDE DEF Core, CloudSettle
  <2> QED
    BY <1>2, <1>9, <2>1, <2>2 DEF Reach, Filled, Linked
<1>10. ASSUME Whole
      PROVE  Whole'
  BY <1>1, <1>2, <1>10 DEF TypeOK, WorkerInv, HookInv, Whole, Restorable, KnownKeys
<1> QED
  BY <1>3, <1>4, <1>5, <1>6, <1>7, <1>8, <1>9, <1>10 DEF Kept

LEMMA ElapseKeeps ==
  ASSUME Core, NEW k \in Keys, Elapse(k)
  PROVE  Kept
<1> USE DEF Core, Elapse
<1>1. appts' \in [Keys -> Row \cup {None}]
  BY DistinctAssumption DEF TypeOK, Row, Times
<1>2. \A j \in Keys : /\ appts'[j] = None <=> appts[j] = None
                      /\ appts'[j].ext = appts[j].ext
                      /\ appts'[j].status = appts[j].status
  BY DistinctAssumption DEF TypeOK, Row, Times
<1>3. TypeOK'
  BY <1>1, <1>2 DEF TypeOK, Row, CloudAppt, Statuses, Times
<1>4. WorkerInv'
  BY <1>1, <1>2, DistinctAssumption, MaxFutureAssumption DEF TypeOK, WorkerInv, WorkerLabels
<1>5. HookInv'
  BY <1>1, <1>2, DistinctAssumption DEF TypeOK, HookInv, HookLabels
<1>6. StagedInv'
  BY <1>1, <1>2 DEF TypeOK, StagedInv
<1>7. KnownKeys'
  BY <1>1, <1>2 DEF TypeOK, KnownKeys
<1>8. RowMirrorsCloud'
  BY <1>1, <1>2 DEF RowMirrorsCloud
<1>9. ASSUME NEW e \in ExtIds, Reach(e)
      PROVE  Reach(e)'
  <2>1. UNCHANGED <<answers, people, cloud, pc, key, ext, top, staged>>
    OBVIOUS
  <2>2. \A x \in Workers : pc[x] = "store" => key[x] \in Keys
    BY DEF WorkerInv
  <2> HIDE DEF Core, Elapse
  <2> QED
    BY <1>2, <1>9, <2>1, <2>2 DEF Reach, Filled, Linked
<1>10. ASSUME Whole
      PROVE  Whole'
  BY <1>1, <1>2, <1>10 DEF TypeOK, WorkerInv, HookInv, Whole, Restorable, KnownKeys
<1> QED
  BY <1>3, <1>4, <1>5, <1>6, <1>7, <1>8, <1>9, <1>10 DEF Kept

LEMMA RegisterKeeps ==
  ASSUME Core, NEW i \in ExtIds, Register(i)
  PROVE  Kept
<1> USE DEF Core, Register
<1>1. Core'
  BY DEF TypeOK, StagedInv, KnownKeys, WorkerInv, HookInv, RowMirrorsCloud
<1>2. ASSUME NEW e \in ExtIds, Reach(e)
      PROVE  Reach(e)'
  BY <1>2 DEF Reach, Filled, Linked
<1>3. Whole => Whole'
  BY DEF Whole, Restorable
<1> QED
  BY <1>1, <1>2, <1>3 DEF Kept

LEMMA LocalDataKeeps ==
  ASSUME Core, LocalData
  PROVE  Kept
<1>1. /\ customs' \subseteq Keys
      /\ UNCHANGED <<appts, answers, people, remote, pc, form, key, news, staged, confirmed>>
  BY DistinctAssumption DEF LocalData, PutCustom, DropCustom, Core, TypeOK
<1>2. Core'
  BY <1>1 DEF Core, TypeOK, StagedInv, KnownKeys, WorkerInv, HookInv, RowMirrorsCloud
<1>3. ASSUME NEW e \in ExtIds, Reach(e)
      PROVE  Reach(e)'
  BY <1>1, <1>3 DEF Reach, Filled, Linked
<1>4. Whole => Whole'
  BY <1>1 DEF Whole, Restorable
<1> QED
  BY <1>2, <1>3, <1>4 DEF Kept

LEMMA CheckNoShowsKeeps ==
  ASSUME Core, NEW w \in Workers, CheckNoShows(w)
  PROVE  Kept
<1> USE DEF Core, CheckNoShows
<1>1. NoShows(Primary(w)) \subseteq Keys
  BY DEF NoShows, RowsOf
<1>2. 0..Cardinality(NoShows(Primary(w))) \subseteq 0..Cardinality(Keys)
  BY <1>1, FiniteAssumption, FS_Subset, FS_CardinalityType
<1>3. SUFFICES ASSUME ~(CloseWorker(w) /\ UNCHANGED confirmed)
               PROVE  Kept
  BY CloseWorkerKeeps
<1>4. PICK s \in Services, n \in 0..Cardinality(Keys), m \in 0..Cardinality(Keys) :
        /\ limit' = [limit EXCEPT ![w] = Cap(s, n, m)]
        /\ Goto(w, "future")
        /\ UNCHANGED <<tables, remote, ext, top, pending, custom, start, key, news,
                       staged, confirmed>>
  <2>1. PICK s \in Services, n \in 0..Cardinality(NoShows(Primary(w))) :
          \E m \in IF SameWindow(LimitsFor(s, n)) THEN {n}
                   ELSE 0..Cardinality(NoShows(Primary(w))) :
            /\ limit' = [limit EXCEPT ![w] = Cap(s, n, m)]
            /\ Goto(w, "future")
            /\ UNCHANGED <<tables, remote, ext, top, pending, custom, start, key, news,
                           staged, confirmed>>
    BY <1>3
  <2>2. PICK m \in 0..Cardinality(NoShows(Primary(w))) :
            /\ limit' = [limit EXCEPT ![w] = Cap(s, n, m)]
            /\ Goto(w, "future")
            /\ UNCHANGED <<tables, remote, ext, top, pending, custom, start, key, news,
                           staged, confirmed>>
    BY <2>1
  <2> QED
    BY <1>2, <2>1, <2>2
<1>5. Cap(s, n, m) \in Nat /\ Cap(s, n, m) <= MaxFuture
  BY CapAssumption
<1> HIDE DEF CheckNoShows
<1>6. TypeOK'
  BY <1>1, <1>2, <1>3, <1>4, <1>5 DEF TypeOK, Row, CloudAppt, Statuses, Times
<1>7. WorkerInv'
  BY <1>1, <1>2, <1>3, <1>4, <1>5, DistinctAssumption, MaxFutureAssumption
  DEF TypeOK, WorkerInv, WorkerLabels, CheckNoShows
<1>8. HookInv'
  BY <1>1, <1>2, <1>3, <1>4, <1>5, DistinctAssumption DEF TypeOK, HookInv, HookLabels
<1>9. StagedInv'
  BY <1>1, <1>2, <1>3, <1>4, <1>5 DEF TypeOK, StagedInv
<1>10. KnownKeys'
  BY <1>1, <1>2, <1>3, <1>4, <1>5 DEF TypeOK, KnownKeys
<1>11. RowMirrorsCloud'
  BY <1>1, <1>2, <1>3, <1>4, <1>5 DEF RowMirrorsCloud
<1>12. ASSUME NEW e \in ExtIds, Reach(e)
      PROVE  Reach(e)'
  BY <1>1, <1>2, <1>3, <1>4, <1>5, <1>12
  DEF TypeOK, WorkerInv, Reach, Filled, Linked, CheckNoShows
<1>13. ASSUME Whole
      PROVE  Whole'
  BY <1>1, <1>2, <1>3, <1>4, <1>5, <1>13 DEF TypeOK, Whole, Restorable, CheckNoShows
<1> QED
  BY <1>6, <1>7, <1>8, <1>9, <1>10, <1>11, <1>12, <1>13 DEF Kept

\* The steps that only decide where the handler goes next.
LEMMA QueryKeeps ==
  ASSUME Core, NEW w \in Workers, CheckFuture(w) \/ CheckCooldown(w)
  PROVE  Kept
<1> USE DEF Core
<1>1. SUFFICES ASSUME ~(CloseWorker(w) /\ UNCHANGED confirmed)
               PROVE  Kept
  BY CloseWorkerKeeps
<1>2. PICK label \in {"cooldown", "intercept"} :
        /\ pc[w] \in {"future", "cooldown"}
        /\ Goto(w, label)
        /\ UNCHANGED <<tables, remote, form, key, news, staged, confirmed>>
  BY <1>1 DEF CheckFuture, CheckCooldown
<1>3. TypeOK'
  BY <1>1, <1>2 DEF TypeOK, Row, CloudAppt, Statuses, Times
<1>4. WorkerInv'
  BY <1>1, <1>2, DistinctAssumption, MaxFutureAssumption DEF TypeOK, WorkerInv, WorkerLabels
<1>5. HookInv'
  BY <1>1, <1>2, DistinctAssumption DEF TypeOK, HookInv, HookLabels
<1>6. StagedInv'
  BY <1>1, <1>2 DEF TypeOK, StagedInv
<1>7. KnownKeys'
  BY <1>1, <1>2 DEF TypeOK, KnownKeys
<1>8. RowMirrorsCloud'
  BY <1>1, <1>2 DEF RowMirrorsCloud
<1>9. ASSUME NEW e \in ExtIds, Reach(e)
      PROVE  Reach(e)'
  BY <1>1, <1>2, <1>9 DEF TypeOK, WorkerInv, Reach, Filled, Linked
<1>10. ASSUME Whole
      PROVE  Whole'
  BY <1>1, <1>2, <1>10 DEF TypeOK, WorkerInv, HookInv, Whole, Restorable, KnownKeys
<1> QED
  BY <1>3, <1>4, <1>5, <1>6, <1>7, <1>8, <1>9, <1>10 DEF Kept

LEMMA StutterKeeps ==
  ASSUME Core, UNCHANGED vars
  PROVE  Kept
<1> USE DEF Core, vars
<1>1. Core'
  BY DEF TypeOK, StagedInv, KnownKeys, WorkerInv, HookInv, RowMirrorsCloud
<1>2. ASSUME NEW e \in ExtIds, Reach(e)
      PROVE  Reach(e)'
  BY <1>2 DEF Reach, Filled, Linked
<1>3. Whole => Whole'
  BY DEF Whole, Restorable
<1> QED
  BY <1>1, <1>2, <1>3 DEF Kept

LEMMA WorkerKeeps ==
  ASSUME Core, NEW w \in Workers, Arrive(w) \/ Progress(w) \/ Crash(w)
  PROVE  Kept
<1>1. CASE CloseWorker(w) /\ UNCHANGED confirmed
  BY <1>1, CloseWorkerKeeps
<1>2. CASE ~(CloseWorker(w) /\ UNCHANGED confirmed)
  BY <1>2, ArriveKeeps, CheckNoShowsKeeps, QueryKeeps, InterceptKeeps,
     CloudCreateKeeps, ReceiveKeeps, RecordKeeps, StoreAnswerKeeps, StoreCustomKeeps,
     RespondKeeps
  DEF Progress, Crash, CloudReject, Timeout, IdsExhausted
<1> QED
  BY <1>1, <1>2

LEMMA HookKeeps ==
  ASSUME Core, NEW h \in Hooks, Deliver(h) \/ HookProgress(h) \/ HookCrash(h),
         pc[h] = "update" => appts[key[h]] # None
  PROVE  Kept
  BY CloseHookKeeps, DeliverKeeps, SelectRowKeeps, WriteRowKeeps, CommitRowKeeps
  DEF HookProgress, HookCrash, InsertConflict

LEMMA EnvironmentKeeps ==
  ASSUME Core, Environment
  PROVE  Kept
  BY CloudBookingKeeps, CloudSettleKeeps, ElapseKeeps, RegisterKeeps, DistinctAssumption
  DEF Environment

LEMMA NextKeeps == IInv /\ [Next]_vars => IInv'
<1> SUFFICES ASSUME IInv, [Next]_vars PROVE Kept
  BY DEF IInv, Kept
<1>1. Core /\ \A h \in Hooks : pc[h] = "update" => appts[key[h]] # None
  BY DEF IInv, Whole
<1> QED
  BY <1>1, WorkerKeeps, HookKeeps, EnvironmentKeeps, LocalDataKeeps, StutterKeeps DEF Next

THEOREM Inductive == Spec => []IInv
<1>1. Init => IInv
  BY InitInv
<1>2. IInv /\ [Next]_vars => IInv'
  BY NextKeeps
<1> QED
  BY <1>1, <1>2, PTL DEF Spec

\* Type correctness (every table, session and handler variable).
THEOREM TypeCorrect == Spec => []TypeOK
<1>1. IInv => TypeOK
  BY DEF IInv, Core
<1> QED
  BY <1>1, Inductive, PTL

-----------------------------------------------------------------------------
(***************************************************************************)
(* What is stored stays within reach                                       *)
(***************************************************************************)
\* Short of an erasure people stay,
LEMMA PeopleStay ==
  ASSUME [Next]_vars
  PROVE  people \subseteq people'
<1>1. ASSUME NEW w \in Workers, Arrive(w) \/ Progress(w) \/ Crash(w)
      PROVE  people \subseteq people'
  BY <1>1
  DEF Progress, Arrive, CheckNoShows, CheckFuture, CheckCooldown, Intercept,
      IdsExhausted, CloudCreate, CloudReject, Timeout, Receive, Record, StoreAnswer,
      StoreCustom, Respond, Crash, CloseWorker
<1>2. ASSUME NEW h \in Hooks, Deliver(h) \/ HookProgress(h) \/ HookCrash(h)
      PROVE  people \subseteq people'
  BY <1>2
  DEF HookProgress, Deliver, SelectRow, WriteRow, InsertConflict, CommitRow, HookCrash,
      CloseHook
<1>3. CASE Environment \/ LocalData
  BY <1>3 DEF Environment, CloudBooking, CloudSettle, Elapse, Register, LocalData,
     PutCustom, DropCustom
<1> QED
  BY <1>1, <1>2, <1>3 DEF Next, vars

\* rows stay and keep their owner,
LEMMA RowsStay ==
  ASSUME Core, [Next]_vars, NEW k \in Keys, appts[k] # None
  PROVE  appts'[k] # None /\ appts'[k].ext = appts[k].ext
<1>1. ASSUME NEW w \in Workers, StoreAnswer(w) \/ StoreCustom(w)
      PROVE  appts'[k] # None /\ appts'[k].ext = appts[k].ext
  BY <1>1, CommitFacts DEF StoreAnswer, StoreCustom
<1>2. ASSUME NEW w \in Workers, Arrive(w) \/ Progress(w) \/ Crash(w),
             ~(StoreAnswer(w) \/ StoreCustom(w))
      PROVE  UNCHANGED appts
  BY <1>2
  DEF Progress, Arrive, CheckNoShows, CheckFuture, CheckCooldown, Intercept,
      IdsExhausted, CloudCreate, CloudReject, Timeout, Receive, Record, Respond, Crash,
      CloseWorker
<1>3. ASSUME NEW h \in Hooks, CommitRow(h)
      PROVE  appts'[k] # None /\ appts'[k].ext = appts[k].ext
  <2>1. appts' = [appts EXCEPT ![key[h]] = Settled(h)] /\ pc[h] = "commit"
    BY <1>3 DEF CommitRow
  <2>2. Settled(h) # None /\ (appts[key[h]] # None => Settled(h).ext = appts[key[h]].ext)
    BY <2>1, SettledFacts, DistinctAssumption
  <2> QED
    BY <2>1, <2>2 DEF Core, TypeOK
<1>4. ASSUME NEW h \in Hooks, Deliver(h) \/ HookProgress(h) \/ HookCrash(h), ~CommitRow(h)
      PROVE  UNCHANGED appts
  BY <1>4 DEF HookProgress, Deliver, SelectRow, WriteRow, InsertConflict, HookCrash
<1>5. ASSUME NEW j \in Keys, Elapse(j)
      PROVE  appts'[k] # None /\ appts'[k].ext = appts[k].ext
  BY <1>5, DistinctAssumption DEF Elapse, Core, TypeOK, Row, Times
<1>6. CASE Environment /\ ~\E j \in Keys : Elapse(j)
  BY <1>6 DEF Environment, CloudBooking, CloudSettle, Register
<1>7. CASE LocalData \/ UNCHANGED vars
  BY <1>7 DEF LocalData, PutCustom, DropCustom, vars
<1> QED
  BY <1>1, <1>2, <1>3, <1>4, <1>5, <1>6, <1>7 DEF Next, Progress, HookProgress

\* appointments of the cloud keep who they are for,
LEMMA CloudStays ==
  ASSUME Core, [Next]_vars, NEW k \in Keys, cloud[k] # None
  PROVE  cloud'[k] # None /\ cloud'[k].ext = cloud[k].ext /\ cloud'[k].flat = cloud[k].flat
<1>1. ASSUME NEW w \in Workers, CloudCreate(w)
      PROVE  cloud'[k] = cloud[k]
  BY <1>1 DEF CloudCreate, Core, TypeOK
<1>2. ASSUME NEW w \in Workers, Arrive(w) \/ Progress(w) \/ Crash(w), ~CloudCreate(w)
      PROVE  UNCHANGED cloud
  BY <1>2
  DEF Progress, Arrive, CheckNoShows, CheckFuture, CheckCooldown, Intercept,
      IdsExhausted, CloudReject, Timeout, Receive, Record, StoreAnswer, StoreCustom,
      Respond, Crash, CloseWorker
<1>3. ASSUME NEW h \in Hooks, Deliver(h) \/ HookProgress(h) \/ HookCrash(h)
      PROVE  UNCHANGED cloud
  BY <1>3
  DEF HookProgress, Deliver, SelectRow, WriteRow, InsertConflict, CommitRow, HookCrash,
      CloseHook
<1>4. ASSUME NEW e \in ExtIds \cup {Nobody}, CloudBooking(e)
      PROVE  cloud'[k] = cloud[k]
  BY <1>4 DEF CloudBooking, Core, TypeOK
<1>5. ASSUME NEW j \in Keys, NEW outcome \in Announced, CloudSettle(j, outcome)
      PROVE  cloud'[k] # None /\ cloud'[k].ext = cloud[k].ext /\ cloud'[k].flat = cloud[k].flat
  <2>1. cloud[k] \in CloudAppt /\ cloud' = [cloud EXCEPT ![j].status = outcome]
    BY <1>5 DEF CloudSettle, Core, TypeOK
  <2>2. CASE k = j
    <3>1. cloud'[k] = [cloud[k] EXCEPT !.status = outcome]
      BY <2>1, <2>2 DEF Core, TypeOK
    <3>2. cloud'[k] \in CloudAppt
      BY <1>5, <2>1, <3>1, DistinctAssumption DEF CloudAppt, Statuses
    <3> QED
      BY <2>1, <3>1, <3>2, DistinctAssumption DEF CloudAppt
  <2>3. CASE k # j
    BY <2>1, <2>3 DEF Core, TypeOK
  <2> QED
    BY <2>2, <2>3
<1>6. CASE (\E j \in Keys : Elapse(j)) \/ (\E e \in ExtIds : Register(e)) \/ LocalData
  BY <1>6 DEF Elapse, Register, LocalData, PutCustom, DropCustom
<1> QED
  BY <1>1, <1>2, <1>3, <1>4, <1>5, <1>6 DEF Next, Environment, vars

\* and so what is linked stays linked.
LEMMA LinkStays ==
  ASSUME Core, [Next]_vars, NEW k \in Keys, Linked(k)
  PROVE  Linked(k)'
<1>1. appts[k] # None /\ cloud[k] # None /\ appts[k].ext = cloud[k].ext
  BY DEF Linked, Core, RowMirrorsCloud
<1>2. /\ appts'[k] # None /\ appts'[k].ext = appts[k].ext
      /\ cloud'[k].ext = cloud[k].ext /\ people \subseteq people'
  BY <1>1, RowsStay, CloudStays, PeopleStay
<1> QED
  BY <1>1, <1>2 DEF Linked

\* New custom data is that of a POST or of a PUT.
LEMMA NewCustoms ==
  ASSUME [Next]_vars, NEW k \in customs' \ customs
  PROVE  PutCustom(k) \/ \E w \in Workers : StoreCustom(w) /\ k = key[w]
<1>1. ASSUME NEW w \in Workers, StoreCustom(w)
      PROVE  k = key[w]
  BY <1>1 DEF StoreCustom
<1>2. ASSUME NEW w \in Workers, Arrive(w) \/ Progress(w) \/ Crash(w), ~StoreCustom(w)
      PROVE  FALSE
  BY <1>2
  DEF Progress, Arrive, CheckNoShows, CheckFuture, CheckCooldown, Intercept,
      IdsExhausted, CloudCreate, CloudReject, Timeout, Receive, Record, StoreAnswer,
      Respond, Crash, CloseWorker
<1>3. ASSUME NEW h \in Hooks, Deliver(h) \/ HookProgress(h) \/ HookCrash(h)
      PROVE  FALSE
  BY <1>3
  DEF HookProgress, Deliver, SelectRow, WriteRow, InsertConflict, CommitRow, HookCrash,
      CloseHook
<1>4. CASE Environment \/ UNCHANGED vars
  BY <1>4 DEF Environment, CloudBooking, CloudSettle, Elapse, Register, vars
<1>5. ASSUME NEW j \in Keys, PutCustom(j) \/ DropCustom(j)
      PROVE  PutCustom(k)
  <2>1. PutCustom(j) /\ j = k
    BY <1>5 DEF PutCustom, DropCustom
  <2> QED
    BY <2>1
<1>6. CASE LocalData
  BY <1>5, <1>6, DistinctAssumption DEF LocalData
<1> QED
  BY <1>1, <1>2, <1>3, <1>4, <1>6 DEF Next

\* Custom data gets out of reach by a PUT alone: a POST's commit makes the link.
LEMMA CustomsReach ==
  ASSUME Core, [Next]_vars, NEW k \in Keys, NEW e \in ExtIds, Reach(e),
         Nested(k)', cloud'[k].ext = e, k \in customs', ~Linked(k)'
  PROVE  (k \in customs /\ ~Linked(k)) \/ PutCustom(k)
<1>1. CASE k \in customs
  BY <1>1, LinkStays
<1>2. ASSUME NEW w \in Workers, StoreCustom(w), k = key[w]
      PROVE  FALSE
  <2>1. /\ pc[w] = "store" /\ Commit(w)
        /\ UNCHANGED <<cloud, people, ext, top, key>>
    BY <1>2 DEF StoreCustom
  <2>2. Nested(key[w]) /\ cloud[key[w]].ext = e
    BY <1>2, <2>1
  <2> QED
    BY <1>2, <2>1, <2>2, CommitLinks
<1> QED
  BY <1>1, <1>2, NewCustoms

\* Answers are within forget_person's reach, custom data gets out of it only by a
\* PUT for an appointment that is not linked.
THEOREM ErasureReaches == Spec => ErasureReach
<1>1. ASSUME IInv, IInv', [Next]_vars, NEW k \in Keys, (Nested(k) /\ cloud[k].ext # Nobody)'
      PROVE  /\ Filled(k)' => Linked(k)'
             /\ k \in customs' /\ ~Linked(k)' => \/ k \in customs /\ ~Linked(k)
                                                \/ PutCustom(k)
  <2>1. cloud'[k].ext \in ExtIds
    BY <1>1 DEF IInv, Core, TypeOK, CloudAppt
  <2>2. Filled(k)' => Linked(k)'
    BY <1>1, <2>1 DEF IInv, Reach
  <2> QED
    BY <1>1, <2>1, <2>2, CustomsReach DEF IInv
<1>2. IInv /\ IInv' /\ [Next]_vars =>
        [\A k \in Keys : (Nested(k) /\ cloud[k].ext # Nobody)' =>
           /\ Filled(k)' => Linked(k)'
           /\ k \in customs' /\ ~Linked(k)' => \/ k \in customs /\ ~Linked(k)
                                              \/ PutCustom(k)]_vars
  BY <1>1
<1> QED
  BY <1>2, Inductive, PTL DEF Spec, ErasureReach

\* Answers redacted from a confirmed appointment can be restored.
THEOREM Restores == Spec => []Restorable
<1>1. IInv => Restorable
  BY DEF IInv, Whole
<1> QED
  BY <1>1, Inductive, PTL

\* A row names the cloud's owner and an outcome the cloud announced.
THEOREM MirrorsCloud == Spec => []RowMirrorsCloud
<1>1. IInv => RowMirrorsCloud
  BY DEF IInv, Core
<1> QED
  BY <1>1, Inductive, PTL

-----------------------------------------------------------------------------
(***************************************************************************)
(* The cap.  A step disturbs the bound of e only by admitting one of its   *)
(* requests, and then the count it has just read is below the cap, or by   *)
(* turning an admitted request into a row, which moves one unit from one   *)
(* side of the sum to the other.                                           *)
(***************************************************************************)
Bound(e) == Cardinality(FutureKeys(e)) + Cardinality(InFlight(e))
              <= MaxFuture - 1 + Cardinality(Workers)

LEMMA Finite ==
  ASSUME NEW e
  PROVE  /\ IsFiniteSet(FutureKeys(e)) /\ Cardinality(FutureKeys(e)) \in Nat
         /\ IsFiniteSet(InFlight(e)) /\ Cardinality(InFlight(e)) \in Nat
         /\ Cardinality(InFlight(e)) <= Cardinality(Workers)
         /\ Cardinality(Workers) \in Nat \ {0}
<1>1. FutureKeys(e) \subseteq Keys /\ InFlight(e) \subseteq Workers
  BY DEF FutureKeys, RowsOf, InFlight
<1> QED
  BY <1>1, FiniteAssumption, FS_Subset, FS_CardinalityType, FS_EmptySet

LEMMA FiniteNext ==
  ASSUME NEW e
  PROVE  /\ IsFiniteSet(FutureKeys(e)') /\ Cardinality(FutureKeys(e)') \in Nat
         /\ IsFiniteSet(InFlight(e)') /\ Cardinality(InFlight(e)') \in Nat
         /\ Cardinality(InFlight(e)') <= Cardinality(Workers)
<1>1. FutureKeys(e)' \subseteq Keys /\ InFlight(e)' \subseteq Workers
  BY DEF FutureKeys, RowsOf, InFlight
<1> QED
  BY <1>1, FiniteAssumption, FS_Subset, FS_CardinalityType

\* Neither side of the sum grows.
Calm(e) == FutureKeys(e)' \subseteq FutureKeys(e) /\ InFlight(e)' \subseteq InFlight(e)

LEMMA CalmKeeps ==
  ASSUME NEW e, Bound(e), Calm(e)
  PROVE  Bound(e)'
<1>1. /\ Cardinality(FutureKeys(e)') <= Cardinality(FutureKeys(e))
      /\ Cardinality(InFlight(e)') <= Cardinality(InFlight(e))
  BY Finite, FS_Subset DEF Calm
<1> QED
  BY <1>1, Finite, FiniteNext, MaxFutureAssumption DEF Bound

LEMMA CloseWorkerCalm ==
  ASSUME Core, NEW w \in Workers, NEW e \in ExtIds, CloseWorker(w)
  PROVE  Calm(e)
  BY DistinctAssumption
  DEF Core, TypeOK, Calm, FutureKeys, RowsOf, InFlight, CloseWorker, Close

\* The steps of a POST that neither admit it nor commit its row.
LEMMA WorkerCalm ==
  ASSUME Core, NEW w \in Workers, NEW e \in ExtIds,
         \/ Arrive(w) \/ CheckNoShows(w) \/ CheckCooldown(w) \/ IdsExhausted(w)
         \/ CloudCreate(w) \/ CloudReject(w) \/ Timeout(w) \/ Receive(w)
         \/ Record(w) \/ Respond(w) \/ Crash(w)
  PROVE  Calm(e)
<1>1. CASE CloseWorker(w)
  BY <1>1, CloseWorkerCalm
<1>2. CASE ~CloseWorker(w)
  <2>1. UNCHANGED appts
    BY <1>2 DEF Arrive, CheckNoShows, CheckCooldown, IdsExhausted, CloudCreate,
       CloudReject, Timeout, Receive, Record, Respond, Crash
  <2>2. FutureKeys(e)' = FutureKeys(e)
    BY <2>1 DEF FutureKeys, RowsOf
  <2>3. CASE Arrive(w)
    BY <2>2, <2>3, DistinctAssumption
    DEF Arrive, Calm, InFlight, Core, TypeOK, WorkerInv
  <2>4. CASE CheckNoShows(w)
    BY <1>2, <2>2, <2>4, DistinctAssumption DEF CheckNoShows, Calm, InFlight, Core, TypeOK
  <2>5. CASE CheckCooldown(w) \/ CloudCreate(w) \/ Receive(w) \/ Record(w)
    BY <1>2, <2>2, <2>5, DistinctAssumption
    DEF CheckCooldown, CloudCreate, Receive, Record, Calm, InFlight, Core, TypeOK
  <2> QED
    BY <1>2, <2>3, <2>4, <2>5 DEF IdsExhausted, CloudReject, Timeout, Respond, Crash
<1> QED
  BY <1>1, <1>2

\* A webhook never makes a row count: what it writes is an outcome.
LEMMA HookCalm ==
  ASSUME Core, NEW h \in Hooks, NEW e \in ExtIds,
         Deliver(h) \/ HookProgress(h) \/ HookCrash(h)
  PROVE  Calm(e)
<1>1. InFlight(e)' \subseteq InFlight(e)
  BY DistinctAssumption
  DEF Deliver, HookProgress, HookCrash, SelectRow, WriteRow, InsertConflict, CommitRow,
      CloseHook, Close, InFlight, Core, TypeOK
<1>2. CASE CommitRow(h)
  <2>1. Settled(h).status # "scheduled" /\ key[h] \in Keys
    BY <1>2, SettledFacts DEF CommitRow, Core, HookInv, Outcomes
  <2> QED
    BY <1>1, <1>2, <2>1 DEF CommitRow, Calm, FutureKeys, RowsOf, Core, TypeOK
<1>3. CASE ~CommitRow(h)
  BY <1>1, <1>3
  DEF Deliver, HookProgress, HookCrash, SelectRow, WriteRow, InsertConflict, CloseHook,
      Calm, FutureKeys, RowsOf
<1> QED
  BY <1>2, <1>3

LEMMA EnvironmentCalm ==
  ASSUME Core, NEW e \in ExtIds, Environment
  PROVE  Calm(e)
<1>1. InFlight(e)' = InFlight(e)
  BY DEF Environment, CloudBooking, CloudSettle, Elapse, Register, InFlight
<1>2. CASE \E k \in Keys : Elapse(k)
  BY <1>1, <1>2 DEF Elapse, Calm, FutureKeys, RowsOf, Core, TypeOK, Row
<1> QED
  BY <1>1, <1>2
  DEF Environment, CloudBooking, CloudSettle, Register, Calm, FutureKeys, RowsOf

LEMMA LocalDataCalm ==
  ASSUME NEW e \in ExtIds, LocalData
  PROVE  Calm(e)
  BY DEF LocalData, PutCustom, DropCustom, Calm, FutureKeys, RowsOf, InFlight

\* Admission: the count just read is below the cap.
LEMMA CheckFutureBound ==
  ASSUME Core, NEW w \in Workers, NEW e \in ExtIds, Bound(e), CheckFuture(w)
  PROVE  Bound(e)'
<1>1. CASE CloseWorker(w)
  BY <1>1, CloseWorkerCalm, CalmKeeps
<1>2. CASE ~CloseWorker(w) /\ Primary(w) # e
  <2>1. Calm(e)
    BY <1>2 DEF CheckFuture, Calm, FutureKeys, RowsOf, InFlight, Core, TypeOK
  <2> QED
    BY <2>1, CalmKeeps
<1>3. CASE ~CloseWorker(w) /\ Primary(w) = e
  <2>1. FutureKeys(e)' = FutureKeys(e)
    BY <1>3 DEF CheckFuture, FutureKeys, RowsOf
  <2>2. ~(Cardinality(FutureKeys(e)) >= limit[w])
    BY <1>3 DEF CheckFuture
  <2>3. limit[w] \in Nat /\ limit[w] <= MaxFuture
    BY DEF Core, TypeOK, WorkerInv
  <2> QED
    BY <2>1, <2>2, <2>3, Finite, FiniteNext, MaxFutureAssumption DEF Bound
<1> QED
  BY <1>1, <1>2, <1>3

\* An invented external_id has no row yet.
LEMMA InterceptBound ==
  ASSUME Core, NEW w \in Workers, NEW e \in ExtIds, Bound(e), Intercept(w)
  PROVE  Bound(e)'
<1>1. FutureKeys(e)' = FutureKeys(e)
  BY DEF Intercept, FutureKeys, RowsOf
<1>2. CASE ext[w] = Anon /\ e \in Fresh
  <2>1. FutureKeys(e) = {}
    BY <1>2 DEF FutureKeys, RowsOf, Fresh, Core, RowMirrorsCloud
  <2> QED
    BY <1>1, <2>1, FiniteNext, Finite, FS_EmptySet, MaxFutureAssumption DEF Bound
<1>3. CASE ~(ext[w] = Anon /\ e \in Fresh)
  <2>1. InFlight(e)' \subseteq InFlight(e)
    BY <1>3, DistinctAssumption DEF Intercept, InFlight, Core, TypeOK
  <2> QED
    BY <1>1, <2>1, CalmKeeps DEF Calm
<1> QED
  BY <1>2, <1>3

\* A set grows by at most one with one more element.
LEMMA OneMore ==
  ASSUME NEW S, NEW x, IsFiniteSet(S)
  PROVE  /\ IsFiniteSet(S \cup {x})
         /\ Cardinality(S \cup {x}) <= Cardinality(S) + 1
<1>1. Cardinality(S) \in Nat
  BY FS_CardinalityType
<1>2. /\ IsFiniteSet(S \cup {x})
      /\ \/ Cardinality(S \cup {x}) = Cardinality(S)
         \/ Cardinality(S \cup {x}) = Cardinality(S) + 1
  BY FS_AddElement
<1> QED
  BY <1>1, <1>2

\* It shrinks by one with a member less.
LEMMA OneLess ==
  ASSUME NEW S, NEW x \in S, IsFiniteSet(S)
  PROVE  Cardinality(S \ {x}) = Cardinality(S) - 1
  BY FS_RemoveElement

\* The commit turns the request into a row.
LEMMA CommitBound ==
  ASSUME Core, NEW w \in Workers, NEW e \in ExtIds, Bound(e),
         StoreAnswer(w) \/ StoreCustom(w)
  PROVE  Bound(e)'
<1>1. /\ pc[w] = "store"
      /\ Commit(w)
      /\ UNCHANGED <<pc, ext, top, key>>
  BY DEF StoreAnswer, StoreCustom
<1>2. /\ key[w] \in Keys
      /\ \A k \in Keys : k # key[w] \/ w \notin staged => appts'[k] = appts[k]
      /\ w \in staged => appts'[key[w]] = Booking(w) /\ appts[key[w]] = None
  BY <1>1, CommitFacts
<1>3. InFlight(e)' = InFlight(e) \ (IF w \in staged THEN {w} ELSE {})
  BY <1>1 DEF Commit, InFlight
<1>4. CASE w \in staged /\ Primary(w) = e
  <2>1. FutureKeys(e)' \subseteq FutureKeys(e) \cup {key[w]}
    BY <1>2 DEF FutureKeys, RowsOf
  <2>2. Cardinality(FutureKeys(e)') <= Cardinality(FutureKeys(e)) + 1
    <3>1. /\ IsFiniteSet(FutureKeys(e) \cup {key[w]})
          /\ Cardinality(FutureKeys(e) \cup {key[w]}) <= Cardinality(FutureKeys(e)) + 1
      BY Finite, OneMore
    <3>2. Cardinality(FutureKeys(e)') <= Cardinality(FutureKeys(e) \cup {key[w]})
      BY <2>1, <3>1, FS_Subset
    <3> QED
      BY <3>1, <3>2, Finite, FiniteNext, FS_CardinalityType
  <2>3. w \in InFlight(e)
    BY <1>4 DEF InFlight
  <2>4. Cardinality(InFlight(e)') = Cardinality(InFlight(e)) - 1
    <3>1. InFlight(e)' = InFlight(e) \ {w}
      BY <1>3, <1>4
    <3> QED
      BY <2>3, <3>1, Finite, OneLess
  <2> QED
    BY <2>2, <2>4, Finite, FiniteNext, MaxFutureAssumption DEF Bound
<1>5. CASE ~(w \in staged /\ Primary(w) = e)
  <2>1. FutureKeys(e)' \subseteq FutureKeys(e)
    BY <1>2, <1>5 DEF FutureKeys, RowsOf, Booking
  <2> QED
    BY <1>3, <2>1, CalmKeeps DEF Calm
<1> QED
  BY <1>4, <1>5

LEMMA NextBound ==
  ASSUME Core, [Next]_vars, NEW e \in ExtIds, Bound(e)
  PROVE  Bound(e)'
<1>1. ASSUME NEW w \in Workers, Arrive(w) \/ Progress(w) \/ Crash(w) PROVE Bound(e)'
  <2>1. CASE CheckFuture(w)
    BY <2>1, CheckFutureBound
  <2>2. CASE Intercept(w)
    BY <2>2, InterceptBound
  <2>3. CASE StoreAnswer(w) \/ StoreCustom(w)
    BY <2>3, CommitBound
  <2> QED
    BY <1>1, <2>1, <2>2, <2>3, WorkerCalm, CalmKeeps DEF Progress
<1>2. ASSUME NEW h \in Hooks, Deliver(h) \/ HookProgress(h) \/ HookCrash(h)
      PROVE  Bound(e)'
  BY <1>2, HookCalm, CalmKeeps
<1>3. CASE Environment
  BY <1>3, EnvironmentCalm, CalmKeeps
<1>5. CASE LocalData
  BY <1>5, LocalDataCalm, CalmKeeps
<1>4. CASE UNCHANGED vars
  <2>1. Calm(e)
    BY <1>4 DEF vars, Calm, FutureKeys, RowsOf, InFlight
  <2> QED
    BY <2>1, CalmKeeps
<1> QED
  BY <1>1, <1>2, <1>3, <1>4, <1>5 DEF Next

\* Concurrent requests exceed the cap by less than their own number: whatever
\* interleaving, a person's scheduled future rows stay below MaxFuture plus the
\* number of requests served at once.
THEOREM CapHolds == Spec => []OvershootBounded
<1>1. Init => OvershootBounded
  <2>1. ASSUME Init, NEW e \in ExtIds PROVE Bound(e)
    <3>1. FutureKeys(e) = {} /\ InFlight(e) = {}
      BY <2>1, DistinctAssumption DEF Init, FutureKeys, RowsOf, InFlight, Sessions
    <3> QED
      BY <3>1, Finite, FS_EmptySet, MaxFutureAssumption DEF Bound
  <2> QED
    BY <2>1 DEF OvershootBounded, Bound
<1>2. Core /\ OvershootBounded /\ [Next]_vars => OvershootBounded'
  <2>1. ASSUME Core, OvershootBounded, [Next]_vars, NEW e \in ExtIds PROVE Bound(e)'
    BY <2>1, NextBound DEF OvershootBounded, Bound
  <2> QED
    BY <2>1 DEF OvershootBounded, Bound
<1>3. IInv => Core
  BY DEF IInv
<1> QED
  BY <1>1, <1>2, <1>3, Inductive, PTL DEF Spec

-----------------------------------------------------------------------------
(***************************************************************************)
(* Refinement of AppointmentLedger.                                        *)
(***************************************************************************)
Abs == [k \in Keys |-> IF appts[k] = None THEN None
                       ELSE [ext |-> appts[k].ext, status |-> appts[k].status]]

EntryOf(row) == [ext |-> row.ext, status |-> row.status]

\* Storing a new row is an entry in the ledger, changing one settles it.
LEMMA TrackStep ==
  ASSUME Core, NEW k \in Keys, NEW row \in Row, appts[k] = None,
         appts' = [appts EXCEPT ![k] = row]
  PROVE  Ledger!Next
<1>1. EntryOf(row) \in Ledger!Entry
  BY DEF Row, EntryOf, Ledger!Entry, Statuses
<1>2. row # None
  BY DistinctAssumption
<1>3. Ledger!Track(k, EntryOf(row))
  BY <1>2 DEF Ledger!Track, EntryOf, Core, TypeOK
<1> QED
  BY <1>1, <1>3 DEF Ledger!Next

LEMMA SettleStep ==
  ASSUME Core, NEW k \in Keys, NEW row \in Row, appts[k] # None,
         row.ext = appts[k].ext, row.status \in Outcomes,
         appts' = [appts EXCEPT ![k] = row]
  PROVE  Ledger!Next
<1>1. row # None
  BY DistinctAssumption
<1>2. Abs[k] # None /\ Abs[k] = EntryOf(appts[k])
  <2>1. EntryOf(appts[k]) \in [ext : ExtIds, status : Statuses]
    BY DEF Core, TypeOK, Row, EntryOf
  <2> QED
    BY <2>1, DistinctAssumption DEF Abs, EntryOf
<1>3. [EntryOf(appts[k]) EXCEPT !.status = row.status] = EntryOf(row)
  BY DEF EntryOf
<1>4. Abs' = [Abs EXCEPT ![k] = EntryOf(row)]
  BY <1>1 DEF Abs, EntryOf, Core, TypeOK
<1>5. Abs' = [Abs EXCEPT ![k].status = row.status]
  BY <1>2, <1>3, <1>4
<1>6. Ledger!Settle(k, row.status)
  BY <1>2, <1>5 DEF Ledger!Settle, Abs
<1> QED
  BY <1>6 DEF Ledger!Next

LEMMA SameEntries == UNCHANGED appts => UNCHANGED Abs
  BY DEF Abs

LEMMA CommitSteps ==
  ASSUME Core, NEW w \in Workers, StoreAnswer(w) \/ StoreCustom(w)
  PROVE  Ledger!Next \/ UNCHANGED appts
<1>1. pc[w] = "store" /\ Commit(w)
  BY DEF StoreAnswer, StoreCustom
<1>2. CASE w \in staged
  <2>1. key[w] \in Keys /\ appts[key[w]] = None
    BY <1>1, <1>2, CommitFacts
  <2>2. Booking(w) \in Row
    BY <1>2, DistinctAssumption
    DEF Core, TypeOK, WorkerInv, Booking, Row, Statuses
  <2> QED
    BY <1>1, <1>2, <2>1, <2>2, TrackStep DEF Commit
<1>3. CASE w \notin staged
  BY <1>1, <1>3 DEF Commit
<1> QED
  BY <1>2, <1>3

LEMMA CommitRowStep ==
  ASSUME Core, NEW h \in Hooks, CommitRow(h)
  PROVE  Ledger!Next
<1>1. /\ pc[h] = "commit"
      /\ appts' = [appts EXCEPT ![key[h]] = Settled(h)]
      /\ key[h] \in Keys
      /\ news[h] \in Outcomes
  BY DEF CommitRow, Core, HookInv
<1>2. /\ Settled(h) \in Row
      /\ appts[key[h]] # None => Settled(h).ext = appts[key[h]].ext
      /\ Settled(h).status = news[h]
  BY <1>1, SettledFacts
<1>3. CASE appts[key[h]] = None
  BY <1>1, <1>2, <1>3, TrackStep
<1>4. CASE appts[key[h]] # None
  BY <1>1, <1>2, <1>4, SettleStep
<1> QED
  BY <1>3, <1>4

LEMMA ElapseStep ==
  ASSUME Core, NEW k \in Keys, Elapse(k)
  PROVE  UNCHANGED Abs
<1>1. \A j \in Keys : /\ appts'[j] = None <=> appts[j] = None
                      /\ appts'[j].ext = appts[j].ext
                      /\ appts'[j].status = appts[j].status
  BY DistinctAssumption DEF Elapse, Core, TypeOK, Row, Times
<1> QED
  BY <1>1 DEF Abs

LEMMA NextRefines ==
  ASSUME Core, [Next]_vars
  PROVE  Ledger!Next \/ UNCHANGED Abs
<1>1. ASSUME NEW w \in Workers, Arrive(w) \/ Progress(w) \/ Crash(w)
      PROVE  Ledger!Next \/ UNCHANGED appts
  BY <1>1, CommitSteps
  DEF Progress, Arrive, CheckNoShows, CheckFuture, CheckCooldown, Intercept,
      IdsExhausted, CloudCreate, CloudReject, Timeout, Receive, Record, Respond, Crash,
      CloseWorker
<1>2. ASSUME NEW h \in Hooks, Deliver(h) \/ HookProgress(h) \/ HookCrash(h)
      PROVE  Ledger!Next \/ UNCHANGED appts
  BY <1>2, CommitRowStep
  DEF HookProgress, Deliver, SelectRow, WriteRow, InsertConflict, HookCrash
<1>3. CASE Environment \/ LocalData
  BY <1>3, ElapseStep, SameEntries
  DEF Environment, CloudBooking, CloudSettle, Register, LocalData, PutCustom, DropCustom
<1>4. CASE UNCHANGED vars
  BY <1>4, SameEntries DEF vars
<1> QED
  BY <1>1, <1>2, <1>3, <1>4, SameEntries DEF Next

\* The handlers, however they interleave, crash or overtake each other, only
\* ever make the ledger's moves.
THEOREM RefinesLedger == Spec => LedgerSpec
<1>1. Init => Ledger!Init
  BY DEF Init, Ledger!Init
<1>2. Core /\ [Next]_vars => [Ledger!Next]_Abs
  BY NextRefines
<1>3. IInv => Core
  BY DEF IInv
<1> QED
  BY <1>1, <1>2, <1>3, Inductive, PTL DEF Spec, LedgerSpec, Ledger!Spec, Abs

=============================================================================
