---------------------------- MODULE ErasureProofs ----------------------------
(***************************************************************************)
(* Proofs about Erasure for any number of handlers, keys, people and       *)
(* questions.  EInv is the inductive invariant.  Of what the handlers rely *)
(* on (AppointmentsProofs), an erasure leaves Core as it is, and Reach(e)  *)
(* as long as e is not in mixed; the rest says, statement by statement,    *)
(* what an erasure has found and what an export has gathered so far.       *)
(***************************************************************************)
EXTENDS Erasure, AppointmentsProofs

Exporting == {"list", "replies", "extras", "answer"}

\* The rows a transaction has deleted are still there, are the person's, and
\* are locked: no other transaction has written them.
CutInv ==
  /\ step \notin {"customs", "commit"} => cut.rows = {}
  /\ cut.rows \subseteq RowsOf(who)
  /\ \A s \in staged : key[s] \notin cut.rows

\* An erasure that overlaps a request of its person is known to be mixed.
MixedInv ==
  /\ step # "idle" => who \in ExtIds
  /\ step \in Erasing /\ Busy(who) => who \in mixed

\* What an erasure that is not mixed has read or deleted stays all there is.
SweepInv ==
  step \in Erasing /\ who \notin mixed =>
    /\ step # "keys" => /\ \A a \in AnswersOf(who) : a[1] \in seen
                        /\ Tracked(who) \subseteq seen
    /\ step \in {"rows", "customs", "commit"} => AnswersOf(who) \subseteq cut.answers
    /\ step \in {"customs", "commit"} => RowsOf(who) \subseteq cut.rows
    /\ step = "commit" => /\ Tracked(who) \subseteq cut.customs
                          /\ profile \cap {who} \subseteq cut.profile

\* What is owed stays stored until it is given, and its keys are those of rows
\* that are owed too.
GatherInv ==
  step \in Exporting /\ who \notin mixed =>
    /\ owed.rows \subseteq RowsOf(who)
    /\ owed.answers \subseteq answers /\ \A a \in owed.answers : a[1] \in owed.rows
    /\ owed.customs \subseteq customs \cap owed.rows
    /\ owed.profile \subseteq profile \cap {who}
    /\ step # "list" => owed.rows \subseteq given.rows
    /\ step \in {"extras", "answer"} => owed.answers \subseteq given.answers
    /\ step = "answer" => /\ owed.customs \subseteq given.customs
                          /\ owed.profile \subseteq given.profile

EInv ==
  /\ Core /\ EraseTypeOK /\ CutInv /\ MixedInv
  /\ \A e \in ExtIds \ mixed : Reach(e)
  /\ SweepInv /\ GatherInv

\* What a transaction holds in hand.
Data == [answers : SUBSET (Keys \X Questions), rows : SUBSET Keys,
         customs : SUBSET Keys, profile : SUBSET ExtIds]

USE DEF tables, remote, form, Goto, Sessions, Holding, Taken, HasOwner, AllStored,
        AtLimit, Nested, Primary, Exporting, Then

-----------------------------------------------------------------------------
(***************************************************************************)
(* What a step of the other handlers may do to the tables                  *)
(***************************************************************************)
\* Rows stay and keep their owner, answers and custom data stay, the cloud keeps
\* what it has; and what is new comes from a request or delivery about the
\* person it is stored of.
Grows ==
  /\ \A k \in Keys : appts[k] # None => appts'[k] # None /\ appts'[k].ext = appts[k].ext
  /\ \A k \in Keys : appts[k] = None /\ appts'[k] # None => Busy(appts'[k].ext)
  /\ answers \subseteq answers' /\ customs \subseteq customs'
  /\ \A a \in answers' \ answers : cloud[a[1]] # None /\ Busy(cloud[a[1]].ext)
  /\ \A k \in customs' \ customs : cloud[k] # None /\ Busy(cloud[k].ext)
  /\ \A k \in Keys : cloud[k] # None => /\ cloud'[k] # None
                                        /\ cloud'[k].ext = cloud[k].ext
                                        /\ cloud'[k].flat = cloud[k].flat

LEMMA SameGrows == UNCHANGED <<appts, answers, customs, cloud>> => Grows
  BY DEF Grows

LEMMA CommitGrows ==
  ASSUME Core, NEW w \in Workers, StoreAnswer(w) \/ StoreCustom(w)
  PROVE  Grows
<1>1. pc[w] = "store" /\ Commit(w) /\ cloud' = cloud
  BY DEF StoreAnswer, StoreCustom
<1>2. /\ key[w] \in Keys
      /\ \A k \in Keys : k # key[w] \/ w \notin staged => appts'[k] = appts[k]
      /\ w \in staged => appts'[key[w]] = Booking(w) /\ appts[key[w]] = None
      /\ Booking(w).ext = Primary(w)
  BY <1>1, CommitFacts
<1>3. /\ cloud[key[w]] # None /\ cloud[key[w]].ext = ext[w]
  BY <1>1 DEF Core, WorkerInv
<1>4. Busy(Primary(w)) /\ Busy(ext[w])
  BY <1>1 DEF Busy
<1>5. /\ answers \subseteq answers' /\ \A a \in answers' \ answers : a[1] = key[w]
      /\ customs \subseteq customs' /\ customs' \ customs \subseteq {key[w]}
  BY DEF StoreAnswer, StoreCustom
<1> QED
  BY <1>1, <1>2, <1>3, <1>4, <1>5 DEF Grows

LEMMA WorkerGrows ==
  ASSUME Core, NEW w \in Workers, Arrive(w) \/ Progress(w) \/ Crash(w)
  PROVE  Grows
<1>1. CASE StoreAnswer(w) \/ StoreCustom(w)
  BY <1>1, CommitGrows
<1>2. CASE CloudCreate(w)
  BY <1>2, DistinctAssumption DEF CloudCreate, Grows, Core, TypeOK
<1>3. CASE /\ ~(StoreAnswer(w) \/ StoreCustom(w))
           /\ ~CloudCreate(w)
  <2>1. UNCHANGED <<appts, answers, customs, cloud>>
    BY <1>3
    DEF Progress, Arrive, CheckNoShows, CheckFuture, CheckCooldown, Intercept,
        IdsExhausted, CloudReject, Timeout, Receive, Record, Respond, Crash, CloseWorker
  <2> QED
    BY <2>1, SameGrows
<1> QED
  BY <1>1, <1>2, <1>3

LEMMA HookGrows ==
  ASSUME Core, NEW h \in Hooks, Deliver(h) \/ HookProgress(h) \/ HookCrash(h)
  PROVE  Grows
<1>1. CASE CommitRow(h)
  <2>1. pc[h] = "commit" /\ key[h] \in Keys
    BY <1>1 DEF CommitRow, Core, HookInv
  <2>2. /\ Settled(h) \in Row
        /\ appts[key[h]] # None => Settled(h).ext = appts[key[h]].ext
        /\ appts[key[h]] = None => Settled(h).ext = cloud[key[h]].ext
    BY <2>1, SettledFacts
  <2>3. Settled(h) # None
    BY <2>2, DistinctAssumption
  <2>4. appts' = [appts EXCEPT ![key[h]] = Settled(h)]
    BY <1>1 DEF CommitRow
  <2>5. UNCHANGED <<answers, customs, cloud>>
    BY <1>1 DEF CommitRow, CloseHook
  <2>6. Busy(cloud[key[h]].ext)
    BY <2>1 DEF Busy
  <2> QED
    BY <2>1, <2>2, <2>3, <2>4, <2>5, <2>6 DEF Grows, Core, TypeOK
<1>2. CASE ~CommitRow(h)
  <2>1. UNCHANGED <<appts, answers, customs, cloud>>
    BY <1>2 DEF HookProgress, Deliver, SelectRow, WriteRow, InsertConflict, HookCrash,
       CloseHook
  <2> QED
    BY <2>1, SameGrows
<1> QED
  BY <1>1, <1>2

LEMMA EnvironmentGrows ==
  ASSUME Core, Environment
  PROVE  Grows
<1>1. ASSUME NEW e \in ExtIds \cup {Nobody}, CloudBooking(e)
      PROVE  Grows
  BY <1>1 DEF CloudBooking, Grows, Core, TypeOK
<1>2. ASSUME NEW k \in Keys, NEW outcome \in Announced, CloudSettle(k, outcome)
      PROVE  Grows
  BY <1>2, DistinctAssumption DEF CloudSettle, Grows, Core, TypeOK, CloudAppt, Statuses
<1>3. ASSUME NEW k \in Keys, Elapse(k)
      PROVE  Grows
  <2>1. \A j \in Keys : /\ appts'[j] = None <=> appts[j] = None
                        /\ appts'[j].ext = appts[j].ext
    BY <1>3, DistinctAssumption DEF Elapse, Core, TypeOK, Row, Times
  <2> QED
    BY <1>3, <2>1 DEF Elapse, Grows
<1>4. ASSUME NEW e \in ExtIds, Register(e)
      PROVE  Grows
  BY <1>4, SameGrows DEF Register
<1> QED
  BY <1>1, <1>2, <1>3, <1>4 DEF Environment

\* The handlers of Erasure are steps of Appointments: a webhook whose UPDATE
\* matches nothing ends like one that fails.
LEMMA HandlersAreSteps == Handlers => Next
  BY DEF Handlers, StaleUpdate, Stale, HookCrash, Next

LEMMA HandlersGrow ==
  ASSUME Core, Handlers
  PROVE  Grows
  BY WorkerGrows, HookGrows, EnvironmentGrows DEF Handlers, StaleUpdate, Stale, HookCrash

\* Of a person nothing is under way about, nothing new is stored (and custom data
\* under a key that has just become theirs has no row).
LEMMA QuietStep ==
  ASSUME Core, Core', Grows, NEW e \in ExtIds, ~Busy(e)
  PROVE  /\ AnswersOf(e)' \subseteq AnswersOf(e)
         /\ RowsOf(e)' \subseteq RowsOf(e)
         /\ Tracked(e)' \subseteq Tracked(e)
<1>1. \A k \in KeysOf(e)' : cloud[k] # None => k \in KeysOf(e)
  BY DEF KeysOf, Grows
<1>2. \A k \in Keys : cloud[k] # None /\ cloud[k].ext # e => k \notin KeysOf(e)'
  BY DEF KeysOf, Grows
<1>3. \A a \in answers : a[1] \in Keys /\ cloud[a[1]] # None
  BY DEF Core, TypeOK, KnownKeys
<1>4. \A a \in answers' : a[1] \in KeysOf(e)' => a \in answers
  BY <1>2 DEF Grows, KeysOf
<1>5. AnswersOf(e)' \subseteq AnswersOf(e)
  BY <1>1, <1>3, <1>4 DEF AnswersOf
<1>6. RowsOf(e)' \subseteq RowsOf(e)
  BY DEF RowsOf, Grows
<1>7. ASSUME NEW k \in Tracked(e)'
      PROVE  k \in Tracked(e)
  <2>1. k \in customs' /\ k \in KeysOf(e)' /\ k \in Keys /\ appts'[k] # None
    BY DEF Tracked, KeysOf
  <2>2. appts'[k].ext = e
    BY <2>1 DEF KeysOf, Core, RowMirrorsCloud
  <2>3. appts[k] # None
    BY <1>6, <2>1, <2>2 DEF RowsOf
  <2>4. k \in KeysOf(e)
    BY <1>1, <2>1, <2>3 DEF Core, RowMirrorsCloud
  <2>5. k \in customs
    BY <1>2, <2>1 DEF Grows
  <2> QED
    BY <2>3, <2>4, <2>5 DEF Tracked
<1> QED
  BY <1>5, <1>6, <1>7

-----------------------------------------------------------------------------
(***************************************************************************)
(* Steps of the other handlers                                             *)
(***************************************************************************)
\* A row is locked only by the handler whose next statement writes it, and that
\* handler has not met a row an erasure has deleted.
LEMMA HandlersLock ==
  ASSUME Core, Handlers, NEW t \in staged'
  PROVE  key'[t] = key[t] /\ (t \in staged \/ key[t] \notin cut.rows)
<1> USE DEF Core
<1>1. ASSUME NEW w \in Workers, Arrive(w) \/ (~Waiting(w) /\ Progress(w)) \/ Crash(w)
      PROVE  key'[t] = key[t] /\ (t \in staged \/ key[t] \notin cut.rows)
  <2>1. CASE CloseWorker(w)
    BY <2>1 DEF CloseWorker, Close, TypeOK
  <2>2. CASE CloudCreate(w)
    BY <2>2 DEF CloudCreate, TypeOK, WorkerInv
  <2>3. CASE Record(w) /\ ~CloseWorker(w)
    BY <1>1, <2>3 DEF Record, Arrive, Crash, Waiting
  <2>4. CASE StoreAnswer(w) \/ StoreCustom(w)
    BY <2>4 DEF StoreAnswer, StoreCustom, Commit
  <2>5. CASE \/ Arrive(w) \/ Intercept(w) \/ Receive(w)
             \/ ~CloseWorker(w) /\ (CheckNoShows(w) \/ CheckFuture(w) \/ CheckCooldown(w))
    BY <2>5 DEF Arrive, CheckNoShows, CheckFuture, CheckCooldown, Intercept, Receive
  <2> QED
    BY <1>1, <2>1, <2>2, <2>3, <2>4, <2>5
    DEF Progress, IdsExhausted, CloudReject, Timeout, Respond, Crash
<1>2. ASSUME NEW h \in Hooks,
             \/ Deliver(h) \/ HookCrash(h) \/ StaleUpdate(h)
             \/ ~Waiting(h) /\ ~Stale(h) /\ HookProgress(h)
      PROVE  key'[t] = key[t] /\ (t \in staged \/ key[t] \notin cut.rows)
  <2>1. CASE CloseHook(h)
    BY <2>1 DEF CloseHook, Close, TypeOK
  <2>2. CASE Deliver(h)
    BY <2>2 DEF Deliver, TypeOK, HookInv
  <2>3. CASE WriteRow(h) /\ ~Waiting(h)
    BY <2>3 DEF WriteRow, Waiting
  <2>4. CASE SelectRow(h) /\ ~CloseHook(h)
    BY <2>4 DEF SelectRow
  <2> QED
    BY <1>2, <2>1, <2>2, <2>3, <2>4
    DEF HookProgress, InsertConflict, CommitRow, HookCrash, StaleUpdate, WriteRow, Deliver
<1>3. CASE Environment
  BY <1>3 DEF Environment, CloudBooking, CloudSettle, Elapse, Register
<1> QED
  BY <1>1, <1>2, <1>3 DEF Handlers

LEMMA HandlersKeepCore ==
  ASSUME Core, Handlers
  PROVE  Kept
<1>1. ASSUME NEW w \in Workers, Arrive(w) \/ (~Waiting(w) /\ Progress(w)) \/ Crash(w)
      PROVE  Kept
  BY <1>1, WorkerKeeps
<1>2. ASSUME NEW h \in Hooks,
             \/ Deliver(h) \/ HookCrash(h) \/ StaleUpdate(h)
             \/ ~Waiting(h) /\ ~Stale(h) /\ HookProgress(h)
      PROVE  Kept
  <2>1. CASE HookCrash(h) \/ StaleUpdate(h)
    BY <2>1, CloseHookKeeps DEF HookCrash, StaleUpdate
  <2>2. CASE Deliver(h)
    BY <2>2, DeliverKeeps
  <2>3. CASE ~Stale(h) /\ HookProgress(h)
    BY <2>3, HookKeeps DEF Stale
  <2> QED
    BY <1>2, <2>1, <2>2, <2>3
<1> QED
  BY <1>1, <1>2, EnvironmentKeeps DEF Handlers

\* What ENext says of mixed.
Mixes == mixed' = mixed \cup {e \in ExtIds : step' \in Erasing /\ who' = e /\ Disturbed(e)}

LEMMA MixesKeeps ==
  ASSUME Mixes, step' # "idle" => who' \in ExtIds
  PROVE  MixedInv' /\ mixed \subseteq mixed'
<1>1. step' \in Erasing /\ Busy(who)' => who' \in mixed'
  BY DEF Mixes, Erasing, Disturbed
<1> QED
  BY <1>1 DEF MixedInv, Mixes

LEMMA HandlersKeep ==
  ASSUME EInv, Handlers, UNCHANGED <<profile, erasure, export>>, Mixes
  PROVE  EInv'
<1> USE DEF EInv, erasure, export
<1>1. Kept /\ Grows
  BY HandlersKeepCore, HandlersGrow
<1>2. MixedInv' /\ mixed \subseteq mixed' /\ mixed' \subseteq ExtIds
  BY MixesKeeps DEF MixedInv, Mixes, EraseTypeOK
<1>3. Core' /\ \A e \in ExtIds \ mixed' : Reach(e)'
  BY <1>1, <1>2 DEF Kept
<1>4. EraseTypeOK'
  BY <1>2, <1>3 DEF Core, EraseTypeOK
<1>5. CutInv'
  <2>1. RowsOf(who) \subseteq RowsOf(who)'
    BY <1>1 DEF Grows, RowsOf
  <2>2. \A t \in staged' : key'[t] \notin cut.rows
    BY HandlersLock DEF CutInv
  <2> QED
    BY <2>1, <2>2 DEF CutInv
<1>6. ASSUME step \in Erasing, who \notin mixed'
      PROVE  ~Busy(who) /\ who \in ExtIds /\ who \notin mixed
  BY <1>2, <1>6 DEF MixedInv, Erasing
<1>7. SweepInv'
  <2> SUFFICES ASSUME step \in Erasing, who \notin mixed'
               PROVE  SweepInv'
    BY DEF SweepInv
  <2>1. /\ AnswersOf(who)' \subseteq AnswersOf(who)
        /\ RowsOf(who)' \subseteq RowsOf(who)
        /\ Tracked(who)' \subseteq Tracked(who)
    BY <1>1, <1>3, <1>6, QuietStep
  <2> QED
    BY <1>6, <2>1 DEF SweepInv
<1>8. GatherInv'
  <2>1. RowsOf(who) \subseteq RowsOf(who)' /\ answers \subseteq answers'
        /\ customs \subseteq customs'
    BY <1>1 DEF Grows, RowsOf
  <2> QED
    BY <1>2, <2>1 DEF GatherInv
<1> QED
  BY <1>2, <1>3, <1>4, <1>5, <1>7, <1>8

-----------------------------------------------------------------------------
(***************************************************************************)
(* The erasure's own statements                                            *)
(***************************************************************************)
\* A statement that leaves the tables alone leaves what is said of them alone.
LEMMA ReadsKeep ==
  ASSUME EInv, UNCHANGED vars, Mixes, step' # "idle" => who' \in ExtIds
  PROVE  /\ Core' /\ TypeOK' /\ MixedInv'
         /\ \A e \in ExtIds \ mixed' : Reach(e)'
         /\ mixed \subseteq mixed' /\ mixed' \subseteq ExtIds
         /\ \A e : RowsOf(e)' = RowsOf(e) /\ KeysOf(e)' = KeysOf(e)
         /\ \A e : AnswersOf(e)' = AnswersOf(e) /\ Tracked(e)' = Tracked(e)
<1>1. Kept
  BY StutterKeeps DEF EInv
<1>2. MixedInv' /\ mixed \subseteq mixed' /\ mixed' \subseteq ExtIds
  BY MixesKeeps DEF MixedInv, Mixes, EInv, EraseTypeOK
<1>3. Core' /\ \A e \in ExtIds \ mixed' : Reach(e)'
  BY <1>1, <1>2 DEF Kept, EInv
<1>4. TypeOK'
  BY <1>3 DEF Core
<1>5. \A e : RowsOf(e)' = RowsOf(e) /\ KeysOf(e)' = KeysOf(e)
  BY DEF vars, RowsOf, KeysOf
<1>6. \A e : AnswersOf(e)' = AnswersOf(e) /\ Tracked(e)' = Tracked(e)
  BY <1>5 DEF vars, AnswersOf, Tracked
<1> QED
  BY <1>2, <1>3, <1>4, <1>5, <1>6

\* The query for the keys finds every key answers are stored under, and those of
\* custom data with a row.
LEMMA ReachFindsKeys ==
  ASSUME Core, NEW e \in ExtIds, Reach(e)
  PROVE  /\ \A a \in AnswersOf(e) : a[1] \in RowsOf(e)
         /\ Tracked(e) \subseteq RowsOf(e)
<1>1. ASSUME NEW a \in AnswersOf(e)
      PROVE  a[1] \in RowsOf(e)
  <2>1. /\ a[1] \in Keys /\ Nested(a[1]) /\ cloud[a[1]].ext = e
        /\ a[2] \in Questions /\ <<a[1], a[2]>> \in answers
    BY DEF AnswersOf, KeysOf, Core, TypeOK
  <2> QED
    BY <2>1 DEF Reach, Filled, Linked, RowsOf
<1>2. Tracked(e) \subseteq RowsOf(e)
  BY DEF Tracked, KeysOf, RowsOf, Core, RowMirrorsCloud
<1> QED
  BY <1>1, <1>2

LEMMA FindPersonKeeps ==
  ASSUME EInv, FindPerson, UNCHANGED export, Mixes
  PROVE  EInv'
<1> USE DEF EInv, FindPerson, export
<1>1. who' \in ExtIds
  BY DEF EraseTypeOK, TypeOK
<1>2. /\ Core' /\ TypeOK' /\ MixedInv' /\ mixed' \subseteq ExtIds
      /\ \A e \in ExtIds \ mixed' : Reach(e)'
  BY <1>1, ReadsKeep
<1>3. EraseTypeOK'
  BY <1>1, <1>2 DEF EraseTypeOK, Erasing
<1>4. CutInv'
  BY DEF CutInv, vars
<1>5. SweepInv' /\ GatherInv'
  BY DEF SweepInv, GatherInv
<1> QED
  BY <1>2, <1>3, <1>4, <1>5

LEMMA FindKeysKeeps ==
  ASSUME EInv, FindKeys, UNCHANGED export, Mixes
  PROVE  EInv'
<1> USE DEF EInv, FindKeys, export
<1>1. who' = who /\ who \in ExtIds
  BY DEF MixedInv
<1>2. /\ Core' /\ TypeOK' /\ MixedInv' /\ mixed' \subseteq ExtIds
      /\ \A e \in ExtIds \ mixed' : Reach(e)'
      /\ mixed \subseteq mixed'
      /\ RowsOf(who)' = RowsOf(who) /\ KeysOf(who)' = KeysOf(who)
      /\ AnswersOf(who)' = AnswersOf(who) /\ Tracked(who)' = Tracked(who)
  BY <1>1, ReadsKeep
<1>3. EraseTypeOK'
  BY <1>2 DEF EraseTypeOK, Erasing, RowsOf
<1>4. CutInv'
  BY <1>2 DEF CutInv, vars
<1>5. SweepInv'
  <2> SUFFICES ASSUME who \notin mixed'
               PROVE  /\ \A a \in AnswersOf(who) : a[1] \in RowsOf(who)
                      /\ Tracked(who) \subseteq RowsOf(who)
    BY <1>2 DEF SweepInv
  <2> QED
    BY <1>1, <1>2, ReachFindsKeys
<1>6. GatherInv'
  BY DEF GatherInv
<1> QED
  BY <1>2, <1>3, <1>4, <1>5, <1>6

LEMMA DeleteAnswersKeeps ==
  ASSUME EInv, DeleteAnswers, UNCHANGED export, Mixes
  PROVE  EInv'
<1> USE DEF EInv, DeleteAnswers, export
<1>1. who' = who /\ who \in ExtIds
  BY DEF MixedInv
<1>2. /\ Core' /\ TypeOK' /\ MixedInv' /\ mixed' \subseteq ExtIds
      /\ \A e \in ExtIds \ mixed' : Reach(e)'
      /\ mixed \subseteq mixed'
      /\ RowsOf(who)' = RowsOf(who) /\ KeysOf(who)' = KeysOf(who)
      /\ AnswersOf(who)' = AnswersOf(who) /\ Tracked(who)' = Tracked(who)
  BY <1>1, ReadsKeep
<1>3. cut'.rows = cut.rows /\ cut'.answers = {a \in answers : a[1] \in seen}
  BY DEF EraseTypeOK
<1>4. EraseTypeOK'
  <2>1. cut \in Data /\ answers \subseteq Keys \X Questions
    BY DEF EraseTypeOK, Core, TypeOK, Data
  <2>2. cut' \in Data
    BY <2>1 DEF Data
  <2> QED
    BY <1>2, <2>2 DEF EraseTypeOK, Erasing, Data
<1>5. CutInv'
  BY <1>2, <1>3 DEF CutInv, vars
<1>6. SweepInv'
  <2>1. who \notin mixed' => /\ \A a \in AnswersOf(who) : a[1] \in seen
                             /\ Tracked(who) \subseteq seen
    BY <1>2 DEF SweepInv, Erasing
  <2>2. AnswersOf(who) \subseteq answers
    BY DEF AnswersOf
  <2> QED
    BY <1>2, <1>3, <2>1, <2>2 DEF SweepInv
<1>7. GatherInv'
  BY DEF GatherInv
<1> QED
  BY <1>2, <1>4, <1>5, <1>6, <1>7

LEMMA DeleteRowsKeeps ==
  ASSUME EInv, DeleteRows, UNCHANGED export, Mixes
  PROVE  EInv'
<1> USE DEF EInv, DeleteRows, export
<1>1. who' = who /\ who \in ExtIds
  BY DEF MixedInv
<1>2. /\ Core' /\ TypeOK' /\ MixedInv' /\ mixed' \subseteq ExtIds
      /\ \A e \in ExtIds \ mixed' : Reach(e)'
      /\ mixed \subseteq mixed'
      /\ RowsOf(who)' = RowsOf(who) /\ KeysOf(who)' = KeysOf(who)
      /\ AnswersOf(who)' = AnswersOf(who) /\ Tracked(who)' = Tracked(who)
  BY <1>1, ReadsKeep
<1>3. cut'.rows = RowsOf(who) /\ cut'.answers = cut.answers
  BY DEF EraseTypeOK
<1>4. EraseTypeOK'
  BY <1>2 DEF EraseTypeOK, Erasing, RowsOf
<1>5. CutInv'
  BY <1>2, <1>3 DEF CutInv, vars, Locked
<1>6. SweepInv'
  BY <1>2, <1>3 DEF SweepInv, Erasing
<1>7. GatherInv'
  BY DEF GatherInv
<1> QED
  BY <1>2, <1>4, <1>5, <1>6, <1>7

LEMMA DeleteCustomsKeeps ==
  ASSUME EInv, DeleteCustoms, UNCHANGED export, Mixes
  PROVE  EInv'
<1> USE DEF EInv, DeleteCustoms, export
<1>1. who' = who /\ who \in ExtIds
  BY DEF MixedInv
<1>2. /\ Core' /\ TypeOK' /\ MixedInv' /\ mixed' \subseteq ExtIds
      /\ \A e \in ExtIds \ mixed' : Reach(e)'
      /\ mixed \subseteq mixed'
      /\ RowsOf(who)' = RowsOf(who) /\ KeysOf(who)' = KeysOf(who)
      /\ AnswersOf(who)' = AnswersOf(who) /\ Tracked(who)' = Tracked(who)
  BY <1>1, ReadsKeep
<1>3. /\ cut'.rows = cut.rows /\ cut'.answers = cut.answers
      /\ cut'.customs = customs \cap seen /\ cut'.profile = profile \cap {who}
  BY DEF EraseTypeOK
<1>4. EraseTypeOK'
  <2>1. cut \in Data /\ customs \subseteq Keys /\ profile \subseteq ExtIds
    BY DEF EraseTypeOK, Core, TypeOK, Data
  <2>2. cut' \in Data
    BY <2>1 DEF Data
  <2> QED
    BY <1>2, <2>2 DEF EraseTypeOK, Erasing, Data
<1>5. CutInv'
  BY <1>2, <1>3 DEF CutInv, vars
<1>6. SweepInv'
  <2>1. Tracked(who) \subseteq customs
    BY DEF Tracked
  <2> QED
    BY <1>2, <1>3, <2>1 DEF SweepInv, Erasing, vars
<1>7. GatherInv'
  BY DEF GatherInv
<1> QED
  BY <1>2, <1>4, <1>5, <1>6, <1>7

\* Nothing of the transaction remains.
LEMMA OverKeeps ==
  ASSUME EInv, Over, mixed' = mixed, UNCHANGED profile,
         Core', \A e \in ExtIds \ mixed : Reach(e)',
         {given', owed'} \subseteq {given, owed, NoData}
  PROVE  EInv'
<1> USE DEF EInv, Over
<1>1. TypeOK'
  BY DEF Core
<1>2. NoData \in [answers : SUBSET (Keys \X Questions), rows : SUBSET Keys,
                  customs : SUBSET Keys, profile : SUBSET ExtIds]
  BY DEF NoData
<1>3. profile' \subseteq ExtIds /\ mixed' \subseteq ExtIds
  BY DEF EraseTypeOK
<1>4. EraseTypeOK'
  BY <1>1, <1>2, <1>3 DEF EraseTypeOK
<1>5. CutInv' /\ MixedInv' /\ SweepInv' /\ GatherInv'
  BY DEF CutInv, MixedInv, SweepInv, GatherInv, NoData, Erasing
<1> QED
  BY <1>4, <1>5

LEMMA IdleMixes == Mixes /\ step' \notin Erasing => mixed' = mixed
  BY DEF Mixes

LEMMA EndsKeep ==
  ASSUME EInv, UNCHANGED <<vars, profile>>, Over, Mixes,
         {given', owed'} \subseteq {given, owed, NoData}
  PROVE  EInv'
<1>1. mixed' = mixed
  BY IdleMixes DEF Over, Erasing
<1>2. Core' /\ \A e \in ExtIds \ mixed : Reach(e)'
  BY <1>1, ReadsKeep DEF Over
<1> QED
  BY <1>1, <1>2, OverKeeps

\* An erasure that overlaps no request about its person deletes what is linked to
\* them.
LEMMA CommitErases ==
  ASSUME EInv, CommitErasure, NEW e \in ExtIds, e = who, e \notin mixed
  PROVE  /\ RowsOf(e)' = {} /\ AnswersOf(e)' = {} /\ e \notin profile'
         /\ \A k \in customs' \cap KeysOf(e)' : appts[k] = None
<1> USE DEF CommitErasure
<1>1. /\ AnswersOf(e) \subseteq cut.answers /\ RowsOf(e) \subseteq cut.rows
      /\ Tracked(e) \subseteq cut.customs
      /\ profile \cap {e} \subseteq cut.profile
  BY DEF EInv, SweepInv, Erasing
<1>2. \A k \in Keys : appts'[k] = IF k \in cut.rows THEN None ELSE appts[k]
  OBVIOUS
<1>3. RowsOf(e)' = {}
  BY <1>1, <1>2 DEF RowsOf
<1>4. KeysOf(e)' = KeysOf(e)
  BY DEF KeysOf
<1>5. AnswersOf(e)' = {}
  BY <1>1, <1>4 DEF AnswersOf
<1>6. \A k \in customs' \cap KeysOf(e)' : appts[k] = None
  BY <1>1, <1>4 DEF Tracked
<1> QED
  BY <1>1, <1>3, <1>5, <1>6

\* The commit takes what the person's rows link, and nothing of anyone else.
LEMMA CommitErasureKeeps ==
  ASSUME EInv, CommitErasure, UNCHANGED export, Mixes
  PROVE  EInv'
<1> USE DEF EInv, CommitErasure
<1>1. mixed' = mixed
  BY IdleMixes DEF Over, Erasing
<1>2. \A k \in Keys : appts'[k] = IF k \in cut.rows THEN None ELSE appts[k]
  OBVIOUS
<1>3. \A k \in cut.rows : k \in Keys /\ appts[k] # None /\ appts[k].ext = who
  BY DEF CutInv, RowsOf
<1>4. Core'
  <2>1. TypeOK'
    BY <1>2 DEF Core, TypeOK
  <2>2. WorkerInv'
    BY <1>2 DEF Core, TypeOK, WorkerInv
  <2>3. HookInv'
    BY <1>2 DEF Core, TypeOK, HookInv, CutInv
  <2>4. StagedInv' /\ KnownKeys'
    BY DEF Core, StagedInv, KnownKeys
  <2>5. RowMirrorsCloud'
    BY <1>2 DEF Core, RowMirrorsCloud
  <2> QED
    BY <2>1, <2>2, <2>3, <2>4, <2>5 DEF Core
<1>5. ASSUME NEW e \in ExtIds \ mixed
      PROVE  Reach(e)'
  <2>1. CASE e = who
    <3>1. ~Busy(who)
      BY <2>1 DEF MixedInv, Erasing
    <3>2. \A w \in Workers : ext[w] = e => pc[w] = "idle"
      BY <2>1, <3>1 DEF Busy
    <3>3. AnswersOf(e)' = {}
      BY <2>1, CommitErases
    <3>4. \A k \in KeysOf(e)' : ~Filled(k)'
      <4>1. ASSUME NEW k \in KeysOf(e)', NEW q \in Questions, <<k, q>> \in answers'
            PROVE  FALSE
        <5>1. <<k, q>>[1] = k
          OBVIOUS
        <5>2. <<k, q>> \in AnswersOf(e)'
          BY <4>1, <5>1 DEF AnswersOf
        <5> QED
          BY <3>3, <5>2
      <4> QED
        BY <4>1 DEF Filled
    <3> QED
      BY <2>1, <3>2, <3>4 DEF Reach, KeysOf
  <2>2. CASE e # who
    <3>1. \A k \in Keys : Nested(k) /\ cloud[k].ext = e => appts'[k] = appts[k]
      BY <1>2, <1>3, <2>2 DEF Core, RowMirrorsCloud
    <3>2. \A w \in Workers : ext[w] = e /\ top[w] = None /\ pc[w] = "store"
            => key[w] \in Keys /\ Nested(key[w]) /\ cloud[key[w]].ext = e
      BY DEF Core, WorkerInv
    <3>3. Reach(e) /\ (e \in people => e \in people')
      BY <2>2
    <3>4. \A k \in Keys : Filled(k)' => Filled(k)
      BY DEF Filled
    <3>5. ASSUME NEW k \in Keys, Nested(k), cloud[k].ext = e, Filled(k)
          PROVE  Linked(k)'
      <4>1. Linked(k)
        BY <3>3, <3>5 DEF Reach
      <4> QED
        BY <2>2, <3>1, <3>5, <4>1 DEF Linked
    <3>6. ASSUME NEW w \in Workers, ext[w] = e
          PROVE  /\ pc[w] = "forward" \/ Holding(w) => e \in people'
                 /\ top[w] = None /\ pc[w] = "store"
                      => w \in staged \/ appts'[key[w]] # None
      BY <3>1, <3>2, <3>3, <3>6 DEF Reach
    <3> QED
      BY <3>4, <3>5, <3>6 DEF Reach
  <2> QED
    BY <2>1, <2>2
<1>6. profile' \subseteq profile
  OBVIOUS
<1>7. EraseTypeOK'
  BY <1>1, <1>4, <1>6 DEF Core, EraseTypeOK, Over, NoData, export
<1>8. CutInv' /\ MixedInv' /\ SweepInv' /\ GatherInv'
  BY DEF CutInv, MixedInv, SweepInv, GatherInv, Over, NoData, Erasing
<1> QED
  BY <1>1, <1>4, <1>5, <1>7, <1>8

LEMMA EraseKeeps ==
  ASSUME EInv, Erase, Mixes
  PROVE  EInv'
<1>1. CASE EraseCrash
  BY <1>1, EndsKeep DEF Erase, EraseCrash, export
<1> QED
  BY <1>1, FindPersonKeeps, FindKeysKeeps, DeleteAnswersKeeps, DeleteRowsKeeps,
     DeleteCustomsKeeps, CommitErasureKeeps
  DEF Erase

-----------------------------------------------------------------------------
(***************************************************************************)
(* The export's statements, and custom data                                *)
(***************************************************************************)
\* An export leaves the tables alone, and what is said of erasures.
LEMMA ExportReads ==
  ASSUME EInv, UNCHANGED <<vars, profile, seen, cut>>, Mixes,
         step \notin Erasing, step' \in Exporting, who' \in ExtIds,
         given' \in Data, owed' \in Data
  PROVE  /\ Core' /\ EraseTypeOK' /\ CutInv' /\ MixedInv' /\ SweepInv'
         /\ \A e \in ExtIds \ mixed' : Reach(e)'
         /\ mixed' = mixed
         /\ RowsOf(who)' = RowsOf(who')
<1>1. step' \notin Erasing
  BY DEF Erasing
<1>2. mixed' = mixed
  BY <1>1, IdleMixes
<1>3. /\ Core' /\ TypeOK' /\ MixedInv' /\ mixed' \subseteq ExtIds
      /\ \A e \in ExtIds \ mixed' : Reach(e)'
      /\ \A e : RowsOf(e)' = RowsOf(e)
  BY ReadsKeep
<1>4. EraseTypeOK'
  BY <1>3 DEF EInv, EraseTypeOK, Data
<1>5. CutInv'
  BY DEF EInv, CutInv, Erasing, vars
<1>6. SweepInv'
  BY <1>1 DEF SweepInv
<1>7. RowsOf(who)' = RowsOf(who')
  BY DEF RowsOf, vars
<1> QED
  BY <1>2, <1>3, <1>4, <1>5, <1>6, <1>7

LEMMA ExportPersonKeeps ==
  ASSUME EInv, ExportPerson, UNCHANGED <<vars, profile, seen, cut>>, Mixes
  PROVE  EInv'
<1> USE DEF ExportPerson
<1>1. who' \in ExtIds /\ owed' = AllOf(who')
  BY DEF EInv, Core, TypeOK
<1>2. AllOf(who') \in Data
  BY <1>1 DEF AllOf, Data, RowsOf, KeysOf, AnswersOf, Tracked, EInv, EraseTypeOK, Core, TypeOK
<1>3. given' \in Data
  BY DEF EInv, EraseTypeOK, Data
<1>4. /\ Core' /\ EraseTypeOK' /\ CutInv' /\ MixedInv' /\ SweepInv'
      /\ \A e \in ExtIds \ mixed' : Reach(e)'
      /\ mixed' = mixed
      /\ RowsOf(who)' = RowsOf(who')
  BY <1>1, <1>2, <1>3, ExportReads DEF Erasing
<1>5. who' \notin mixed => /\ \A a \in AnswersOf(who') : a[1] \in RowsOf(who')
                           /\ Tracked(who') \subseteq RowsOf(who')
  <2>1. ASSUME NEW e \in ExtIds, e \notin mixed
        PROVE  /\ \A a \in AnswersOf(e) : a[1] \in RowsOf(e)
               /\ Tracked(e) \subseteq RowsOf(e)
    BY <2>1, ReachFindsKeys DEF EInv
  <2> QED
    BY <1>1, <2>1
<1>6. GatherInv'
  <2> SUFFICES ASSUME who' \notin mixed
               PROVE  /\ owed'.rows \subseteq RowsOf(who')
                      /\ owed'.answers \subseteq answers
                      /\ \A a \in owed'.answers : a[1] \in owed'.rows
                      /\ owed'.customs \subseteq customs \cap owed'.rows
                      /\ owed'.profile \subseteq profile \cap {who'}
    BY <1>4 DEF GatherInv, vars
  <2>1. /\ owed'.rows = RowsOf(who') /\ owed'.customs = Tracked(who')
        /\ owed'.answers = AnswersOf(who')
        /\ owed'.profile = profile \cap {who'}
    BY <1>1 DEF AllOf
  <2>2. AnswersOf(who') \subseteq answers /\ Tracked(who') \subseteq customs
    BY DEF AnswersOf, Tracked
  <2> QED
    BY <1>5, <2>1, <2>2
<1> QED
  BY <1>4, <1>6 DEF EInv

LEMMA ExportAppointmentsKeeps ==
  ASSUME EInv, ExportAppointments, UNCHANGED <<vars, profile, seen, cut>>, Mixes
  PROVE  EInv'
<1> USE DEF ExportAppointments
<1>1. who' = who /\ who \in ExtIds /\ owed' = owed
  BY DEF EInv, MixedInv
<1>2. given \in Data /\ owed \in Data /\ RowsOf(who) \in SUBSET Keys
  BY DEF EInv, EraseTypeOK, Data, RowsOf
<1>3. given' \in Data /\ given'.rows = RowsOf(who)
  BY <1>2 DEF Data
<1>4. /\ Core' /\ EraseTypeOK' /\ CutInv' /\ MixedInv' /\ SweepInv'
      /\ \A e \in ExtIds \ mixed' : Reach(e)'
      /\ mixed' = mixed
      /\ RowsOf(who)' = RowsOf(who)
  BY <1>1, <1>2, <1>3, ExportReads DEF Erasing
<1>5. GatherInv'
  BY <1>1, <1>3, <1>4 DEF EInv, GatherInv, vars
<1> QED
  BY <1>4, <1>5 DEF EInv

LEMMA ExportAnswersKeeps ==
  ASSUME EInv, ExportAnswers, UNCHANGED <<vars, profile, seen, cut>>, Mixes
  PROVE  EInv'
<1> USE DEF ExportAnswers
<1>1. who' = who /\ who \in ExtIds /\ owed' = owed
  BY DEF EInv, MixedInv
<1>2. given \in Data /\ owed \in Data /\ answers \subseteq Keys \X Questions
  BY DEF EInv, EraseTypeOK, Data, Core, TypeOK
<1>3. /\ given' \in Data /\ given'.rows = given.rows
      /\ given'.answers = {a \in answers : a[1] \in given.rows}
  BY <1>2 DEF Data
<1>4. /\ Core' /\ EraseTypeOK' /\ CutInv' /\ MixedInv' /\ SweepInv'
      /\ \A e \in ExtIds \ mixed' : Reach(e)'
      /\ mixed' = mixed
      /\ RowsOf(who)' = RowsOf(who)
  BY <1>1, <1>2, <1>3, ExportReads DEF Erasing
<1>5. GatherInv'
  BY <1>1, <1>3, <1>4 DEF EInv, GatherInv, vars
<1> QED
  BY <1>4, <1>5 DEF EInv

LEMMA ExportCustomsKeeps ==
  ASSUME EInv, ExportCustoms, UNCHANGED <<vars, profile, seen, cut>>, Mixes
  PROVE  EInv'
<1> USE DEF ExportCustoms
<1>1. who' = who /\ who \in ExtIds /\ owed' = owed
  BY DEF EInv, MixedInv
<1>2. /\ given \in Data /\ owed \in Data
      /\ customs \subseteq Keys /\ profile \subseteq ExtIds
  BY DEF EInv, EraseTypeOK, Data, Core, TypeOK
<1>3. /\ given' \in Data
      /\ given'.rows = given.rows /\ given'.answers = given.answers
      /\ given'.customs = customs \cap given.rows
      /\ given'.profile = profile \cap {who}
  BY <1>2 DEF Data
<1>4. /\ Core' /\ EraseTypeOK' /\ CutInv' /\ MixedInv' /\ SweepInv'
      /\ \A e \in ExtIds \ mixed' : Reach(e)'
      /\ mixed' = mixed
      /\ RowsOf(who)' = RowsOf(who)
  BY <1>1, <1>2, <1>3, ExportReads DEF Erasing
<1>5. GatherInv'
  BY <1>1, <1>3, <1>4 DEF EInv, GatherInv, vars
<1> QED
  BY <1>4, <1>5 DEF EInv

LEMMA ExportKeeps ==
  ASSUME EInv, Export, Mixes
  PROVE  EInv'
<1>1. CASE ExportAnswer \/ ExportCrash
  BY <1>1, EndsKeep DEF Export, ExportAnswer, ExportCrash
<1> QED
  BY <1>1, ExportPersonKeeps, ExportAppointmentsKeeps, ExportAnswersKeeps,
     ExportCustomsKeeps
  DEF Export

\* The local-data routes leave the rows and the answers alone.
LEMMA LocalDataFacts ==
  ASSUME EInv, LocalDataRoutes
  PROVE  /\ [LocalData]_vars /\ customs' \subseteq Keys /\ profile' \subseteq ExtIds
         /\ UNCHANGED <<appts, answers, people, remote, pc, form, key, news, staged,
                        confirmed>>
         /\ step' = step /\ who' = who /\ seen' = seen /\ cut' = cut /\ given' = given
         /\ owed' = [owed EXCEPT !.customs = @ \cap customs', !.profile = @ \cap profile']
<1> USE DEF LocalDataRoutes, LocalData, erasure
<1>1. CASE UNCHANGED vars
  BY <1>1 DEF vars, EInv, Core, TypeOK, EraseTypeOK, PutProfile, DropProfile
<1>2. ASSUME NEW k \in LocalKeys, PutCustom(k) \/ DropCustom(k), UNCHANGED profile
      PROVE  /\ LocalData /\ customs' \subseteq Keys /\ profile' \subseteq ExtIds
             /\ UNCHANGED <<appts, answers, people, remote, pc, form, key, news, staged,
                            confirmed>>
  BY <1>2, DistinctAssumption DEF PutCustom, DropCustom, EInv, Core, TypeOK, EraseTypeOK
<1> QED
  BY <1>1, <1>2

LEMMA LocalDataRoutesKeep ==
  ASSUME EInv, LocalDataRoutes, Mixes
  PROVE  EInv'
<1>1. /\ [LocalData]_vars /\ customs' \subseteq Keys /\ profile' \subseteq ExtIds
      /\ UNCHANGED <<appts, answers, people, remote, pc, form, key, news, staged, confirmed>>
      /\ step' = step /\ who' = who /\ seen' = seen /\ cut' = cut /\ given' = given
      /\ owed' = [owed EXCEPT !.customs = @ \cap customs', !.profile = @ \cap profile']
  BY LocalDataFacts
<1>2. Kept
  BY <1>1, LocalDataKeeps, StutterKeeps DEF EInv
<1>3. step' # "idle" => who' \in ExtIds
  BY <1>1 DEF EInv, MixedInv
<1>4. MixedInv' /\ mixed \subseteq mixed' /\ mixed' \subseteq ExtIds
  BY <1>3, MixesKeeps DEF Mixes, EInv, EraseTypeOK
<1>5. Core' /\ \A e \in ExtIds \ mixed' : Reach(e)'
  BY <1>2, <1>4 DEF Kept, EInv
<1>6. EraseTypeOK'
  <2>1. TypeOK' /\ cut \in Data /\ given \in Data /\ owed \in Data
    BY <1>5 DEF Core, EInv, EraseTypeOK, Data
  <2>2. owed' \in Data
    BY <1>1, <2>1 DEF Data
  <2> QED
    BY <1>1, <1>4, <2>1, <2>2 DEF EInv, EraseTypeOK, Data
<1>7. /\ RowsOf(who)' = RowsOf(who) /\ KeysOf(who)' = KeysOf(who)
      /\ AnswersOf(who)' = AnswersOf(who)
  BY <1>1 DEF RowsOf, KeysOf, AnswersOf
<1>8. CutInv'
  BY <1>1, <1>7 DEF EInv, CutInv
<1>9. SweepInv'
  <2> SUFFICES ASSUME step \in Erasing, who \notin mixed'
               PROVE  SweepInv'
    BY <1>1 DEF SweepInv
  <2>1. who \notin profile' \ profile /\ (customs' \ customs) \cap KeysOf(who) = {}
    BY <1>1, <1>3, <1>7 DEF Mixes, Disturbed, Erasing
  <2>2. Tracked(who)' \subseteq Tracked(who)
    BY <1>1, <1>7, <2>1 DEF Tracked
  <2>3. profile' \cap {who} \subseteq profile \cap {who}
    BY <2>1
  <2> QED
    BY <1>1, <1>4, <1>7, <2>2, <2>3 DEF EInv, SweepInv
<1>10. GatherInv'
  <2>1. /\ owed'.rows = owed.rows /\ owed'.answers = owed.answers
        /\ owed'.customs = owed.customs \cap customs'
        /\ owed'.profile = owed.profile \cap profile'
    BY <1>1 DEF EInv, EraseTypeOK
  <2> QED
    BY <1>1, <1>4, <1>7, <2>1 DEF EInv, GatherInv
<1> QED
  BY <1>4, <1>5, <1>6, <1>8, <1>9, <1>10 DEF EInv

-----------------------------------------------------------------------------
(***************************************************************************)
(* Theorems                                                                *)
(***************************************************************************)
LEMMA EInitInv == EInit => EInv
<1> SUFFICES ASSUME EInit PROVE EInv
  OBVIOUS
<1>1. Core /\ \A e \in ExtIds : Reach(e)
  BY InitInv DEF EInit, IInv
<1>2. NoData \in Data
  BY DEF NoData, Data
<1>3. EraseTypeOK
  BY <1>1, <1>2 DEF EInit, EraseTypeOK, Core, Data
<1>4. CutInv /\ MixedInv /\ SweepInv /\ GatherInv
  BY DEF EInit, CutInv, MixedInv, SweepInv, GatherInv, NoData, Erasing
<1> QED
  BY <1>1, <1>3, <1>4 DEF EInv

LEMMA ENextKeeps == EInv /\ [ENext]_evars => EInv'
<1> SUFFICES ASSUME EInv, [ENext]_evars PROVE EInv'
  OBVIOUS
<1>1. CASE ENext
  <2>1. Mixes
    BY <1>1 DEF ENext, Mixes
  <2>2. CASE Erase
    BY <2>1, <2>2, EraseKeeps
  <2>3. CASE Export
    BY <2>1, <2>3, ExportKeeps
  <2>4. CASE Handlers
    BY <2>1, <2>4, HandlersKeep DEF Handlers
  <2>5. CASE LocalDataRoutes
    BY <2>1, <2>5, LocalDataRoutesKeep
  <2> QED
    BY <1>1, <2>2, <2>3, <2>4, <2>5 DEF ENext
<1>2. CASE UNCHANGED evars
  <2>1. UNCHANGED <<vars, profile, step, who, seen, cut, given, owed, mixed>>
    BY <1>2 DEF evars, erasure, export
  <2>2. Kept
    BY <2>1, StutterKeeps DEF EInv
  <2>3. Core' /\ \A e \in ExtIds \ mixed' : Reach(e)'
    BY <2>1, <2>2 DEF EInv, Kept
  <2>4. EraseTypeOK'
    BY <2>1, <2>3 DEF EInv, EraseTypeOK, Core
  <2>5. CutInv' /\ MixedInv'
    BY <2>1 DEF EInv, CutInv, MixedInv, RowsOf, Busy, vars
  <2>6. SweepInv' /\ GatherInv'
    BY <2>1 DEF EInv, SweepInv, GatherInv, AnswersOf, Tracked, KeysOf, RowsOf, vars
  <2> QED
    BY <2>3, <2>4, <2>5, <2>6 DEF EInv
<1> QED
  BY <1>1, <1>2

THEOREM ErasureInductive == ESpec => []EInv
  BY EInitInv, ENextKeeps, PTL DEF ESpec

\* Type correctness with an erasure or export under way.
THEOREM EraseTypeCorrect == ESpec => []EraseTypeOK
<1>1. EInv => EraseTypeOK
  BY DEF EInv
<1> QED
  BY <1>1, ErasureInductive, PTL

\* An export hands out the answers, rows and custom data it was to find when it
\* began, but for what the person's own DELETEs have taken.
THEOREM ExportsAll == ESpec => []ExportComplete
<1>1. EInv => ExportComplete
  <2> SUFFICES ASSUME EInv, step = "answer", who \notin mixed, NEW part \in DOMAIN owed
               PROVE  owed[part] \subseteq given[part]
    BY DEF ExportComplete
  <2>1. part \in {"answers", "rows", "customs", "profile"}
    BY DEF EInv, EraseTypeOK
  <2> QED
    BY <2>1 DEF EInv, GatherInv
<1> QED
  BY <1>1, ErasureInductive, PTL

\* What a step of the erasure and its surroundings is to the tables.
LEMMA StepKinds ==
  ASSUME [ENext]_evars
  PROVE  CommitErasure \/ [Next]_vars
<1>1. Handlers => Next
  BY HandlersAreSteps
<1>2. Erase => CommitErasure \/ UNCHANGED vars
  BY DEF Erase, FindPerson, FindKeys, DeleteAnswers, DeleteRows, DeleteCustoms, EraseCrash
<1>3. LocalDataRoutes => [LocalData]_vars
  BY DEF LocalDataRoutes, LocalData
<1>4. LocalData => Next
  BY DEF Next
<1> QED
  BY <1>1, <1>2, <1>3, <1>4 DEF ENext, Export, evars

\* An erasure that overlaps no request about its person leaves no row, answer or
\* profile of them, and no custom data of an appointment that had a row.
THEOREM ErasesAll == ESpec => ErasureComplete
<1>1. ASSUME EInv, [ENext]_evars, NEW e \in people \ people', e \notin mixed
      PROVE  /\ RowsOf(e)' = {} /\ AnswersOf(e)' = {} /\ e \notin profile'
             /\ \A k \in customs' \cap KeysOf(e)' : appts[k] = None
  <2>1. CommitErasure
    BY <1>1, StepKinds, PeopleStay
  <2>2. e = who /\ e \in ExtIds
    BY <1>1, <2>1 DEF CommitErasure, EInv, Core, TypeOK
  <2> QED
    BY <1>1, <2>1, <2>2, CommitErases
<1>2. EInv /\ [ENext]_evars =>
        [\A e \in people \ people' : e \notin mixed =>
           /\ RowsOf(e)' = {} /\ AnswersOf(e)' = {} /\ e \notin profile'
           /\ \A k \in customs' \cap KeysOf(e)' : appts[k] = None]_evars
  BY <1>1
<1> QED
  BY <1>2, ErasureInductive, PTL DEF ESpec, ErasureComplete

\* The commit of an erasure takes the custom data with the link, and leaves the
\* links of others.
LEMMA CommitLeavesNoneUnlinked ==
  ASSUME EInv, EInv', CommitErasure, NEW e \in ExtIds \ mixed, NEW k \in KeysOf(e)',
         k \in customs', ~Linked(k)'
  PROVE  k \in customs /\ ~Linked(k)
<1> USE DEF CommitErasure
<1>1. k \in customs /\ k \in Keys /\ Nested(k) /\ cloud[k].ext = e
  BY DEF KeysOf
<1>2. CASE e = who
  <2>1. appts[k] = None
    BY <1>2, CommitErases
  <2> QED
    BY <1>1, <2>1 DEF Linked
<1>3. CASE e # who
  <2>1. ASSUME Linked(k)
        PROVE  Linked(k)'
    <3>1. appts[k].ext = e /\ e \in people
      BY <1>1, <2>1 DEF Linked
    <3>2. k \notin cut.rows
      BY <1>3, <3>1 DEF EInv, CutInv, RowsOf
    <3>3. appts'[k] = appts[k] /\ e \in people'
      BY <1>1, <1>3, <3>1, <3>2
    <3> QED
      BY <2>1, <3>1, <3>3 DEF Linked
  <2> QED
    BY <1>1, <2>1
<1> QED
  BY <1>2, <1>3

\* As long as no erasure of a person overlaps a request about them, their answers
\* stay within forget_person's reach, and custom data gets out of it only by a PUT
\* for an appointment that is not linked.
THEOREM QuietlyReached == ESpec => QuietReach
<1>1. ASSUME EInv, EInv', [ENext]_evars, NEW e \in ExtIds \ mixed', NEW k \in KeysOf(e)'
      PROVE  /\ Filled(k)' => Linked(k)'
             /\ k \in customs' /\ ~Linked(k)' => \/ k \in customs /\ ~Linked(k)
                                                \/ PutCustom(k)
  <2>1. e \in ExtIds \ mixed /\ Reach(e) /\ Reach(e)'
    BY <1>1 DEF EInv, ENext, evars
  <2>2. k \in Keys /\ Nested(k)' /\ cloud'[k].ext = e
    BY DEF KeysOf
  <2>3. Filled(k)' => Linked(k)'
    BY <2>1, <2>2 DEF Reach
  <2>4. ASSUME k \in customs', ~Linked(k)'
        PROVE  (k \in customs /\ ~Linked(k)) \/ PutCustom(k)
    <3>1. CASE CommitErasure
      BY <1>1, <2>1, <2>4, <3>1, CommitLeavesNoneUnlinked
    <3>2. CASE [Next]_vars
      BY <1>1, <2>1, <2>2, <2>4, <3>2, CustomsReach DEF EInv
    <3> QED
      BY <1>1, <3>1, <3>2, StepKinds
  <2> QED
    BY <2>3, <2>4
<1>2. EInv /\ EInv' /\ [ENext]_evars =>
        [\A e \in ExtIds \ mixed' : \A k \in KeysOf(e)' :
           /\ Filled(k)' => Linked(k)'
           /\ k \in customs' /\ ~Linked(k)' => \/ k \in customs /\ ~Linked(k)
                                              \/ PutCustom(k)]_evars
  BY <1>1
<1> QED
  BY <1>2, ErasureInductive, PTL DEF ESpec, QuietReach

\* With erasures the table still makes only the ledger's moves: what a commit
\* deletes is one owner's, for the rows were locked since they were chosen.
LEMMA CommitForgets ==
  ASSUME EInv, CommitErasure
  PROVE  Ledger!Next
<1>1. who \in ExtIds /\ cut.rows \in SUBSET Keys /\ cut.rows \subseteq RowsOf(who)
  BY DEF CommitErasure, EInv, MixedInv, CutInv, EraseTypeOK
<1>2. \A k \in cut.rows : k \in Keys /\ appts[k] # None /\ appts[k].ext = who
  BY <1>1 DEF RowsOf
<1>3. ASSUME NEW k \in cut.rows
      PROVE  Abs[k] # None /\ Abs[k].ext = who
  <2>1. appts[k] \in Row
    BY <1>2 DEF EInv, Core, TypeOK
  <2>2. EntryOf(appts[k]) \in [ext : ExtIds, status : Statuses]
    BY <2>1 DEF Row, EntryOf
  <2>3. Abs[k] = EntryOf(appts[k])
    BY <1>2 DEF Abs, EntryOf
  <2> QED
    BY <1>2, <2>2, <2>3, DistinctAssumption DEF EntryOf
<1>4. Abs' = [k \in Keys |-> IF k \in cut.rows THEN None ELSE Abs[k]]
  BY DEF CommitErasure, Abs
<1>5. \E gone \in SUBSET Keys : gone = cut.rows
  BY <1>1
<1>6. PICK gone \in SUBSET Keys : gone = cut.rows
  BY <1>5
<1>7. Ledger!Forget(who, gone)
  BY <1>3, <1>4, <1>6 DEF Ledger!Forget, Abs
<1> QED
  BY <1>1, <1>7 DEF Ledger!Next

THEOREM ErasureRefinesLedger == ESpec => LedgerSpec
<1>1. EInit => Ledger!Init
  BY DEF EInit, Init, Ledger!Init
<1>2. ASSUME EInv, [ENext]_evars
      PROVE  [Ledger!Next]_Abs
  <2>1. CASE CommitErasure
    BY <1>2, <2>1, CommitForgets
  <2>2. CASE [Next]_vars
    BY <1>2, <2>2, NextRefines DEF EInv
  <2> QED
    BY <1>2, <2>1, <2>2, StepKinds
<1>3. EInv /\ [ENext]_evars => [Ledger!Next]_Abs
  BY <1>2
<1> QED
  BY <1>1, <1>3, ErasureInductive, PTL DEF ESpec, LedgerSpec, Ledger!Spec, Abs

\* The commit of an erasure lets the person book again, and no more of their
\* requests are under way than before: the bound on what concurrent requests
\* can book beyond the cap holds with erasures too.
THEOREM CapHoldsWithErasures == ESpec => []OvershootBounded
<1>1. EInit => OvershootBounded
  <2>1. ASSUME EInit, NEW e \in ExtIds PROVE Bound(e)
    <3>1. FutureKeys(e) = {} /\ InFlight(e) = {}
      BY <2>1, DistinctAssumption DEF EInit, Init, FutureKeys, RowsOf, InFlight, Sessions
    <3> QED
      BY <3>1, Finite, FS_EmptySet, MaxFutureAssumption DEF Bound
  <2> QED
    BY <2>1 DEF OvershootBounded, Bound
<1>2. ASSUME EInv, OvershootBounded, [ENext]_evars, NEW e \in ExtIds
      PROVE  Bound(e)'
  <2>1. Bound(e)
    BY <1>2 DEF OvershootBounded, Bound
  <2>2. CASE [Next]_vars
    BY <1>2, <2>1, <2>2, NextBound DEF EInv
  <2>3. CASE CommitErasure
    <3>1. Calm(e)
      BY <2>3 DEF CommitErasure, Calm, FutureKeys, RowsOf, InFlight
    <3> QED
      BY <2>1, <3>1, CalmKeeps
  <2> QED
    BY <1>2, <2>2, <2>3, StepKinds
<1>3. EInv /\ OvershootBounded /\ [ENext]_evars => OvershootBounded'
  BY <1>2 DEF OvershootBounded, Bound
<1> QED
  BY <1>1, <1>3, ErasureInductive, PTL DEF ESpec

=============================================================================
