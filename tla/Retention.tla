------------------------------- MODULE Retention -------------------------------
(***************************************************************************)
(* Erasures that overlap: DELETE .../forget/ requests and the daily Celery *)
(* task that deletes old audit entries and erases who is past purge_after, *)
(* while people come back.  Erasure has the statements of one erasure      *)
(* against bookings and webhooks; here an erasure is the query that finds  *)
(* the person and the commit.                                              *)
(***************************************************************************)
EXTENDS Integers, FiniteSets

CONSTANTS ExtIds,    \* external_ids
          Requests,  \* DELETE .../forget/ requests under way at once
          Returns,   \* bound: how often a person is stored anew
          Retention, \* audit_retention_days
          None

VARIABLES
  row,    \* external_id -> id of its pii_person row, None without one
  ids,    \* external_id -> rows it has had so far
  due,    \* external_id -> purge_after against today: "kept" is none or later
  audit,  \* external_id -> age of its newest ERASURE entry in audit_log
  pc,     \* where each request stands
  who,    \* the person it is about
  found,  \* the id its query returned
  step,   \* where the daily task stands
  list,   \* the expired people it still has to erase
  whom,   \* whom it erases now
  hit,    \* ... and the id found
  done    \* history: age of the newest erasure that took effect

requests == <<pc, who, found>>
purge    == <<step, list, whom, hit>>
vars     == <<row, ids, due, audit, requests, purge, done>>

Rows == 1..(Returns + 1)

ASSUME BoundsAssumption ==
  Returns \in Nat /\ Retention \in Nat /\ None \notin Nat \cup ExtIds

Init ==
  /\ row = [e \in ExtIds |-> 1]
  /\ ids = [e \in ExtIds |-> 1]
  /\ due = [e \in ExtIds |-> "kept"]
  /\ audit = [e \in ExtIds |-> None]
  /\ pc = [r \in Requests |-> "idle"]
  /\ who = [r \in Requests |-> None]
  /\ found = [r \in Requests |-> None]
  /\ step = "idle"
  /\ list = {}
  /\ whom = None
  /\ hit = None
  /\ done = [e \in ExtIds |-> None]

-----------------------------------------------------------------------------
(***************************************************************************)
(* People come, and their dates                                            *)
(***************************************************************************)
\* The first write for an external_id without a row inserts one, with the next
\* id and no purge_after.
Register(e) ==
  /\ row[e] = None
  /\ ids[e] <= Returns
  /\ ids' = [ids EXCEPT ![e] = @ + 1]
  /\ row' = [row EXCEPT ![e] = ids[e] + 1]
  /\ UNCHANGED <<due, audit, requests, purge, done>>

\* purge_after, which only the admin interface sets, comes or is put off.
Expire(e) ==
  /\ row[e] # None /\ due[e] = "kept"
  /\ due' = [due EXCEPT ![e] = "today"]
  /\ UNCHANGED <<row, ids, audit, requests, purge, done>>

Extend(e) ==
  /\ due[e] # "kept"
  /\ due' = [due EXCEPT ![e] = "kept"]
  /\ UNCHANGED <<row, ids, audit, requests, purge, done>>

-----------------------------------------------------------------------------
(***************************************************************************)
(* forget_person                                                           *)
(***************************************************************************)
Gone(e) ==
  /\ row' = [row EXCEPT ![e] = None]
  /\ due' = [due EXCEPT ![e] = "kept"]
  /\ done' = [done EXCEPT ![e] = 0]

\* Variant: the DELETE goes by external_id.
EraseByName(e, id) ==
  /\ IF row[e] # None THEN Gone(e) ELSE UNCHANGED <<row, due, done>>
  /\ audit' = [audit EXCEPT ![e] = 0]

\* db.delete(person) goes by the id that was found: if another erasure was
\* faster nothing is deleted, not even a row the person has got since, and
\* SQLAlchemy only warns.  The audit entry is part of the same transaction.
Erase(e, id) ==
  /\ IF row[e] = id THEN Gone(e) ELSE UNCHANGED <<row, due, done>>
  /\ audit' = [audit EXCEPT ![e] = 0]

CloseRequest(r) ==
  /\ pc' = [pc EXCEPT ![r] = "idle"]
  /\ who' = [who EXCEPT ![r] = None]
  /\ found' = [found EXCEPT ![r] = None]

\* The person is looked up; without a row the answer is 404.
Find(r) ==
  /\ pc[r] = "idle"
  /\ \E e \in {x \in ExtIds : row[x] # None} :
       /\ who' = [who EXCEPT ![r] = e]
       /\ found' = [found EXCEPT ![r] = row[e]]
  /\ pc' = [pc EXCEPT ![r] = "erase"]
  /\ UNCHANGED <<row, ids, due, audit, purge, done>>

EraseCommit(r) ==
  /\ pc[r] = "erase"
  /\ Erase(who[r], found[r])
  /\ CloseRequest(r)
  /\ UNCHANGED <<ids, purge>>

\* A statement fails, the client disconnects or the process dies: roll-back.
Crash(r) ==
  /\ pc[r] = "erase"
  /\ CloseRequest(r)
  /\ UNCHANGED <<row, ids, due, audit, purge, done>>

-----------------------------------------------------------------------------
(***************************************************************************)
(* cleanup_expired_records, daily                                          *)
(***************************************************************************)
\* Variant: off by one.
TooOld(age) == age # None /\ age >= Retention

\* timestamp < cutoff
PastRetention(age) == age # None /\ age > Retention

\* The old entries are deleted in a transaction of their own.
CleanAudit ==
  /\ step = "idle"
  /\ audit' = [e \in ExtIds |-> IF PastRetention(audit[e]) THEN None ELSE audit[e]]
  /\ step' = "list"
  /\ UNCHANGED <<row, ids, due, requests, list, whom, hit, done>>

\* Variant: purge_after == today.
DueToday == {e \in ExtIds : due[e] = "today"}

\* purge_after <= today
Expired == {e \in ExtIds : due[e] # "kept"}

\* They are read once.
ListExpired ==
  /\ step = "list"
  /\ list' = Expired
  /\ step' = "next"
  /\ UNCHANGED <<row, ids, due, audit, requests, whom, hit, done>>

\* Variant: forget_person goes on without a person.
PurgeAnyway(e) ==
  /\ step = "next" /\ e \in list
  /\ list' = list \ {e}
  /\ step' = "erase" /\ whom' = e /\ hit' = row[e]
  /\ UNCHANGED <<row, ids, due, audit, requests, done>>

\* forget_person for one of them; who has no row any more is passed over.
PurgeFind(e) ==
  /\ step = "next" /\ e \in list
  /\ list' = list \ {e}
  /\ IF row[e] = None
     THEN UNCHANGED <<step, whom, hit>>
     ELSE step' = "erase" /\ whom' = e /\ hit' = row[e]
  /\ UNCHANGED <<row, ids, due, audit, requests, done>>

PurgeErase(e) ==
  /\ step = "erase" /\ whom = e
  /\ Erase(e, hit)
  /\ step' = "next" /\ whom' = None /\ hit' = None
  /\ UNCHANGED <<ids, requests, list>>

PurgeEnd ==
  /\ step = "next" /\ list = {}
  /\ step' = "idle"
  /\ UNCHANGED <<row, ids, due, audit, requests, list, whom, hit, done>>

\* An exception ends the task, and with it the rest of the list.
PurgeFails ==
  /\ step # "idle"
  /\ step' = "idle" /\ list' = {} /\ whom' = None /\ hit' = None
  /\ UNCHANGED <<row, ids, due, audit, requests, done>>

\* A day passes.  Requests are not that long, the daily task may be.
Older(age) == IF age # None /\ age <= Retention THEN age + 1 ELSE age

Day ==
  /\ \A r \in Requests : pc[r] = "idle"
  /\ audit' = [e \in ExtIds |-> Older(audit[e])]
  /\ done' = [e \in ExtIds |-> IF Older(done[e]) = Retention + 1 THEN None ELSE Older(done[e])]
  /\ due' = [e \in ExtIds |-> IF due[e] = "today" THEN "past" ELSE due[e]]
  /\ UNCHANGED <<row, ids, requests, purge>>

Next ==
  \/ \E e \in ExtIds : Register(e) \/ Expire(e) \/ Extend(e)
  \/ \E r \in Requests : Find(r) \/ EraseCommit(r) \/ Crash(r)
  \/ CleanAudit \/ ListExpired \/ PurgeEnd \/ PurgeFails
  \/ \E e \in ExtIds : PurgeFind(e) \/ PurgeErase(e)
  \/ Day

Spec == Init /\ [][Next]_vars

\* Celery beat starts the task every day and a worker runs it; a step of it that
\* comes up day after day does not fail every time.
Fairness ==
  /\ WF_vars(CleanAudit) /\ WF_vars(PurgeEnd)
  /\ SF_vars(ListExpired)
  /\ \A e \in ExtIds : SF_vars(PurgeFind(e)) /\ SF_vars(PurgeErase(e))

FairSpec == Spec /\ Fairness

-----------------------------------------------------------------------------
(***************************************************************************)
(* Properties                                                              *)
(***************************************************************************)
\* The type invariant; an erasure that is under way has found a person.
RetentionTypeOK ==
  /\ row \in [ExtIds -> Rows \cup {None}]
  /\ ids \in [ExtIds -> Rows]
  /\ due \in [ExtIds -> {"kept", "today", "past"}]
  /\ audit \in [ExtIds -> 0..(Retention + 1) \cup {None}]
  /\ done \in [ExtIds -> 0..Retention \cup {None}]
  /\ pc \in [Requests -> {"idle", "erase"}]
  /\ who \in [Requests -> ExtIds \cup {None}]
  /\ found \in [Requests -> Rows \cup {None}]
  /\ \A r \in Requests : pc[r] = "erase" => who[r] # None /\ found[r] # None
  /\ step \in {"idle", "list", "next", "erase"}
  /\ list \subseteq ExtIds
  /\ whom \in ExtIds \cup {None}
  /\ hit \in Rows \cup {None}
  /\ step = "erase" <=> hit # None
  /\ \A e \in ExtIds : row[e] = None => due[e] = "kept"

\* An erasure that took effect is in the audit log until it is past retention,
\* however erasures, purges and the clean-up of the log overlap or fail
\* (forget_person's audit entry, audit_cleanup's cutoff).
TraceKept ==
  \A e \in ExtIds : done[e] # None => audit[e] # None /\ audit[e] <= done[e]

\* A person's row is deleted only by an erasure that had found that very row:
\* who comes back is not erased by what was asked for before (forget_person's
\* DELETE goes by primary key).
ErasesWhatItFound ==
  [][\A e \in ExtIds :
       row[e] # None /\ row'[e] = None
         => \/ \E r \in Requests : who[r] = e /\ found[r] = row[e]
            \/ whom = e /\ hit = row[e]]_vars

\* Who is past purge_after is erased in the end, unless the date is put off,
\* although a failure ends a day's task with the rest of its list undone and
\* other erasures get in its way (purge_expired).
PurgeReaches == \A e \in ExtIds : due[e] # "kept" ~> due[e] = "kept"

=============================================================================
