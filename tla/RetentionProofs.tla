---------------------------- MODULE RetentionProofs ----------------------------
(***************************************************************************)
(* For any number of people, requests and returns and any retention: an    *)
(* erasure deletes only the row it found, and leaves a trace that the      *)
(* clean-up does not take before its time.  The two invariants are         *)
(* inductive together: the trace is younger than the erasure it is of, and *)
(* an erasure counts as long as a trace of its age is within retention.    *)
(***************************************************************************)
EXTENDS Retention, TLAPS

IInv == RetentionTypeOK /\ TraceKept

LEMMA InitInv == Init => IInv
<1> SUFFICES ASSUME Init PROVE IInv
  OBVIOUS
<1>1. 1 \in Rows
  BY BoundsAssumption DEF Rows
<1> QED
  BY <1>1, BoundsAssumption DEF Init, IInv, RetentionTypeOK, TraceKept

\* Deleting the row that was found, or nothing, and writing the audit entry.
LEMMA EraseKeeps ==
  ASSUME IInv, NEW e \in ExtIds, NEW id, Erase(e, id)
  PROVE  /\ row' \in [ExtIds -> Rows \cup {None}]
         /\ due' \in [ExtIds -> {"kept", "today", "past"}]
         /\ audit' \in [ExtIds -> 0..(Retention + 1) \cup {None}]
         /\ done' \in [ExtIds -> 0..Retention \cup {None}]
         /\ \A x \in ExtIds : row'[x] = None => due'[x] = "kept"
         /\ TraceKept'
         /\ \A x \in ExtIds : row[x] # None /\ row'[x] = None => x = e /\ row[x] = id
<1>1. 0 \in 0..(Retention + 1) /\ 0 \in 0..Retention /\ None # 0
  BY BoundsAssumption
<1>2. audit' = [audit EXCEPT ![e] = 0]
  BY DEF Erase
<1>3. CASE row[e] = id
  <2>1. /\ row' = [row EXCEPT ![e] = None]
        /\ due' = [due EXCEPT ![e] = "kept"]
        /\ done' = [done EXCEPT ![e] = 0]
    BY <1>3 DEF Erase, Gone
  <2>2. TraceKept'
    BY <1>1, <1>2, <2>1 DEF IInv, RetentionTypeOK, TraceKept
  <2> QED
    BY <1>1, <1>2, <1>3, <2>1, <2>2 DEF IInv, RetentionTypeOK
<1>4. CASE row[e] # id
  <2>1. UNCHANGED <<row, due, done>>
    BY <1>4 DEF Erase
  <2>2. TraceKept'
    BY <1>1, <1>2, <2>1, BoundsAssumption DEF IInv, RetentionTypeOK, TraceKept
  <2> QED
    BY <1>1, <1>2, <2>1, <2>2 DEF IInv, RetentionTypeOK
<1> QED
  BY <1>3, <1>4

LEMMA RegisterKeeps ==
  ASSUME IInv, NEW e \in ExtIds, Register(e)
  PROVE  IInv'
<1>1. ids[e] + 1 \in Rows /\ None \notin Rows
  BY BoundsAssumption DEF Register, IInv, RetentionTypeOK, Rows
<1>2. RetentionTypeOK'
  BY <1>1 DEF Register, IInv, RetentionTypeOK, requests, purge
<1>3. TraceKept'
  BY DEF Register, IInv, TraceKept
<1> QED
  BY <1>2, <1>3 DEF IInv

LEMMA DateKeeps ==
  ASSUME IInv, NEW e \in ExtIds, Expire(e) \/ Extend(e)
  PROVE  IInv'
<1>1. RetentionTypeOK'
  BY DEF Expire, Extend, IInv, RetentionTypeOK, requests, purge
<1>2. TraceKept'
  BY DEF Expire, Extend, IInv, TraceKept
<1> QED
  BY <1>1, <1>2 DEF IInv

LEMMA FindKeeps ==
  ASSUME IInv, NEW r \in Requests, Find(r)
  PROVE  IInv'
<1>1. PICK e \in ExtIds : /\ row[e] # None
                          /\ who' = [who EXCEPT ![r] = e]
                          /\ found' = [found EXCEPT ![r] = row[e]]
  BY DEF Find
<1>2. e # None
  BY BoundsAssumption
<1>3. RetentionTypeOK'
  BY <1>1, <1>2 DEF Find, IInv, RetentionTypeOK, purge
<1>4. TraceKept'
  BY DEF Find, IInv, TraceKept
<1> QED
  BY <1>3, <1>4 DEF IInv

LEMMA CloseKeeps ==
  ASSUME IInv, NEW r \in Requests, CloseRequest(r)
  PROVE  /\ pc' \in [Requests -> {"idle", "erase"}]
         /\ who' \in [Requests -> ExtIds \cup {None}]
         /\ found' \in [Requests -> Rows \cup {None}]
         /\ \A s \in Requests : pc'[s] = "erase" => who'[s] # None /\ found'[s] # None
  BY DEF CloseRequest, IInv, RetentionTypeOK

LEMMA EraseCommitKeeps ==
  ASSUME IInv, NEW r \in Requests, EraseCommit(r)
  PROVE  IInv'
<1>1. who[r] \in ExtIds /\ Erase(who[r], found[r]) /\ CloseRequest(r)
  BY DEF EraseCommit, IInv, RetentionTypeOK
<1>2. RetentionTypeOK'
  BY <1>1, EraseKeeps, CloseKeeps DEF EraseCommit, IInv, RetentionTypeOK, purge
<1>3. TraceKept'
  BY <1>1, EraseKeeps
<1> QED
  BY <1>2, <1>3 DEF IInv

LEMMA CrashKeeps ==
  ASSUME IInv, NEW r \in Requests, Crash(r)
  PROVE  IInv'
<1>1. RetentionTypeOK'
  BY CloseKeeps DEF Crash, IInv, RetentionTypeOK, purge
<1>2. TraceKept'
  BY DEF Crash, IInv, TraceKept
<1> QED
  BY <1>1, <1>2 DEF IInv

LEMMA CleanAuditKeeps ==
  ASSUME IInv, CleanAudit
  PROVE  IInv'
<1>1. RetentionTypeOK'
  BY DEF CleanAudit, IInv, RetentionTypeOK, requests
<1>2. ASSUME NEW e \in ExtIds, done'[e] # None
      PROVE  audit'[e] # None /\ audit'[e] <= done'[e]
  <2>1. done[e] \in 0..Retention /\ audit[e] \in 0..(Retention + 1) /\ audit[e] <= done[e]
    BY <1>2 DEF CleanAudit, IInv, RetentionTypeOK, TraceKept
  <2>2. ~PastRetention(audit[e])
    BY <2>1, BoundsAssumption DEF PastRetention
  <2> QED
    BY <1>2, <2>1, <2>2, BoundsAssumption DEF CleanAudit, IInv, RetentionTypeOK
<1> QED
  BY <1>1, <1>2 DEF IInv, TraceKept

\* The steps of the purge that only move along its list.
LEMMA PurgeMovesKeep ==
  ASSUME IInv, ListExpired \/ PurgeEnd \/ PurgeFails
  PROVE  IInv'
<1>1. RetentionTypeOK'
  BY BoundsAssumption DEF ListExpired, PurgeEnd, PurgeFails, Expired, IInv, RetentionTypeOK, requests
<1>2. TraceKept'
  BY DEF ListExpired, PurgeEnd, PurgeFails, IInv, TraceKept
<1> QED
  BY <1>1, <1>2 DEF IInv

LEMMA PurgeFindKeeps ==
  ASSUME IInv, NEW e \in ExtIds, PurgeFind(e)
  PROVE  IInv'
<1>1. RetentionTypeOK'
  BY DEF PurgeFind, IInv, RetentionTypeOK, requests
<1>2. TraceKept'
  BY DEF PurgeFind, IInv, TraceKept
<1> QED
  BY <1>1, <1>2 DEF IInv

LEMMA PurgeEraseKeeps ==
  ASSUME IInv, NEW e \in ExtIds, PurgeErase(e)
  PROVE  IInv'
<1>1. Erase(e, hit)
  BY DEF PurgeErase
<1>2. RetentionTypeOK'
  BY <1>1, EraseKeeps, BoundsAssumption DEF PurgeErase, IInv, RetentionTypeOK, requests
<1>3. TraceKept'
  BY <1>1, EraseKeeps
<1> QED
  BY <1>2, <1>3 DEF IInv

LEMMA DayKeeps ==
  ASSUME IInv, Day
  PROVE  IInv'
<1>1. ASSUME NEW e \in ExtIds
      PROVE  audit'[e] \in 0..(Retention + 1) \cup {None}
  BY BoundsAssumption DEF Day, Older, IInv, RetentionTypeOK
<1>2. ASSUME NEW e \in ExtIds
      PROVE  /\ done'[e] \in 0..Retention \cup {None}
             /\ done'[e] # None => done[e] \in 0..(Retention - 1) /\ done'[e] = done[e] + 1
  BY BoundsAssumption DEF Day, Older, IInv, RetentionTypeOK
<1>3. RetentionTypeOK'
  BY <1>1, <1>2 DEF Day, IInv, RetentionTypeOK, requests, purge
<1>4. ASSUME NEW e \in ExtIds, done'[e] # None
      PROVE  audit'[e] # None /\ audit'[e] <= done'[e]
  <2>1. done[e] \in 0..(Retention - 1) /\ done'[e] = done[e] + 1
    BY <1>2, <1>4
  <2>2. audit[e] \in 0..(Retention + 1) /\ audit[e] <= done[e]
    BY <2>1, BoundsAssumption DEF IInv, RetentionTypeOK, TraceKept
  <2>3. audit'[e] = audit[e] + 1
    BY <2>1, <2>2, BoundsAssumption DEF Day, Older
  <2> QED
    BY <2>1, <2>2, <2>3, BoundsAssumption
<1> QED
  BY <1>3, <1>4 DEF IInv, TraceKept

LEMMA NextInv == IInv /\ [Next]_vars => IInv'
<1> SUFFICES ASSUME IInv, [Next]_vars
             PROVE  IInv'
  OBVIOUS
<1>1. ASSUME NEW e \in ExtIds, Register(e) \/ Expire(e) \/ Extend(e)
      PROVE  IInv'
  BY <1>1, RegisterKeeps, DateKeeps
<1>2. ASSUME NEW r \in Requests, Find(r) \/ EraseCommit(r) \/ Crash(r)
      PROVE  IInv'
  BY <1>2, FindKeeps, EraseCommitKeeps, CrashKeeps
<1>3. CASE CleanAudit
  BY <1>3, CleanAuditKeeps
<1>4. CASE ListExpired \/ PurgeEnd \/ PurgeFails
  BY <1>4, PurgeMovesKeep
<1>5. ASSUME NEW e \in ExtIds, PurgeFind(e) \/ PurgeErase(e)
      PROVE  IInv'
  BY <1>5, PurgeFindKeeps, PurgeEraseKeeps
<1>6. CASE Day
  BY <1>6, DayKeeps
<1>7. CASE UNCHANGED vars
  BY <1>7 DEF vars, requests, purge, IInv, RetentionTypeOK, TraceKept
<1> QED
  BY <1>1, <1>2, <1>3, <1>4, <1>5, <1>6, <1>7 DEF Next

\* Every variable keeps its type, and an erasure under way has found a person
\* (forget_person, purge_expired).
THEOREM TypeCorrect == Spec => []RetentionTypeOK
<1>1. IInv => RetentionTypeOK
  BY DEF IInv
<1> QED
  BY <1>1, InitInv, NextInv, PTL DEF Spec

\* For any number of overlapping erasures, an erasure within retention has its
\* entry in the audit log (forget_person, _cleanup).
THEOREM ErasuresAreTraced == Spec => []TraceKept
<1>1. IInv => TraceKept
  BY DEF IInv
<1> QED
  BY <1>1, InitInv, NextInv, PTL DEF Spec

\* Only an erasure deletes a row, and only the one it has found.
LEMMA StepErasesFound ==
  ASSUME IInv, [Next]_vars, NEW e \in ExtIds, row[e] # None, row'[e] = None
  PROVE  \/ \E r \in Requests : who[r] = e /\ found[r] = row[e]
         \/ whom = e /\ hit = row[e]
<1>1. ASSUME NEW r \in Requests, EraseCommit(r)
      PROVE  who[r] = e /\ found[r] = row[e]
  <2>1. who[r] \in ExtIds /\ Erase(who[r], found[r])
    BY <1>1 DEF EraseCommit, IInv, RetentionTypeOK
  <2> QED
    BY <2>1, EraseKeeps
<1>2. ASSUME NEW x \in ExtIds, PurgeErase(x)
      PROVE  whom = e /\ hit = row[e]
  <2>1. whom = x /\ Erase(x, hit)
    BY <1>2 DEF PurgeErase
  <2> QED
    BY <2>1, EraseKeeps
<1>3. ASSUME NEW x \in ExtIds, Register(x)
      PROVE  FALSE
  <2>1. ids[x] + 1 # None
    BY BoundsAssumption DEF IInv, RetentionTypeOK, Rows
  <2> QED
    BY <1>3, <2>1 DEF Register, IInv, RetentionTypeOK
<1>4. ASSUME row' = row
      PROVE  FALSE
  BY <1>4
<1> QED
  BY <1>1, <1>2, <1>3, <1>4 DEF Next, vars, Expire, Extend, Find, Crash, CleanAudit, ListExpired,
     PurgeFind, PurgeEnd, PurgeFails, Day

\* Who comes back is not erased by an erasure that began before, however many
\* requests and purges overlap (db.delete in forget_person goes by the row's id).
THEOREM OnlyWhatWasFound == Spec => ErasesWhatItFound
<1>1. IInv /\ [Next]_vars =>
        [\A e \in ExtIds :
           row[e] # None /\ row'[e] = None
             => \/ \E r \in Requests : who[r] = e /\ found[r] = row[e]
                \/ whom = e /\ hit = row[e]]_vars
  BY StepErasesFound
<1> QED
  BY <1>1, InitInv, NextInv, PTL DEF Spec, ErasesWhatItFound

=============================================================================
