-------------------------------- MODULE Erasure -------------------------------
(***************************************************************************)
(* DataPrivacyService.forget_person (DELETE /people/{id}/forget/, and the  *)
(* retention task) and export_person_data against bookings and webhooks in *)
(* progress.  Their statements run in one transaction each, on the rows    *)
(* committed when the statement starts; what an erasure deletes stays      *)
(* visible, and locked, until it commits.                                  *)
(*                                                                         *)
(* Bound: one erasure or export at a time.  (Retention lets any number of  *)
(* erasures overlap.)                                                      *)
(***************************************************************************)
EXTENDS Appointments

VARIABLES
  profile,  \* external_ids with person-level custom data
  step,     \* the next statement of the erasure or export, "idle" between them
  who,      \* whose data it erases or exports
  seen,     \* the appointment keys its second query returned
  cut,      \* what its transaction has deleted so far
  given,    \* what the export has gathered so far
  owed,     \* history: what the export found stored of the person when it began,
            \* less what a DELETE of custom data has taken since
  mixed     \* history: people erased while a request about them was under way

erasure == <<step, who, seen, cut>>
export  == <<given, owed>>
evars   == <<vars, profile, erasure, export, mixed>>

Erasing == {"keys", "answers", "rows", "customs", "commit"}

NoData == [answers |-> {}, rows |-> {}, customs |-> {}, profile |-> {}]

EInit ==
  /\ Init
  /\ profile = {}
  /\ step = "idle"
  /\ who = None
  /\ seen = {}
  /\ cut = NoData
  /\ given = NoData
  /\ owed = NoData
  /\ mixed = {}

\* A request or delivery about e is under way.
Busy(e) ==
  \/ \E w \in Workers : pc[w] # "idle" /\ e \in {ext[w], Primary(w)}
  \/ \E h \in Hooks : pc[h] # "idle" /\ cloud[key[h]].ext = e

Then(label) == step' = label

Over == /\ Then("idle")
        /\ who' = None
        /\ seen' = {}
        /\ cut' = NoData

-----------------------------------------------------------------------------
\* 1. The person; without one the answer is 404 and nothing is deleted.
FindPerson ==
  /\ step = "idle"
  /\ \E e \in people : who' = e
  /\ Then("keys")
  /\ UNCHANGED <<vars, profile, seen, cut>>

\* 2. The keys of the person's rows.  (The audit log is asked for more, but no
\* entry the code writes names an appointment.)
FindKeys ==
  /\ step = "keys"
  /\ seen' = RowsOf(who)
  /\ Then("answers")
  /\ UNCHANGED <<vars, profile, who, cut>>

\* 3. Answers of those keys.
DeleteAnswers ==
  /\ step = "answers"
  /\ cut' = [cut EXCEPT !.answers = {a \in answers : a[1] \in seen}]
  /\ Then("rows")
  /\ UNCHANGED <<vars, profile, who, seen>>

\* 4. Rows with the person's external_id; waits for a webhook updating one.
DeleteRows ==
  /\ step = "rows"
  /\ \A k \in RowsOf(who) : ~Locked(k)
  /\ cut' = [cut EXCEPT !.rows = RowsOf(who)]
  /\ Then("customs")
  /\ UNCHANGED <<vars, profile, who, seen>>

\* Variant: only the person's own custom data is deleted.
DeleteProfile ==
  /\ step = "customs"
  /\ cut' = [cut EXCEPT !.profile = profile \cap {who}]
  /\ Then("commit")
  /\ UNCHANGED <<vars, profile, who, seen>>

\* 5. Custom data of the person and of those keys.
DeleteCustoms ==
  /\ step = "customs"
  /\ cut' = [cut EXCEPT !.customs = customs \cap seen, !.profile = profile \cap {who}]
  /\ Then("commit")
  /\ UNCHANGED <<vars, profile, who, seen>>

\* 6, 7. The person and the audit entry; commit.
CommitErasure ==
  /\ step = "commit"
  /\ answers' = answers \ cut.answers
  /\ appts' = [k \in Keys |-> IF k \in cut.rows THEN None ELSE appts[k]]
  /\ customs' = customs \ cut.customs
  /\ profile' = profile \ cut.profile
  /\ people' = people \ {who}
  /\ Over
  /\ UNCHANGED <<remote, pc, form, key, news, staged, confirmed>>

EraseCrash ==
  /\ step \in Erasing
  /\ Over
  /\ UNCHANGED <<vars, profile>>

Erase ==
  /\ \/ FindPerson \/ FindKeys \/ DeleteAnswers \/ DeleteRows \/ DeleteCustoms
     \/ CommitErasure \/ EraseCrash
  /\ UNCHANGED export

-----------------------------------------------------------------------------
(***************************************************************************)
(* export_person_data: the same search, by other statements                *)
(***************************************************************************)
\* The keys of e's appointments in the cloud that were booked in the eagendas
\* shape: what is stored under them is e's, whether or not a row says so.
KeysOf(e) == {k \in Keys : Nested(k) /\ cloud[k].ext = e}

AnswersOf(e) == {a \in answers : a[1] \in KeysOf(e)}

\* Custom data of e's appointments, as far as local_appointment has a row.
Tracked(e) == {k \in customs \cap KeysOf(e) : appts[k] # None}

AllOf(e) == [answers |-> AnswersOf(e), rows |-> RowsOf(e), customs |-> Tracked(e),
             profile |-> profile \cap {e}]

\* The person; without one the answer is 404.
ExportPerson ==
  /\ step = "idle"
  /\ \E e \in people : who' = e /\ owed' = AllOf(e)
  /\ Then("list")
  /\ UNCHANGED given

\* The appointments, by their rows, and with them the keys for the rest.  (The
\* audit log has no entry with an appointment here either.)
ExportAppointments ==
  /\ step = "list"
  /\ given' = [given EXCEPT !.rows = RowsOf(who)]
  /\ Then("replies")
  /\ UNCHANGED <<who, owed>>

\* Answers of those keys.
ExportAnswers ==
  /\ step = "replies"
  /\ given' = [given EXCEPT !.answers = {a \in answers : a[1] \in given.rows}]
  /\ Then("extras")
  /\ UNCHANGED <<who, owed>>

\* Variant: only the person's own custom data.
ExportProfile ==
  /\ step = "extras"
  /\ given' = [given EXCEPT !.profile = profile \cap {who}]
  /\ Then("answer")
  /\ UNCHANGED <<who, owed>>

\* Custom data of the person and of those keys.
ExportCustoms ==
  /\ step = "extras"
  /\ given' = [given EXCEPT !.profile = profile \cap {who},
                            !.customs = customs \cap given.rows]
  /\ Then("answer")
  /\ UNCHANGED <<who, owed>>

\* The audit history and the entry for this export; commit and answer.
ExportAnswer ==
  /\ step = "answer"
  /\ Over
  /\ given' = NoData /\ owed' = NoData

ExportCrash ==
  /\ step \in {"list", "replies", "extras", "answer"}
  /\ Over
  /\ given' = NoData /\ owed' = NoData

Export ==
  /\ \/ ExportPerson \/ ExportAppointments \/ ExportAnswers \/ ExportCustoms
     \/ ExportAnswer \/ ExportCrash
  /\ UNCHANGED <<vars, profile, seen, cut>>

-----------------------------------------------------------------------------
(***************************************************************************)
(* The other handlers, with an erasure in the way                          *)
(***************************************************************************)
\* Its next statement writes what the erasure has deleted: it waits.
Waiting(s) ==
  \/ pc[s] \in {"record", "update", "insert"} /\ key[s] \in cut.rows
  \/ pc[s] = "store" /\ pending[s] = {} /\ custom[s] /\ key[s] \in cut.customs

Stale(h) == pc[h] = "update" /\ appts[key[h]] = None

\* The UPDATE of a row that is gone matches nothing: the ORM raises, the
\* exception is logged, the delivery is answered "accepted".
StaleUpdate(h) ==
  /\ Stale(h)
  /\ CloseHook(h) /\ UNCHANGED appts

Handlers ==
  /\ \/ \E w \in Workers : Arrive(w) \/ (~Waiting(w) /\ Progress(w)) \/ Crash(w)
     \/ \E h \in Hooks : \/ Deliver(h) \/ HookCrash(h) \/ StaleUpdate(h)
                         \/ ~Waiting(h) /\ ~Stale(h) /\ HookProgress(h)
     \/ Environment
  /\ UNCHANGED <<profile, erasure, export>>

\* PUT or PATCH /local-data/person/{id}/: one upsert, no look at pii_person.
PutProfile(e) == profile' = profile \cup {e}

\* DELETE /local-data/person/{id}/
DropProfile(e) == profile' = profile \ {e}

\* The local-data routes; they too wait for what the erasure has deleted.
LocalDataRoutes ==
  /\ \/ /\ \E k \in LocalKeys \ cut.customs : PutCustom(k) \/ DropCustom(k)
        /\ UNCHANGED profile
     \/ /\ \E e \in ExtIds \ cut.profile : PutProfile(e) \/ DropProfile(e)
        /\ UNCHANGED vars
  /\ owed' = [owed EXCEPT !.customs = @ \cap customs', !.profile = @ \cap profile']
  /\ UNCHANGED <<erasure, given>>

\* Somebody writes what is e's while a statement of e's erasure is to come.
Disturbed(e) ==
  Busy(e)' \/ e \in profile' \ profile \/ (customs' \ customs) \cap KeysOf(e)' # {}

ENext ==
  /\ Erase \/ Export \/ Handlers \/ LocalDataRoutes
  /\ mixed' = mixed \cup {e \in ExtIds : step' \in Erasing /\ who' = e /\ Disturbed(e)}

ESpec == EInit /\ [][ENext]_evars

-----------------------------------------------------------------------------
(***************************************************************************)
(* Properties                                                              *)
(***************************************************************************)
EraseTypeOK ==
  /\ TypeOK
  /\ profile \subseteq ExtIds
  /\ step \in Erasing \cup {"idle", "list", "replies", "extras", "answer"}
  /\ who \in ExtIds \cup {None}
  /\ seen \subseteq Keys
  /\ {cut, given, owed} \subseteq
       [answers : SUBSET (Keys \X Questions), rows : SUBSET Keys,
        customs : SUBSET Keys, profile : SUBSET ExtIds]
  /\ mixed \subseteq ExtIds

\* ErasureReach of everyone no erasure of whom has overlapped a request about
\* them: booking again after an erasure, webhooks that re-create rows, other
\* people's erasures and aborted ones put no answers and no custom data out of
\* forget_person's reach; only a PUT for an untracked appointment does.
QuietReach ==
  [][\A e \in ExtIds \ mixed' : \A k \in KeysOf(e)' :
       /\ Filled(k)' => Linked(k)'
       /\ k \in customs' /\ ~Linked(k)' => \/ k \in customs /\ ~Linked(k)
                                          \/ PutCustom(k)]_evars

\* Such an erasure deletes the person's answers, rows and custom data at the
\* moment it commits, although it works from keys it read several statements
\* earlier; of appointments that had no row the custom data stays.
ErasureComplete ==
  [][\A e \in people \ people' : e \notin mixed =>
       /\ RowsOf(e)' = {} /\ AnswersOf(e)' = {} /\ e \notin profile'
       /\ \A k \in customs' \cap KeysOf(e)' : appts[k] = None]_evars

\* An export hands out the answers, the rows and their custom data, all that was
\* there when it was asked for and has not been deleted by its owner since,
\* although it finds answers and custom data only through rows of another table,
\* read in statements of its own while bookings, webhooks and the local-data
\* routes write.
ExportComplete ==
  step = "answer" /\ who \notin mixed
    => \A part \in DOMAIN owed : owed[part] \subseteq given[part]

\* docs/custom-data.md: the erasure deletes all custom data of the person, of their
\* appointments too.
NoOrphans ==
  [][\A e \in people \ people' :
       e \notin mixed => customs' \cap KeysOf(e)' = {}]_evars

=============================================================================
