--------------------------- MODULE CustomDataProofs ---------------------------
(***************************************************************************)
(* For any number of requests, entities and fields, CustomData implements  *)
(* CustomStore.  The invariant is what makes a late write harmless to say: *)
(* what a PATCH has read is one of the versions committed since it began.  *)
(***************************************************************************)
EXTENDS CustomData, TLAPS

RequestInv ==
  \A c \in Clients :
    /\ pc[c] # "idle" => entity[c] \in Entities
    /\ pc[c] = "replace" \/ Patching(c) => body[c] \in Docs
    /\ Patching(c) => stored[entity[c]] \in seen[c]
    /\ pc[c] = "upsert" => read[c] \in seen[c]
    /\ ~Patching(c) => seen[c] = {}

IInv == TypeOK /\ RequestInv

\* Merging an object over another gives an object.
LEMMA DocsMerge ==
  ASSUME NEW c \in Clients, body[c] \in Docs, read[c] \in Docs \cup {None}
  PROVE  Merged(c) \in Docs
<1>1. CASE read[c] = None
  BY <1>1 DEF Merged
<1>2. CASE read[c] # None
  <2>1. PICK fs \in SUBSET Fields : body[c] \in [fs -> Values]
    BY DEF Docs
  <2>2. PICK gs \in SUBSET Fields : read[c] \in [gs -> Values]
    BY <1>2 DEF Docs
  <2>3. Merged(c) \in [gs \cup fs -> Values]
    BY <1>2, <2>1, <2>2 DEF Merged
  <2>4. gs \cup fs \in SUBSET Fields
    OBVIOUS
  <2> QED
    BY <2>3, <2>4 DEF Docs
<1> QED
  BY <1>1, <1>2

LEMMA InitInv == Init => IInv
  BY DEF Init, IInv, TypeOK, RequestInv, Patching

LEMMA ArriveKeeps ==
  ASSUME IInv, NEW c \in Clients, Arrive(c)
  PROVE  IInv'
<1>1. PICK e \in Entities, label \in {"replace", "delete", "select"} :
      \E d \in IF label = "delete" THEN {None} ELSE Docs :
        /\ entity' = [entity EXCEPT ![c] = e]
        /\ body' = [body EXCEPT ![c] = d]
        /\ pc' = [pc EXCEPT ![c] = label]
        /\ seen' = [seen EXCEPT ![c] = IF label = "select" THEN {stored[e]} ELSE {}]
  BY DEF Arrive
<1>2. TypeOK'
  BY <1>1 DEF IInv, TypeOK, Arrive
<1>3. RequestInv'
  BY <1>1 DEF IInv, TypeOK, RequestInv, Arrive, Patching
<1> QED
  BY <1>2, <1>3 DEF IInv

LEMMA SaveKeeps ==
  ASSUME IInv, NEW c \in Clients, NEW d \in Docs \cup {None},
         pc[c] # "idle", Save(c, d)
  PROVE  IInv'
<1>1. entity[c] \in Entities
  BY DEF IInv, RequestInv
<1>2. TypeOK'
  BY <1>1 DEF IInv, TypeOK, Save, Finish
<1>3. RequestInv'
  BY DEF IInv, TypeOK, RequestInv, Save, Finish, Patching
<1> QED
  BY <1>2, <1>3 DEF IInv

LEMMA SelectKeeps ==
  ASSUME IInv, NEW c \in Clients, Select(c)
  PROVE  IInv'
<1>1. entity[c] \in Entities
  BY DEF IInv, RequestInv, Select
<1>2. TypeOK'
  BY <1>1 DEF IInv, TypeOK, Select, request
<1>3. RequestInv'
  BY DEF IInv, TypeOK, RequestInv, Select, Patching, request
<1> QED
  BY <1>2, <1>3 DEF IInv

LEMMA CrashKeeps ==
  ASSUME IInv, NEW c \in Clients, Crash(c)
  PROVE  IInv'
<1>1. TypeOK'
  BY DEF IInv, TypeOK, Crash, Finish
<1>2. RequestInv'
  BY DEF IInv, TypeOK, RequestInv, Crash, Finish, Patching
<1> QED
  BY <1>1, <1>2 DEF IInv

LEMMA NextInv == IInv /\ [Next]_vars => IInv'
<1> SUFFICES ASSUME IInv, [Next]_vars
             PROVE  IInv'
  OBVIOUS
<1>1. ASSUME NEW c \in Clients, Arrive(c)
      PROVE  IInv'
  BY <1>1, ArriveKeeps
<1>2. ASSUME NEW c \in Clients, Replace(c)
      PROVE  IInv'
  <2>1. body[c] \in Docs \cup {None} /\ pc[c] # "idle" /\ Save(c, body[c])
    BY <1>2 DEF Replace, IInv, TypeOK
  <2> QED
    BY <2>1, SaveKeeps
<1>3. ASSUME NEW c \in Clients, Delete(c)
      PROVE  IInv'
  <2>1. pc[c] # "idle" /\ Save(c, None)
    BY <1>3 DEF Delete
  <2> QED
    BY <2>1, SaveKeeps
<1>4. ASSUME NEW c \in Clients, Select(c)
      PROVE  IInv'
  BY <1>4, SelectKeeps
<1>5. ASSUME NEW c \in Clients, Upsert(c)
      PROVE  IInv'
  <2>1. body[c] \in Docs /\ read[c] \in Docs \cup {None}
    BY <1>5 DEF Upsert, IInv, TypeOK, RequestInv, Patching
  <2>2. Merged(c) \in Docs \cup {None}
    BY <2>1, DocsMerge
  <2>3. pc[c] # "idle" /\ Save(c, Merged(c))
    BY <1>5 DEF Upsert
  <2> QED
    BY <2>2, <2>3, SaveKeeps
<1>6. ASSUME NEW c \in Clients, Crash(c)
      PROVE  IInv'
  BY <1>6, CrashKeeps
<1>7. CASE UNCHANGED vars
  BY <1>7 DEF vars, request, IInv, TypeOK, RequestInv, Patching
<1> QED
  BY <1>1, <1>2, <1>3, <1>4, <1>5, <1>6, <1>7 DEF Next, Progress

\* Every variable keeps its type; in particular a merge stores a JSON object,
\* and a request holds what it read (CustomDataStore.upsert).
THEOREM TypeCorrect == Spec => []TypeOK
<1>1. IInv => TypeOK
  BY DEF IInv
<1> QED
  BY <1>1, InitInv, NextInv, PTL DEF Spec

-----------------------------------------------------------------------------
(***************************************************************************)
(* The refinement                                                          *)
(***************************************************************************)
Target == [c \in Clients |-> IF Patching(c) THEN entity[c] ELSE None]
Carried == [c \in Clients |-> IF Patching(c) THEN body[c] ELSE None]

\* Leaving a commit, a request leaves the table with d for its entity.
LEMMA SaveBecomes ==
  ASSUME IInv, NEW c \in Clients, NEW e, e = entity[c], NEW d,
         pc[c] # "idle", Save(c, d),
         NEW under, under = [Target EXCEPT ![c] = None]
  PROVE  Store!Becomes(e, d, under)
<1>1. entity[c] \in Entities /\ entity[c] # None
  BY NoneAssumption DEF IInv, RequestInv
<1>2. Target' = [Target EXCEPT ![c] = None]
  BY DEF Target, Patching, Save, Finish, IInv, TypeOK
<1>3. \A x \in Clients : [Target EXCEPT ![c] = None][x]
                           = IF x = c \/ ~Patching(x) THEN None ELSE entity[x]
  BY DEF Target
<1>4. \A x \in Clients : Patching(x) => entity[x] # None
  BY NoneAssumption DEF IInv, RequestInv, Patching
<1>5. \A x \in Clients : ~Patching(x) => seen[x] = {}
  BY DEF IInv, RequestInv
<1>6. seen' = [x \in Clients |->
                IF [Target EXCEPT ![c] = None][x] = None THEN {}
                ELSE IF [Target EXCEPT ![c] = None][x] = entity[c] THEN seen[x] \cup {d}
                ELSE seen[x]]
  <2>1. seen' = [x \in Clients |->
                  IF x = c THEN {}
                  ELSE IF Patching(x) /\ entity[x] = entity[c] THEN seen[x] \cup {d}
                  ELSE seen[x]]
    BY DEF Save
  <2> QED
    BY <1>1, <1>3, <1>4, <1>5, <2>1
<1>7. stored' = [stored EXCEPT ![entity[c]] = d]
  BY DEF Save
<1>8. Carried' = [x \in Clients |-> IF under[x] = None THEN None ELSE Carried[x]]
  <2>1. \A x \in Clients :
          /\ (under[x] = None) <=> (x = c \/ ~Patching(x))
          /\ Patching(x)' <=> (x # c /\ Patching(x))
          /\ x # c => body'[x] = body[x]
    BY <1>3, <1>4 DEF Patching, Save, Finish, IInv, TypeOK
  <2> QED
    BY <2>1 DEF Carried
<1> QED
  BY <1>2, <1>6, <1>7, <1>8 DEF Store!Becomes, Target, Carried

LEMMA NextRefines ==
  ASSUME IInv, [Next]_vars
  PROVE  Store!Next \/ UNCHANGED <<stored, Target, Carried, seen>>
<1>1. ASSUME NEW c \in Clients, Arrive(c)
      PROVE  Store!Next \/ UNCHANGED <<stored, Target, Carried, seen>>
  <2>1. PICK e \in Entities, label \in {"replace", "delete", "select"} :
        \E d \in IF label = "delete" THEN {None} ELSE Docs :
          /\ entity' = [entity EXCEPT ![c] = e]
          /\ body' = [body EXCEPT ![c] = d]
          /\ pc' = [pc EXCEPT ![c] = label]
          /\ seen' = [seen EXCEPT ![c] = IF label = "select" THEN {stored[e]} ELSE {}]
    BY <1>1 DEF Arrive
  <2>2. Target[c] = None /\ Carried[c] = None /\ seen[c] = {} /\ stored' = stored
    BY <1>1 DEF Target, Carried, Patching, Arrive, IInv, RequestInv
  <2>3. CASE label = "select"
    <3>1. PICK d \in Docs : body' = [body EXCEPT ![c] = d]
      BY <2>1, <2>3
    <3>2. Target' = [Target EXCEPT ![c] = e]
      BY <2>1, <2>3 DEF Target, Patching, IInv, TypeOK
    <3>3. Carried' = [Carried EXCEPT ![c] = d]
      BY <2>1, <2>3, <3>1 DEF Carried, Patching, IInv, TypeOK
    <3>4. Store!Begin(c, e, d)
      BY <2>1, <2>2, <2>3, <3>2, <3>3 DEF Store!Begin, Target, Carried
    <3> QED
      BY <3>4 DEF Store!Next
  <2>4. CASE label # "select"
    <3>1. Target' = Target /\ Carried' = Carried
      BY <1>1, <2>1, <2>4 DEF Target, Carried, Patching, IInv, TypeOK, Arrive
    <3>2. seen' = seen
      BY <2>1, <2>2, <2>4 DEF IInv, TypeOK
    <3> QED
      BY <2>2, <3>1, <3>2
  <2> QED
    BY <2>3, <2>4
<1>2. ASSUME NEW c \in Clients, Replace(c)
      PROVE  Store!Next
  <2>1. /\ entity[c] \in Entities /\ body[c] \in Docs
        /\ [Target EXCEPT ![c] = None] = Target
    BY <1>2 DEF Replace, IInv, RequestInv, Target, Patching
  <2>2. PICK e \in Entities, d \in Docs : e = entity[c] /\ d = body[c]
    BY <2>1
  <2>3. pc[c] # "idle" /\ Save(c, d)
    BY <1>2, <2>2 DEF Replace, Save
  <2>4. Store!Put(e, d)
    BY <2>1, <2>2, <2>3, SaveBecomes DEF Store!Put, Store!Becomes, Target, Carried
  <2> QED
    BY <2>4 DEF Store!Next
<1>3. ASSUME NEW c \in Clients, Delete(c)
      PROVE  Store!Next
  <2>1. entity[c] \in Entities /\ [Target EXCEPT ![c] = None] = Target
    BY <1>3 DEF Delete, IInv, RequestInv, Target, Patching
  <2>2. PICK e \in Entities : e = entity[c]
    BY <2>1
  <2>3. pc[c] # "idle" /\ Save(c, None)
    BY <1>3 DEF Delete
  <2>4. Store!Delete(e)
    BY <2>1, <2>2, <2>3, SaveBecomes DEF Store!Delete, Store!Becomes, Target, Carried
  <2> QED
    BY <2>4 DEF Store!Next
<1>4. ASSUME NEW c \in Clients, Select(c)
      PROVE  UNCHANGED <<stored, Target, Carried, seen>>
  BY <1>4 DEF Select, Target, Carried, Patching, request, IInv, TypeOK
<1>5. ASSUME NEW c \in Clients, Upsert(c)
      PROVE  Store!Next
  <2>1. /\ body[c] \in Docs /\ read[c] \in seen[c]
        /\ Target[c] = entity[c] /\ entity[c] # None
        /\ Carried[c] = body[c]
    BY <1>5, NoneAssumption DEF Upsert, IInv, RequestInv, Target, Carried, Patching
  <2>2. PICK e \in Entities, d \in Docs, version \in seen[c] :
          e = entity[c] /\ d = body[c] /\ version = read[c]
    BY <1>5, <2>1 DEF Upsert, IInv, RequestInv
  <2>3. PICK new : new = Merged(c)
    OBVIOUS
  <2>4. new = Store!Overlay(d, version)
    BY <2>2, <2>3 DEF Merged, Store!Overlay
  <2>5. pc[c] # "idle" /\ Save(c, new)
    BY <1>5, <2>3 DEF Upsert, Save
  <2>6. PICK under : under = [Target EXCEPT ![c] = None]
    OBVIOUS
  <2>7. Store!Becomes(e, new, under)
    BY <2>2, <2>5, <2>6, SaveBecomes
  <2>8. Store!Patch(c)
    <3>1. /\ stored' = [stored EXCEPT ![e] = new]
          /\ Target' = under
          /\ Carried' = [x \in Clients |-> IF under[x] = None THEN None ELSE Carried[x]]
          /\ seen' = [x \in Clients |-> IF under[x] = None THEN {}
                                      ELSE IF under[x] = e THEN seen[x] \cup {new}
                                      ELSE seen[x]]
      BY <2>7 DEF Store!Becomes, Target, Carried
    <3>2. Target[c] = e /\ e # None /\ Carried[c] = d
      BY <2>1, <2>2
    <3>3. /\ stored' = [stored EXCEPT ![Target[c]] = Store!Overlay(Carried[c], version)]
          /\ Target' = [Target EXCEPT ![c] = None]
          /\ seen' = [x \in Clients |->
                        IF [Target EXCEPT ![c] = None][x] = None THEN {}
                        ELSE IF [Target EXCEPT ![c] = None][x] = Target[c]
                             THEN seen[x] \cup {Store!Overlay(Carried[c], version)}
                        ELSE seen[x]]
          /\ Carried' = [x \in Clients |->
                           IF [Target EXCEPT ![c] = None][x] = None THEN None
                           ELSE Carried[x]]
      BY <2>4, <2>6, <3>1, <3>2
    <3> QED
      BY <3>2, <3>3, Zenon DEF Store!Patch, Store!Becomes, Target, Carried
  <2> QED
    BY <2>8 DEF Store!Next
<1>6. ASSUME NEW c \in Clients, Crash(c)
      PROVE  Store!Next \/ UNCHANGED <<stored, Target, Carried, seen>>
  <2>1. /\ Target' = [Target EXCEPT ![c] = None]
        /\ Carried' = [Carried EXCEPT ![c] = None]
    BY <1>6 DEF Crash, Finish, Target, Carried, Patching, IInv, TypeOK
  <2>2. CASE Patching(c)
    <3>1. Target[c] # None
      BY <2>2, NoneAssumption DEF Target, Patching, IInv, RequestInv
    <3>2. Store!Abandon(c)
      BY <1>6, <2>1, <3>1 DEF Store!Abandon, Crash, Target, Carried
    <3> QED
      BY <3>2 DEF Store!Next
  <2>3. CASE ~Patching(c)
    <3>1. Target[c] = None /\ Carried[c] = None /\ seen[c] = {}
      BY <2>3 DEF Target, Carried, IInv, RequestInv
    <3>2. Target' = Target /\ Carried' = Carried /\ seen' = seen
      BY <1>6, <2>1, <3>1 DEF Crash, Target, Carried, IInv, TypeOK
    <3> QED
      BY <1>6, <3>2 DEF Crash
  <2> QED
    BY <2>2, <2>3
<1>7. CASE UNCHANGED vars
  BY <1>7 DEF vars, request, Target, Carried, Patching
<1> QED
  BY <1>1, <1>2, <1>3, <1>4, <1>5, <1>6, <1>7 DEF Next, Progress

\* However PUT, PATCH and DELETE of custom data overlap or fail, a PATCH merges
\* its fields over a version that was current while it was under way, at once.
THEOREM RefinesStore == Spec => StoreSpec
<1>1. Init => Store!Init
  BY DEF Init, Store!Init, Patching
<1>2. IInv /\ [Next]_vars => [Store!Next]_<<stored, Target, Carried, seen>>
  BY NextRefines
<1> QED
  BY <1>1, <1>2, InitInv, NextInv, PTL DEF Spec, StoreSpec, Store!Spec, Store!vars, Target, Carried

=============================================================================
