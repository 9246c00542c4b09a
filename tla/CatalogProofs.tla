---------------------------- MODULE CatalogProofs ----------------------------
(***************************************************************************)
(* What the definition repository guarantees for every set of clients,     *)
(* tenants and submissions: the shape of its tables, active versions, that *)
(* an instance keeps the definition it was started with, and that the      *)
(* validation accepts the definitions it should and no others.             *)
(***************************************************************************)
EXTENDS Catalog, FiniteSetTheorems, SequenceTheorems, WellFoundedInduction, TLAPS

StepLists == {s.steps : s \in Submissions}
Ids == {s.id : s \in Submissions}
Versions == {s.version : s \in Submissions}
Rows == [name : Names, steps : StepLists, active : BOOLEAN]
Pcs == {"idle", "invalid", "get", "update", "wait", "insert", "by_name", "by_key", "append"}
Requests == [pc : Pcs, sub : Submissions \cup Rows \cup {Nothing}, snap : SUBSET Keys,
             met : BOOLEAN, key : Keys \cup {<<>>}]
Genesis == [tenant : Tenants, id : Ids, version : Versions, steps : StepLists]

\* The types of everything.
Shape ==
  /\ rows \in [DOMAIN rows -> Rows] /\ DOMAIN rows \subseteq Keys
  /\ req \in [Clients -> Requests]
  /\ insts \in Seq(Genesis) /\ Len(insts) <= MaxInsts
  /\ crossed \subseteq Tenants \X Names
  /\ faults \in 0 .. MaxFaults

\* Row k is a version of the tenant's definition of that name.
Named(k, t, name) == k \in DOMAIN rows /\ k[1] = t /\ rows[k].name = name

\* uq_defn_name_version
Unique ==
  \A j, k \in DOMAIN rows : rows[j].name = rows[k].name /\ j[1] = k[1] /\ j[3] = k[3] => j = k

\* What a request in state r of client c has learnt still holds: the snapshot of
\* its UPDATE has versions of its name only, and all of them unless another
\* registration of the name has committed since; the row it resolved is there.
RequestOK(c, r) ==
  /\ r.pc # "idle" => Authenticated(c)
  /\ r.pc \in {"invalid", "get", "update", "wait", "insert"} => r.sub \in Submissions
  /\ r.snap \subseteq DOMAIN rows
  /\ r.pc \in {"wait", "insert"} =>
       /\ \A k \in r.snap : Named(k, TenantOf(c), r.sub.name)
       /\ ~r.met => \A k \in DOMAIN rows : Named(k, TenantOf(c), r.sub.name) => k \in r.snap
  /\ r.pc = "append" =>
       r.key \in DOMAIN rows /\ r.key[1] = TenantOf(c) /\ r.sub.steps = rows[r.key].steps

\* A name with a version has an active one, and no other unless its last
\* registration overlapped another.
OneActive ==
  \A k \in DOMAIN rows :
    /\ \E j \in DOMAIN rows : Named(j, k[1], rows[k].name) /\ rows[j].active
    /\ <<k[1], rows[k].name>> \notin crossed /\ rows[k].active =>
         \A j \in DOMAIN rows : Named(j, k[1], rows[k].name) /\ rows[j].active => j = k

IInv ==
  /\ Shape
  /\ Unique
  /\ \A c \in Clients : RequestOK(c, req[c])
  /\ OneActive
  /\ PinnedDefinitionStays
-----------------------------------------------------------------------------
\* Fields of a row.
LEMMA RowFields ==
  ASSUME NEW r \in Rows
  PROVE  r.name \in Names /\ r.steps \in StepLists /\ r.active \in BOOLEAN
BY DEF Rows

\* Fields of a request.
LEMMA RequestFields ==
  ASSUME NEW r \in Requests
  PROVE  /\ r.pc \in Pcs /\ r.sub \in Submissions \cup Rows \cup {Nothing}
         /\ r.snap \in SUBSET Keys /\ r.met \in BOOLEAN /\ r.key \in Keys \cup {<<>>}
BY DEF Requests

\* A key is a triple.
LEMMA KeyFields ==
  ASSUME NEW k \in Keys
  PROVE  /\ k[1] \in Tenants /\ k[2] \in Ids /\ k[3] \in Versions
         /\ k = <<k[1], k[2], k[3]>>
BY DEF Keys, Ids, Versions

\* The record of a client between two requests.
LEMMA IdleFacts ==
  /\ IdleRequest \in Requests /\ IdleRequest.pc = "idle" /\ IdleRequest.snap = {}
  /\ \A c \in Clients : RequestOK(c, IdleRequest)
<1>1. /\ IdleRequest \in Requests /\ IdleRequest.pc = "idle" /\ IdleRequest.snap = {}
  BY DEF IdleRequest, Requests, Pcs
<1> QED
  BY <1>1 DEF RequestOK

\* A client that is authenticated has a tenant.
LEMMA TenantKnown ==
  ASSUME NEW c \in Clients, Authenticated(c)
  PROVE  TenantOf(c) \in Tenants
BY DEF Authenticated, TenantOf, Tenants

\* A submission's fields.
LEMMA SubmissionFields ==
  ASSUME NEW c \in Clients, Authenticated(c), NEW sub \in Submissions
  PROVE  /\ sub.name \in Names /\ sub.steps \in StepLists
         /\ KeyOf(c, sub) \in Keys /\ KeyOf(c, sub)[1] = TenantOf(c)
         /\ KeyOf(c, sub)[3] = sub.version
<1>1. TenantOf(c) \in Tenants /\ sub.id \in Ids /\ sub.version \in Versions
  BY TenantKnown DEF Ids, Versions
<1>2. KeyOf(c, sub) = <<TenantOf(c), sub.id, sub.version>>
  BY DEF KeyOf
<1>3. KeyOf(c, sub) \in Tenants \X Ids \X Versions
  BY <1>1, <1>2
<1> QED
  BY <1>2, <1>3 DEF Keys, Ids, Versions, Names, StepLists
-----------------------------------------------------------------------------
\* The tables are empty.
LEMMA InitIInv == Init => IInv
<1> SUFFICES ASSUME Init PROVE IInv
  OBVIOUS
<1>1. DOMAIN rows = {} /\ rows \in [DOMAIN rows -> Rows]
  BY DEF Init
<1>2. insts \in Seq(Genesis) /\ Len(insts) = 0 /\ DOMAIN insts = {}
  BY DEF Init
<1>3. Shape
  BY <1>1, <1>2, IdleFacts, CatalogAssumption DEF Init, Shape
<1>4. \A c \in Clients : RequestOK(c, req[c])
  BY IdleFacts DEF Init
<1>5. Unique /\ OneActive
  BY <1>1 DEF Unique, OneActive
<1>6. PinnedDefinitionStays
  BY <1>2 DEF PinnedDefinitionStays
<1> QED
  BY <1>3, <1>4, <1>5, <1>6 DEF IInv

\* A request goes on, and the definitions stay as they are.
LEMMA RequestStep ==
  ASSUME IInv, NEW c \in Clients, NEW rec \in Requests, RequestOK(c, rec),
         req' = [req EXCEPT ![c] = rec], UNCHANGED <<rows, crossed>>,
         faults' \in 0 .. MaxFaults, UNCHANGED insts
  PROVE  IInv'
<1>1. Shape'
  BY DEF IInv, Shape
<1>2. Unique' /\ OneActive'
  BY DEF IInv, Unique, OneActive, Named
<1>3. (\A d \in Clients : RequestOK(d, req[d]))'
  <2> SUFFICES ASSUME NEW d \in Clients PROVE RequestOK(d, req[d])'
    OBVIOUS
  <2>1. RequestOK(d, req'[d])
    BY DEF IInv, Shape
  <2> QED
    BY <2>1 DEF RequestOK, Named
<1>4. PinnedDefinitionStays'
  BY DEF IInv, PinnedDefinitionStays
<1> QED
  BY <1>1, <1>2, <1>3, <1>4 DEF IInv

\* The same where the answer is sent.
LEMMA AnswerStep ==
  ASSUME IInv, NEW c \in Clients, Answer(c), UNCHANGED <<rows, crossed, insts>>,
         faults' \in 0 .. MaxFaults
  PROVE  IInv'
BY IdleFacts, RequestStep DEF Answer, Goto
-----------------------------------------------------------------------------
\* A definition is posted.
LEMMA SubmitIInv ==
  ASSUME IInv, NEW c \in Clients, NEW sub \in Submissions, Submit(c, sub)
  PROVE  IInv'
<1>1. PICK pc \in {"get", "invalid"} :
        pc = IF ValidDefinition(sub.steps) THEN "get" ELSE "invalid"
  OBVIOUS
<1> DEFINE rec == [IdleRequest EXCEPT !.sub = sub, !.pc = pc]
<1>2. req' = [req EXCEPT ![c] = rec] /\ UNCHANGED <<rows, crossed, insts, faults>>
  BY <1>1 DEF Submit, Goto
<1>3. rec \in Requests /\ rec.pc = pc /\ rec.sub = sub /\ rec.snap = {}
  BY DEF IdleRequest, Requests, Pcs
<1>4. Authenticated(c)
  BY DEF Submit, Authorised
<1> HIDE DEF rec
<1>5. RequestOK(c, rec)
  BY <1>1, <1>3, <1>4 DEF RequestOK
<1>6. faults' \in 0 .. MaxFaults
  BY <1>2 DEF IInv, Shape
<1> QED
  BY <1>2, <1>3, <1>5, <1>6, RequestStep

\* The same request in its next state.
LEMMA GoOn ==
  ASSUME IInv, NEW c \in Clients, NEW pc \in Pcs, NEW snap \in SUBSET Keys,
         Goto(c, [req[c] EXCEPT !.pc = pc, !.snap = snap]),
         \A r \in Requests : /\ r.pc = pc /\ r.snap = snap /\ r.sub = req[c].sub
                             /\ r.met = req[c].met /\ r.key = req[c].key
                             => RequestOK(c, r),
         UNCHANGED <<rows, insts, crossed, faults>>
  PROVE  IInv'
<1>1. req[c] \in Requests /\ faults \in 0 .. MaxFaults
  BY DEF IInv, Shape
<1> DEFINE rec == [req[c] EXCEPT !.pc = pc, !.snap = snap]
<1>2. /\ rec \in Requests /\ rec.pc = pc /\ rec.snap = snap /\ rec.sub = req[c].sub
      /\ rec.met = req[c].met /\ rec.key = req[c].key
  BY <1>1 DEF Requests
<1>3. req' = [req EXCEPT ![c] = rec]
  BY DEF Goto
<1> HIDE DEF rec
<1>4. RequestOK(c, rec)
  BY <1>2
<1>5. faults' \in 0 .. MaxFaults
  BY <1>1
<1> QED
  BY <1>2, <1>3, <1>4, <1>5, RequestStep

\* The version is looked for.
LEMMA GetIInv ==
  ASSUME IInv, NEW c \in Clients, Get(c)
  PROVE  IInv'
<1>1. req[c] \in Requests /\ RequestOK(c, req[c]) /\ faults \in 0 .. MaxFaults
  BY DEF IInv, Shape
<1>2. CASE KeyOf(c, req[c].sub) \in DOMAIN rows
  BY <1>1, <1>2, AnswerStep DEF Get
<1>3. CASE KeyOf(c, req[c].sub) \notin DOMAIN rows
  <2>1. PICK snap \in SUBSET Keys : snap = req[c].snap
    BY <1>1, RequestFields
  <2>2. [req[c] EXCEPT !.pc = "update"] = [req[c] EXCEPT !.pc = "update", !.snap = snap]
    BY <1>1, <2>1 DEF Requests
  <2>3. /\ Goto(c, [req[c] EXCEPT !.pc = "update", !.snap = snap])
        /\ req[c].pc = "get" /\ UNCHANGED <<rows, insts, crossed, faults>>
    BY <1>3, <2>2 DEF Get
  <2>4. "update" \in Pcs
    BY DEF Pcs
  <2>5. ASSUME NEW r \in Requests, r.pc = "update", r.snap = snap, r.sub = req[c].sub
        PROVE  RequestOK(c, r)
    BY <1>1, <2>1, <2>3, <2>5 DEF RequestOK
  <2> QED
    BY <2>3, <2>4, <2>5, GoOn
<1> QED
  BY <1>2, <1>3

\* The UPDATE takes its snapshot.
LEMMA UpdateBeginIInv ==
  ASSUME IInv, NEW c \in Clients, UpdateBegin(c)
  PROVE  IInv'
<1>1. req[c] \in Requests /\ RequestOK(c, req[c]) /\ DOMAIN rows \subseteq Keys
  BY DEF IInv, Shape
<1>2. PICK snap \in SUBSET Keys : snap = Others(c)
  BY <1>1 DEF Others
<1>3. /\ Goto(c, [req[c] EXCEPT !.pc = "wait", !.snap = snap])
      /\ req[c].pc = "update" /\ UNCHANGED <<rows, insts, crossed, faults>>
  BY <1>2 DEF UpdateBegin
<1>4. "wait" \in Pcs
  BY DEF Pcs
<1>5. ASSUME NEW r \in Requests, r.pc = "wait", r.snap = snap, r.sub = req[c].sub
      PROVE  RequestOK(c, r)
  BY <1>1, <1>2, <1>3, <1>5 DEF RequestOK, Others, Named
<1> QED
  BY <1>3, <1>4, <1>5, GoOn

\* It has its locks.
LEMMA UpdateDoneIInv ==
  ASSUME IInv, NEW c \in Clients, UpdateDone(c)
  PROVE  IInv'
<1>1. req[c] \in Requests /\ RequestOK(c, req[c])
  BY DEF IInv, Shape
<1>2. PICK snap \in SUBSET Keys : snap = req[c].snap
  BY <1>1, RequestFields
<1>3. [req[c] EXCEPT !.pc = "insert"] = [req[c] EXCEPT !.pc = "insert", !.snap = snap]
  BY <1>1, <1>2 DEF Requests
<1>4. /\ Goto(c, [req[c] EXCEPT !.pc = "insert", !.snap = snap])
      /\ req[c].pc = "wait" /\ UNCHANGED <<rows, insts, crossed, faults>>
  BY <1>3 DEF UpdateDone
<1>5. "insert" \in Pcs
  BY DEF Pcs
<1>6. ASSUME NEW r \in Requests, r.pc = "insert", r.snap = snap, r.sub = req[c].sub,
             r.met = req[c].met
      PROVE  RequestOK(c, r)
  BY <1>1, <1>2, <1>4, <1>6 DEF RequestOK
<1> QED
  BY <1>4, <1>5, <1>6, GoOn

\* An instance is to be started, by name or by key.
LEMMA ExecuteIInv ==
  ASSUME IInv, NEW c \in Clients, Execute(c) \/ Trigger(c)
  PROVE  IInv'
<1>1. PICK pc \in {"by_name", "by_key"} : Goto(c, [IdleRequest EXCEPT !.pc = pc])
  BY DEF Execute, Trigger
<1> DEFINE rec == [IdleRequest EXCEPT !.pc = pc]
<1>2. req' = [req EXCEPT ![c] = rec] /\ UNCHANGED <<rows, crossed, insts, faults>>
  BY <1>1 DEF Execute, Trigger, Goto
<1>3. rec \in Requests /\ rec.pc = pc /\ rec.snap = {}
  BY DEF IdleRequest, Requests, Pcs
<1>4. Authenticated(c)
  BY DEF Execute, Trigger, Authorised
<1> HIDE DEF rec
<1>5. RequestOK(c, rec)
  BY <1>1, <1>3, <1>4 DEF RequestOK
<1>6. faults' \in 0 .. MaxFaults
  BY <1>2 DEF IInv, Shape
<1> QED
  BY <1>2, <1>3, <1>5, <1>6, RequestStep

\* The definition is found: the client's own row, whose steps it takes.
LEMMA ResolveIInv ==
  ASSUME IInv, NEW c \in Clients, Resolve(c)
  PROVE  IInv'
<1>1. PICK k \in DOMAIN rows :
        /\ \/ req[c].pc = "by_name" /\ \E name \in Names : k \in ActiveRows(c, name)
           \/ req[c].pc = "by_key" /\ k \in RowsOf(c)
        /\ Goto(c, [req[c] EXCEPT !.pc = "append", !.key = k, !.sub = rows[k]])
  BY DEF Resolve
<1>2. k[1] = TenantOf(c) /\ req[c].pc \in {"by_name", "by_key"}
  BY <1>1 DEF ActiveRows, RowsOf
<1>3. /\ req[c] \in Requests /\ RequestOK(c, req[c]) /\ rows[k] \in Rows /\ k \in Keys
      /\ faults \in 0 .. MaxFaults
  BY DEF IInv, Shape
<1> DEFINE rec == [req[c] EXCEPT !.pc = "append", !.key = k, !.sub = rows[k]]
<1>4. req' = [req EXCEPT ![c] = rec] /\ UNCHANGED <<rows, crossed, insts, faults>>
  BY <1>1 DEF Resolve, Goto
<1>5. /\ rec \in Requests /\ rec.pc = "append" /\ rec.key = k /\ rec.sub = rows[k]
      /\ rec.snap = req[c].snap
  BY <1>3 DEF Requests, Pcs
<1> HIDE DEF rec
<1>6. RequestOK(c, rec)
  BY <1>2, <1>3, <1>5 DEF RequestOK
<1>7. faults' \in 0 .. MaxFaults
  BY <1>3, <1>4
<1> QED
  BY <1>4, <1>5, <1>6, <1>7, RequestStep

\* An instance is started: what its genesis event names is the row that was
\* resolved.
LEMMA CreateInstanceIInv ==
  ASSUME IInv, NEW c \in Clients, CreateInstance(c)
  PROVE  IInv'
<1>1. /\ req[c] \in Requests /\ RequestOK(c, req[c]) /\ req[c].pc = "append"
      /\ rows \in [DOMAIN rows -> Rows] /\ DOMAIN rows \subseteq Keys
      /\ insts \in Seq(Genesis) /\ Len(insts) < MaxInsts
  BY DEF IInv, Shape, CreateInstance
<1>2. PICK k \in DOMAIN rows : /\ k = req[c].key /\ k[1] = TenantOf(c)
                               /\ req[c].sub.steps = rows[k].steps
  BY <1>1 DEF RequestOK
<1>3. /\ k[1] \in Tenants /\ k[2] \in Ids /\ k[3] \in Versions /\ k = <<k[1], k[2], k[3]>>
      /\ rows[k].steps \in StepLists
  BY <1>1, KeyFields, RowFields
<1>4. PICK e \in Genesis : /\ e = InstanceCreated(c)
                           /\ <<e.tenant, e.id, e.version>> = k /\ e.steps = rows[k].steps
  <2> DEFINE e == [tenant |-> k[1], id |-> k[2], version |-> k[3], steps |-> rows[k].steps]
  <2>1. e \in Genesis
    BY <1>3 DEF Genesis
  <2>2. e = InstanceCreated(c)
    BY <1>2 DEF InstanceCreated
  <2>3. <<e.tenant, e.id, e.version>> = k /\ e.steps = rows[k].steps
    BY <1>3
  <2> HIDE DEF e
  <2> QED
    BY <2>1, <2>2, <2>3
<1>5. /\ insts' = Append(insts, e) /\ Answer(c) /\ UNCHANGED <<rows, crossed, faults>>
  BY <1>4 DEF CreateInstance
<1>6. PICK old \in Seq(Genesis) : old = insts
  BY <1>1
<1>7. PICK new \in Seq(Genesis) :
        /\ new = Append(old, e) /\ Len(new) = Len(old) + 1
        /\ \A n \in 1 .. Len(old) : new[n] = old[n]
        /\ new[Len(old) + 1] = e
  BY AppendProperties
<1>8. /\ Len(old) \in Nat /\ DOMAIN old = 1 .. Len(old) /\ DOMAIN new = 1 .. Len(new)
  BY LenProperties
<1>9. req' = [req EXCEPT ![c] = IdleRequest]
  BY <1>5 DEF Answer, Goto
<1>10. Shape'
  <2>1. insts' \in Seq(Genesis)
    BY <1>5, <1>6, <1>7
  <2>2. Len(insts') <= MaxInsts
    BY <1>1, <1>5, <1>6, <1>7, <1>8, CatalogAssumption
  <2> QED
    BY <1>5, <1>9, <2>1, <2>2, IdleFacts DEF IInv, Shape
<1>11. Unique' /\ OneActive'
  BY <1>5 DEF IInv, Unique, OneActive, Named
<1>12. (\A d \in Clients : RequestOK(d, req[d]))'
  <2> SUFFICES ASSUME NEW d \in Clients PROVE RequestOK(d, req[d])'
    OBVIOUS
  <2>1. RequestOK(d, req'[d])
    BY <1>9, IdleFacts DEF IInv, Shape
  <2> QED
    BY <1>5, <2>1 DEF RequestOK, Named
<1>13. PinnedDefinitionStays'
  <2> SUFFICES ASSUME NEW n \in DOMAIN new
               PROVE  LET key == <<new[n].tenant, new[n].id, new[n].version>>
                      IN key \in DOMAIN rows /\ rows[key].steps = new[n].steps
    BY <1>5, <1>6, <1>7 DEF PinnedDefinitionStays
  <2>1. CASE n \in 1 .. Len(old)
    BY <1>6, <1>7, <1>8, <2>1 DEF IInv, PinnedDefinitionStays
  <2>2. CASE n = Len(old) + 1
    BY <1>4, <1>7, <2>2
  <2>3. n \in 1 .. Len(old) \/ n = Len(old) + 1
    <3>1. n \in 1 .. Len(new) /\ Len(new) = Len(old) + 1 /\ Len(old) \in Nat
      BY <1>7, <1>8
    <3> QED
      BY <3>1
  <2> QED
    BY <2>1, <2>2, <2>3
<1> QED
  BY <1>10, <1>11, <1>12, <1>13 DEF IInv
-----------------------------------------------------------------------------
\* What the INSERT and the COMMIT do to the table: one new row, which is active,
\* and the rows of the snapshot no longer are.
LEMMA InsertRows ==
  ASSUME IInv, NEW c \in Clients, Insert(c)
  PROVE  \E key \in Keys :
           /\ key = KeyOf(c, req[c].sub) /\ key \notin DOMAIN rows
           /\ ~Taken(key, req[c].sub.name)
           /\ DOMAIN rows' = DOMAIN rows \cup {key} /\ rows' \in [DOMAIN rows' -> Rows]
           /\ rows'[key].name = req[c].sub.name /\ rows'[key].active
           /\ \A k \in DOMAIN rows : /\ rows'[k].name = rows[k].name
                                     /\ rows'[k].steps = rows[k].steps
                                     /\ rows'[k].active <=> (rows[k].active /\ k \notin req[c].snap)
<1>1. /\ req[c] \in Requests /\ RequestOK(c, req[c]) /\ req[c].pc = "insert"
      /\ rows \in [DOMAIN rows -> Rows]
  BY DEF IInv, Shape, Insert
<1>2. PICK sub \in Submissions : sub = req[c].sub
  BY <1>1 DEF RequestOK
<1>3. PICK key \in Keys : key = KeyOf(c, sub)
  BY <1>1, SubmissionFields DEF RequestOK
<1> DEFINE row == [name |-> sub.name, steps |-> sub.steps, active |-> TRUE]
           off(k) == [rows[k] EXCEPT !.active = FALSE]
<1>4. row \in Rows /\ row.name = sub.name /\ row.active
  <2>1. sub.name \in Names /\ sub.steps \in StepLists
    BY <1>1, SubmissionFields DEF RequestOK
  <2> QED
    BY <2>1 DEF Rows
<1>5. \A k \in DOMAIN rows : /\ off(k) \in Rows /\ off(k).name = rows[k].name
                             /\ off(k).steps = rows[k].steps /\ ~off(k).active
  BY <1>1 DEF Rows
<1>6. /\ ~Taken(key, sub.name)
      /\ rows' = [k \in DOMAIN rows \cup {key} |->
           IF k = key THEN row ELSE IF k \in req[c].snap THEN off(k) ELSE rows[k]]
  BY <1>2, <1>3 DEF Insert
<1>7. key \notin DOMAIN rows
  BY <1>6 DEF Taken
<1> HIDE DEF row, off
<1>8. DOMAIN rows' = DOMAIN rows \cup {key} /\ rows'[key] = row
  BY <1>6
<1>9. \A k \in DOMAIN rows : rows'[k] = IF k \in req[c].snap THEN off(k) ELSE rows[k]
  BY <1>6, <1>7
<1>10. \A k \in DOMAIN rows : /\ rows'[k] \in Rows /\ rows'[k].name = rows[k].name
                              /\ rows'[k].steps = rows[k].steps
                              /\ rows'[k].active <=> (rows[k].active /\ k \notin req[c].snap)
  <2> SUFFICES ASSUME NEW k \in DOMAIN rows
               PROVE  /\ rows'[k] \in Rows /\ rows'[k].name = rows[k].name
                      /\ rows'[k].steps = rows[k].steps
                      /\ rows'[k].active <=> (rows[k].active /\ k \notin req[c].snap)
    OBVIOUS
  <2>1. rows[k] \in Rows /\ rows[k].active \in BOOLEAN
    BY <1>1, RowFields
  <2>2. CASE k \in req[c].snap
    <3>1. rows'[k] = off(k)
      BY <1>9, <2>2
    <3> QED
      BY <1>5, <2>2, <3>1
  <2>3. CASE k \notin req[c].snap
    BY <1>9, <2>1, <2>3
  <2> QED
    BY <2>2, <2>3
<1>11. rows' \in [DOMAIN rows' -> Rows]
  <2>1. \A k \in DOMAIN rows' : rows'[k] \in Rows
    BY <1>4, <1>8, <1>10
  <2>2. rows' = [k \in DOMAIN rows' |-> rows'[k]]
    BY <1>6
  <2> QED
    BY <2>1, <2>2
<1> QED
  BY <1>2, <1>3, <1>4, <1>6, <1>7, <1>8, <1>10, <1>11

\* What it does to the requests: the client is done, and a registration of the
\* same name that has taken its snapshot is told.
LEMMA InsertRequests ==
  ASSUME IInv, NEW c \in Clients, Insert(c)
  PROVE  /\ req' \in [Clients -> Requests] /\ req'[c] = IdleRequest
         /\ \A d \in Clients \ {c} :
              /\ req'[d].pc = req[d].pc /\ req'[d].sub = req[d].sub
              /\ req'[d].snap = req[d].snap /\ req'[d].key = req[d].key
              /\ req[d].pc \in {"wait", "insert"} /\ TenantOf(d) = TenantOf(c)
                   /\ req[d].sub.name = req[c].sub.name => req'[d].met
              /\ ~req'[d].met => ~req[d].met
<1>1. req \in [Clients -> Requests]
  BY DEF IInv, Shape
<1> DEFINE told(d) == [req[d] EXCEPT !.met = TRUE]
           same(d) == req[d].pc \in {"wait", "insert"} /\
                      <<TenantOf(d), req[d].sub.name>> = <<TenantOf(c), req[c].sub.name>>
<1>2. \A d \in Clients : /\ told(d) \in Requests /\ told(d).pc = req[d].pc
                         /\ told(d).sub = req[d].sub /\ told(d).snap = req[d].snap
                         /\ told(d).key = req[d].key /\ told(d).met
  BY <1>1 DEF Requests
<1>3. req' = [d \in Clients |-> IF d = c THEN IdleRequest
                                ELSE IF same(d) THEN told(d) ELSE req[d]]
  BY DEF Insert
<1>4. \A d \in Clients : req[d].pc \in {"wait", "insert"} /\ TenantOf(d) = TenantOf(c)
                           /\ req[d].sub.name = req[c].sub.name => same(d)
  OBVIOUS
<1> HIDE DEF told, same
<1>5. /\ req'[c] = IdleRequest
      /\ \A d \in Clients \ {c} : req'[d] = IF same(d) THEN told(d) ELSE req[d]
  BY <1>3
<1>6. req' \in [Clients -> Requests]
  BY <1>1, <1>2, <1>3, IdleFacts
<1>7. ASSUME NEW d \in Clients \ {c}
      PROVE  /\ req'[d].pc = req[d].pc /\ req'[d].sub = req[d].sub
             /\ req'[d].snap = req[d].snap /\ req'[d].key = req[d].key
             /\ same(d) => req'[d].met
             /\ ~req'[d].met => ~req[d].met
  <2>1. CASE same(d)
    BY <1>2, <1>5, <2>1
  <2>2. CASE ~same(d)
    BY <1>5, <2>2
  <2> QED
    BY <2>1, <2>2
<1> QED
  BY <1>4, <1>5, <1>6, <1>7

\* The definition is registered.
LEMMA InsertIInv ==
  ASSUME IInv, NEW c \in Clients, Insert(c)
  PROVE  IInv'
<1>1. PICK key \in Keys :
           /\ key = KeyOf(c, req[c].sub) /\ key \notin DOMAIN rows
           /\ ~Taken(key, req[c].sub.name)
           /\ DOMAIN rows' = DOMAIN rows \cup {key} /\ rows' \in [DOMAIN rows' -> Rows]
           /\ rows'[key].name = req[c].sub.name /\ rows'[key].active
           /\ \A k \in DOMAIN rows : /\ rows'[k].name = rows[k].name
                                     /\ rows'[k].steps = rows[k].steps
                                     /\ rows'[k].active <=> (rows[k].active /\ k \notin req[c].snap)
  BY InsertRows
<1>2. PICK name, t : name = req[c].sub.name /\ t = TenantOf(c)
  OBVIOUS
<1>3. /\ RequestOK(c, req[c]) /\ req[c].pc = "insert" /\ req[c].sub \in Submissions
      /\ Authenticated(c) /\ DOMAIN rows \subseteq Keys
  BY DEF IInv, Shape, Insert, RequestOK
<1>4. key[1] = t /\ key[3] = req[c].sub.version /\ name \in Names /\ t \in Tenants
  BY <1>1, <1>2, <1>3, SubmissionFields, TenantKnown
<1>5. /\ crossed' = IF req[c].met THEN crossed \cup {<<t, name>>} ELSE crossed \ {<<t, name>>}
      /\ UNCHANGED <<insts, faults>>
  BY <1>2 DEF Insert
<1>6. /\ req' \in [Clients -> Requests] /\ req'[c] = IdleRequest
      /\ \A d \in Clients \ {c} :
           /\ req'[d].pc = req[d].pc /\ req'[d].sub = req[d].sub
           /\ req'[d].snap = req[d].snap /\ req'[d].key = req[d].key
           /\ req[d].pc \in {"wait", "insert"} /\ TenantOf(d) = t
                /\ req[d].sub.name = name => req'[d].met
           /\ ~req'[d].met => ~req[d].met
  BY <1>2, InsertRequests
<1>7. Shape'
  BY <1>1, <1>3, <1>4, <1>5, <1>6 DEF IInv, Shape
<1>8. Unique'
  <2> SUFFICES ASSUME NEW j \in DOMAIN rows', NEW k \in DOMAIN rows',
                      rows'[j].name = rows'[k].name, j[1] = k[1], j[3] = k[3]
               PROVE  j = k
    BY DEF Unique
  <2>1. \A i \in DOMAIN rows : ~(i[1] = t /\ i[3] = key[3] /\ rows[i].name = name)
    BY <1>1, <1>2, <1>4 DEF Taken
  <2>2. CASE j \in DOMAIN rows /\ k \in DOMAIN rows
    BY <1>1, <2>2 DEF IInv, Unique
  <2>3. CASE j = key /\ k \in DOMAIN rows
    BY <1>1, <1>2, <1>4, <2>1, <2>3
  <2>4. CASE k = key /\ j \in DOMAIN rows
    BY <1>1, <1>2, <1>4, <2>1, <2>4
  <2> QED
    BY <1>1, <2>2, <2>3, <2>4
<1>9. (\A d \in Clients : RequestOK(d, req[d]))'
  <2> SUFFICES ASSUME NEW d \in Clients PROVE RequestOK(d, req[d])'
    OBVIOUS
  <2>1. CASE d = c
    BY <1>6, <2>1, IdleFacts DEF RequestOK
  <2>2. CASE d # c
    <3>1. RequestOK(d, req[d])
      BY DEF IInv
    <3>2. /\ req'[d].pc # "idle" => Authenticated(d)
          /\ req'[d].pc \in {"invalid", "get", "update", "wait", "insert"} =>
               req'[d].sub \in Submissions
          /\ req'[d].snap \subseteq DOMAIN rows'
      BY <1>1, <1>6, <2>2, <3>1 DEF RequestOK
    <3>3. ASSUME req'[d].pc \in {"wait", "insert"}, NEW k \in req'[d].snap
          PROVE  /\ k \in DOMAIN rows' /\ k[1] = TenantOf(d)
                 /\ rows'[k].name = req'[d].sub.name
      BY <1>1, <1>6, <2>2, <3>1, <3>3 DEF RequestOK, Named
    <3>4. ASSUME req'[d].pc \in {"wait", "insert"}, ~req'[d].met, NEW k \in DOMAIN rows',
                 k[1] = TenantOf(d), rows'[k].name = req'[d].sub.name
          PROVE  k \in req'[d].snap
      <4>1. CASE k = key
        BY <1>1, <1>2, <1>4, <1>6, <2>2, <3>4, <4>1
      <4>2. CASE k \in DOMAIN rows
        BY <1>1, <1>6, <2>2, <3>1, <3>4, <4>2 DEF RequestOK, Named
      <4> QED
        BY <1>1, <3>4, <4>1, <4>2
    <3>5. req'[d].pc = "append" =>
            /\ req'[d].key \in DOMAIN rows' /\ req'[d].key[1] = TenantOf(d)
            /\ req'[d].sub.steps = rows'[req'[d].key].steps
      BY <1>1, <1>6, <2>2, <3>1 DEF RequestOK
    <3> QED
      BY <3>2, <3>3, <3>4, <3>5 DEF RequestOK, Named
  <2> QED
    BY <2>1, <2>2
<1>10. OneActive'
  <2>1. \A k \in DOMAIN rows : k \in req[c].snap => k[1] = t /\ rows[k].name = name
    BY <1>2, <1>3 DEF RequestOK, Named
  <2> SUFFICES ASSUME NEW k \in DOMAIN rows'
               PROVE  /\ \E j \in DOMAIN rows' : /\ j[1] = k[1] /\ rows'[j].name = rows'[k].name
                                                 /\ rows'[j].active
                      /\ <<k[1], rows'[k].name>> \notin crossed' /\ rows'[k].active =>
                           \A j \in DOMAIN rows' :
                             j[1] = k[1] /\ rows'[j].name = rows'[k].name /\ rows'[j].active
                               => j = k
    BY DEF OneActive, Named
  <2>2. CASE k[1] = t /\ rows'[k].name = name
    <3>1. ASSUME <<t, name>> \notin crossed', NEW j \in DOMAIN rows, j[1] = t,
                 rows[j].name = name
          PROVE  ~rows'[j].active
      <4>1. ~req[c].met
        BY <1>5, <3>1
      <4>2. j \in req[c].snap
        BY <1>2, <1>3, <3>1, <4>1 DEF RequestOK, Named
      <4> QED
        BY <1>1, <4>2
    <3>2. /\ key \in DOMAIN rows' /\ key[1] = k[1] /\ rows'[key].name = rows'[k].name
          /\ rows'[key].active
      BY <1>1, <1>2, <1>4, <2>2
    <3>3. ASSUME <<k[1], rows'[k].name>> \notin crossed',
                 NEW j \in DOMAIN rows', j[1] = t, rows'[j].name = name, rows'[j].active
          PROVE  j = key
      <4>1. <<t, name>> \notin crossed'
        BY <2>2, <3>3
      <4>2. j \in DOMAIN rows => rows[j].name = name
        BY <1>1, <3>3
      <4>3. j \notin DOMAIN rows
        BY <3>1, <3>3, <4>1, <4>2
      <4> QED
        BY <1>1, <4>3
    <3>4. ASSUME <<k[1], rows'[k].name>> \notin crossed', rows'[k].active,
                 NEW j \in DOMAIN rows', j[1] = k[1], rows'[j].name = rows'[k].name,
                 rows'[j].active
          PROVE  j = k
      <4>1. j = key
        BY <2>2, <3>3, <3>4
      <4>2. k = key
        BY <2>2, <3>3, <3>4
      <4> QED
        BY <4>1, <4>2
    <3> QED
      BY <3>2, <3>4
  <2>3. CASE ~(k[1] = t /\ rows'[k].name = name)
    <3>1. k \in DOMAIN rows /\ rows'[k].name = rows[k].name
      BY <1>1, <1>2, <1>4, <2>3
    <3>2. PICK i \in DOMAIN rows : /\ i[1] = k[1] /\ rows[i].name = rows[k].name
                                   /\ rows[i].active
      BY <3>1 DEF IInv, OneActive, Named
    <3>3. i \in DOMAIN rows' /\ rows'[i].name = rows'[k].name /\ rows'[i].active
      BY <1>1, <2>1, <2>3, <3>1, <3>2
    <3>4. ASSUME <<k[1], rows'[k].name>> \notin crossed', rows'[k].active,
                 NEW j \in DOMAIN rows', j[1] = k[1], rows'[j].name = rows'[k].name,
                 rows'[j].active
          PROVE  j = k
      <4>1. <<k[1], rows[k].name>> \notin crossed
        <5>1. <<k[1], rows[k].name>> # <<t, name>>
          BY <2>3, <3>1
        <5> QED
          BY <1>5, <3>1, <3>4, <5>1
      <4>2. j \in DOMAIN rows
        BY <1>1, <1>2, <1>4, <2>3, <3>4
      <4>3. rows[k].active /\ rows[j].active /\ rows[j].name = rows[k].name
        BY <1>1, <3>1, <3>4, <4>2
      <4> QED
        BY <3>1, <3>4, <4>1, <4>2, <4>3 DEF IInv, OneActive, Named
    <3>5. \E j \in DOMAIN rows' : /\ j[1] = k[1] /\ rows'[j].name = rows'[k].name
                                  /\ rows'[j].active
      BY <3>2, <3>3
    <3> QED
      BY <3>4, <3>5
  <2> QED
    BY <2>2, <2>3
<1>11. PinnedDefinitionStays'
  <2> SUFFICES ASSUME NEW n \in DOMAIN insts
               PROVE  LET k == <<insts[n].tenant, insts[n].id, insts[n].version>>
                      IN k \in DOMAIN rows' /\ rows'[k].steps = insts[n].steps
    BY <1>5 DEF PinnedDefinitionStays
  <2>1. PICK k : k = <<insts[n].tenant, insts[n].id, insts[n].version>>
    OBVIOUS
  <2>2. k \in DOMAIN rows /\ rows[k].steps = insts[n].steps
    BY <2>1 DEF IInv, PinnedDefinitionStays
  <2>3. k \in DOMAIN rows' /\ rows'[k].steps = insts[n].steps
    BY <1>1, <2>2
  <2> QED
    BY <2>1, <2>3
<1> QED
  BY <1>7, <1>8, <1>9, <1>10, <1>11 DEF IInv
-----------------------------------------------------------------------------
\* Every step keeps the invariant.
LEMMA NextIInv == IInv /\ [Next]_vars => IInv'
<1> SUFFICES ASSUME IInv, [Next]_vars PROVE IInv'
  OBVIOUS
<1>1. CASE UNCHANGED vars
  <2>1. Shape' /\ Unique' /\ OneActive' /\ PinnedDefinitionStays'
    BY <1>1 DEF vars, IInv, Shape, Unique, OneActive, Named, PinnedDefinitionStays
  <2>2. (\A c \in Clients : RequestOK(c, req[c]))'
    BY <1>1 DEF vars, IInv, RequestOK, Named
  <2> QED
    BY <2>1, <2>2 DEF IInv
<1>2. ASSUME NEW c \in Clients, Request(c) PROVE IInv'
  <2>1. faults \in 0 .. MaxFaults
    BY DEF IInv, Shape
  <2>2. CASE Reject(c) \/ InsertFails(c) \/ NotFound(c)
    BY <2>1, <2>2, AnswerStep DEF Reject, InsertFails, NotFound
  <2>3. CASE Aborted(c)
    <3>1. faults' \in 0 .. MaxFaults
      BY <2>1, <2>3, CatalogAssumption DEF Aborted, UseFault
    <3> QED
      BY <2>3, <3>1, AnswerStep DEF Aborted
  <2>4. CASE \E sub \in Submissions : Submit(c, sub)
    BY <2>4, SubmitIInv
  <2>5. CASE Get(c)
    BY <2>5, GetIInv
  <2>6. CASE UpdateBegin(c)
    BY <2>6, UpdateBeginIInv
  <2>7. CASE UpdateDone(c)
    BY <2>7, UpdateDoneIInv
  <2>8. CASE Insert(c)
    BY <2>8, InsertIInv
  <2>9. CASE Execute(c) \/ Trigger(c)
    BY <2>9, ExecuteIInv
  <2>10. CASE Resolve(c)
    BY <2>10, ResolveIInv
  <2>11. CASE CreateInstance(c)
    BY <2>11, CreateInstanceIInv
  <2> QED
    BY <1>2, <2>2, <2>3, <2>4, <2>5, <2>6, <2>7, <2>8, <2>9, <2>10, <2>11 DEF Request
<1> QED
  BY <1>1, <1>2 DEF Next

\* What the requests have learnt stays true in every reachable state.
THEOREM CatalogInvariant == Spec => []IInv
BY InitIInv, NextIInv, PTL DEF Spec

\* The tables and the requests keep their shape, and the unique constraints hold.
THEOREM CatalogTypeCorrect == Spec => []TypeOK
<1>1. IInv => TypeOK
  <2> SUFFICES ASSUME IInv PROVE TypeOK
    OBVIOUS
  <2>1. \A k \in DOMAIN rows :
          rows[k].name \in Names /\ rows[k].active \in BOOLEAN /\ rows[k].steps \in StepLists
    BY RowFields DEF IInv, Shape
  <2>2. \A c \in Clients : req[c].pc \in Pcs /\ req[c].snap \subseteq DOMAIN rows
    BY RequestFields DEF IInv, Shape, RequestOK
  <2> QED
    BY <2>1, <2>2 DEF IInv, Shape, Unique, TypeOK, StepLists, Pcs
<1> QED
  BY <1>1, CatalogInvariant, PTL

\* A registered name has an active version whatever registrations fail half way,
\* and two only after registrations that overlapped.
THEOREM ActiveVersionCorrect == Spec => []ActiveVersion
<1>1. IInv => ActiveVersion
  <2> SUFFICES ASSUME IInv, NEW t \in Tenants, NEW name \in Names
               PROVE  LET all == {k \in DOMAIN rows : k[1] = t /\ rows[k].name = name}
                          active == {k \in all : rows[k].active}
                      IN all # {} => /\ active # {}
                                     /\ <<t, name>> \notin crossed => Cardinality(active) = 1
    BY DEF ActiveVersion
  <2> DEFINE all == {k \in DOMAIN rows : k[1] = t /\ rows[k].name = name}
             active == {k \in all : rows[k].active}
  <2> SUFFICES ASSUME all # {}
               PROVE  /\ active # {}
                      /\ <<t, name>> \notin crossed => Cardinality(active) = 1
    OBVIOUS
  <2>0. PICK m \in DOMAIN rows : m[1] = t /\ rows[m].name = name
    OBVIOUS
  <2>1. PICK k \in DOMAIN rows : Named(k, t, name) /\ rows[k].active
    BY <2>0 DEF IInv, OneActive
  <2>2. k \in active
    BY <2>1 DEF Named
  <2>3. ASSUME <<t, name>> \notin crossed PROVE Cardinality(active) = 1
    <3>1. \A j \in active : j = k
      BY <2>1, <2>3 DEF IInv, OneActive, Named
    <3>2. active = {k}
      BY <2>2, <3>1
    <3> QED
      BY <3>2, FS_Singleton
  <2> QED
    BY <2>2, <2>3
<1> QED
  BY <1>1, CatalogInvariant, PTL

\* Whatever is registered later, (tenant, workflow_id, version) in an instance's
\* genesis event stands for the steps it was started with.
THEOREM PinnedCorrect == Spec => []PinnedDefinitionStays
<1>1. IInv => PinnedDefinitionStays
  BY DEF IInv
<1> QED
  BY <1>1, CatalogInvariant, PTL
-----------------------------------------------------------------------------
(***************************************************************************)
(* The rounds of topological_layers.                                       *)
(***************************************************************************)
\* A set of naturals has a least element.
LEMMA LeastOf ==
  ASSUME NEW S \in SUBSET Nat, S # {}
  PROVE  \E x \in S : \A y \in S : x <= y
<1>1. OpToRel(<, Nat) = {ss \in Nat \X Nat : ss[1] < ss[2]}
  BY DEF OpToRel
<1>2. PICK x \in S : \A y \in S : ~(<<y, x>> \in OpToRel(<, Nat))
  BY WFMin, NatLessThanWellFounded
<1>3. ASSUME NEW y \in S PROVE x <= y
  <2>1. PICK p : p = <<y, x>>
    OBVIOUS
  <2>2. p \in Nat \X Nat /\ p[1] = y /\ p[2] = x
    BY <2>1
  <2>3. p \notin {ss \in Nat \X Nat : ss[1] < ss[2]}
    BY <1>1, <1>2, <2>1
  <2> QED
    BY <2>2, <2>3
<1> QED
  BY <1>3

\* Induction, over the members of a set.
LEMMA Inductive ==
  ASSUME NEW Q, 0 \in Q, \A n \in Nat : n \in Q => n + 1 \in Q
  PROVE  \A n \in Nat : n \in Q
<1> SUFFICES ASSUME NEW k \in Nat, k \notin Q PROVE FALSE
  OBVIOUS
<1>1. PICK Bad \in SUBSET Nat : Bad = {n \in Nat : n \notin Q}
  OBVIOUS
<1>2. Bad # {}
  BY <1>1
<1>3. PICK m \in Bad : \A n \in Bad : m <= n
  BY <1>2, LeastOf
<1>4. m \in Nat /\ m \notin Q /\ m # 0
  BY <1>1, <1>3
<1>5. m - 1 \in Nat /\ m - 1 \notin Bad
  BY <1>3, <1>4
<1>6. (m - 1) + 1 \in Q
  BY <1>1, <1>5
<1> QED
  BY <1>4, <1>6

\* The steps that are ready when those of S are resolved.
Ready(deps, S) == {s \in DOMAIN deps : deps[s] \subseteq S}

\* The function that Resolved is defined by, for N rounds.
Rounds(deps, R, N) == [n \in 0 .. N |-> IF n = 0 THEN {} ELSE R[n - 1] \cup Ready(deps, R[n - 1])]

\* R has the steps resolved after each of N rounds.
AreRounds(deps, R, N) ==
  /\ N \in Nat
  /\ R[0] = {}
  /\ \A n \in Nat : n + 1 <= N => R[n + 1] = R[n] \cup Ready(deps, R[n])

\* Resolved has the rounds of the loop, as many as there are steps.
LEMMA ResolvedRounds ==
  ASSUME NEW deps, IsFiniteSet(DOMAIN deps)
  PROVE  /\ AreRounds(deps, Resolved(deps), Cardinality(DOMAIN deps))
         /\ DOMAIN Resolved(deps) = 0 .. Cardinality(DOMAIN deps)
<1> DEFINE Q == {n \in Nat : \E R : R = Rounds(deps, R, n)}
<1>1. PICK N \in Nat : N = Cardinality(DOMAIN deps)
  BY FS_CardinalityType
<1>2. 0 \in Q
  <2>1. PICK R : R = [n \in 0 .. 0 |-> {}]
    OBVIOUS
  <2>2. R = Rounds(deps, R, 0)
    BY <2>1 DEF Rounds
  <2> QED
    BY <2>2
<1>3. ASSUME NEW n \in Nat, n \in Q PROVE n + 1 \in Q
  <2>1. PICK R : R = Rounds(deps, R, n)
    BY <1>3
  <2>2. PICK T : T = Rounds(deps, R, n + 1)
    OBVIOUS
  <2>3. \A m \in 0 .. n : m \in 0 .. (n + 1) /\ T[m] = R[m]
    <3> TAKE m \in 0 .. n
    <3>1. m \in 0 .. (n + 1)
      OBVIOUS
    <3>2. T[m] = IF m = 0 THEN {} ELSE R[m - 1] \cup Ready(deps, R[m - 1])
      BY <2>2, <3>1 DEF Rounds
    <3>3. R[m] = IF m = 0 THEN {} ELSE R[m - 1] \cup Ready(deps, R[m - 1])
      BY <2>1 DEF Rounds
    <3> QED
      BY <3>1, <3>2, <3>3
  <2>4. \A m \in 0 .. (n + 1) : m # 0 => m - 1 \in 0 .. n
    OBVIOUS
  <2>5. \A m \in 0 .. (n + 1) : m # 0 => T[m - 1] = R[m - 1]
    BY <2>3, <2>4
  <2>6. T = Rounds(deps, T, n + 1)
    BY <2>2, <2>5 DEF Rounds
  <2>7. n + 1 \in Nat /\ \E F : F = Rounds(deps, F, n + 1)
    BY <2>6
  <2> QED
    BY <2>7
<1>4. N \in Q
  <2> HIDE DEF Q
  <2> QED
    BY <1>2, <1>3, Inductive
<1>5. Resolved(deps) = CHOOSE R : R = Rounds(deps, R, N)
  BY <1>1 DEF Resolved, Rounds, Ready
<1>6. PICK R : R = Resolved(deps) /\ R = Rounds(deps, R, N)
  BY <1>4, <1>5
<1>7. DOMAIN R = 0 .. N /\ R[0] = {}
  BY <1>6 DEF Rounds
<1>8. ASSUME NEW n \in Nat, n + 1 <= N PROVE R[n + 1] = R[n] \cup Ready(deps, R[n])
  <2>1. n + 1 \in 0 .. N /\ n + 1 # 0 /\ (n + 1) - 1 = n
    BY <1>8
  <2> QED
    BY <1>6, <2>1 DEF Rounds
<1> QED
  BY <1>1, <1>6, <1>7, <1>8 DEF AreRounds

\* Steps stay resolved.
LEMMA RoundsGrow ==
  ASSUME NEW deps, NEW N, NEW R, AreRounds(deps, R, N)
  PROVE  \A n \in 0 .. N : R[n] \subseteq DOMAIN deps /\ \A m \in 0 .. n : R[m] \subseteq R[n]
<1> DEFINE P(n) == R[n] \subseteq DOMAIN deps /\ \A m \in 0 .. n : R[m] \subseteq R[n]
           Q == {n \in Nat : n <= N => P(n)}
<1>1. 0 \in Q
  BY DEF AreRounds
<1>2. ASSUME NEW n \in Nat, n \in Q PROVE n + 1 \in Q
  <2> SUFFICES ASSUME n + 1 <= N PROVE P(n + 1)
    OBVIOUS
  <2>1. N \in Nat /\ n <= N
    BY DEF AreRounds
  <2>2. P(n)
    BY <1>2, <2>1
  <2>3. R[n + 1] = R[n] \cup Ready(deps, R[n])
    BY DEF AreRounds
  <2>4. R[n + 1] \subseteq DOMAIN deps
    BY <2>2, <2>3 DEF Ready
  <2>5. ASSUME NEW m \in 0 .. (n + 1) PROVE R[m] \subseteq R[n + 1]
    <3>1. m = n + 1 \/ m \in 0 .. n
      OBVIOUS
    <3> QED
      BY <2>2, <2>3, <3>1
  <2> QED
    BY <2>4, <2>5
<1>3. \A n \in Nat : n \in Q
  <2> HIDE DEF Q
  <2> QED
    BY <1>1, <1>2, Inductive
<1> QED
  BY <1>3 DEF AreRounds

\* By round n a step of S was resolved, and its dependencies when none was.
ResolvedBy(deps, R, S, n) ==
  \E k \in 0 .. n : /\ k + 1 <= n /\ R[k] \cap S = {}
                    /\ \E s \in R[k + 1] \cap S : s \in Ready(deps, R[k])

\* If steps of a set are resolved, one of them was the first.
LEMMA RoundOf ==
  ASSUME NEW deps, NEW N, NEW R, AreRounds(deps, R, N), NEW n, n \in 0 .. N, NEW S,
         R[n] \cap S # {}
  PROVE  ResolvedBy(deps, R, S, n)
<1>1. PICK Some \in SUBSET Nat : Some = {k \in 0 .. n : R[k] \cap S # {}}
  <2>1. PICK T : T = {k \in 0 .. n : R[k] \cap S # {}}
    OBVIOUS
  <2>2. T \in SUBSET Nat
    BY <2>1
  <2> QED
    BY <2>1, <2>2
<1>2. n \in Some
  BY <1>1
<1>3. PICK m \in Some : \A k \in Some : m <= k
  BY <1>2, LeastOf
<1>4. m \in 0 .. n /\ R[m] \cap S # {} /\ m # 0
  BY <1>1, <1>3 DEF AreRounds
<1>5. PICK k \in 0 .. n : m = k + 1 /\ k < m
  <2>1. m - 1 \in 0 .. n /\ m = (m - 1) + 1 /\ m - 1 < m
    BY <1>4
  <2> QED
    BY <2>1
<1>6. R[k] \cap S = {}
  BY <1>1, <1>3, <1>4, <1>5
<1>7. k \in Nat /\ k + 1 <= N /\ k + 1 <= n
  BY <1>4, <1>5 DEF AreRounds
<1>8. R[k + 1] = R[k] \cup Ready(deps, R[k])
  BY <1>7 DEF AreRounds
<1>9. PICK s \in R[m] : s \in S
  BY <1>4
<1>10. s \in R[k + 1] \cap S /\ s \in Ready(deps, R[k])
  BY <1>5, <1>6, <1>8, <1>9
<1> QED
  BY <1>6, <1>7, <1>10 DEF ResolvedBy

\* A round that resolves nothing is the last that could.
LEMMA RoundsStop ==
  ASSUME NEW deps, NEW N, NEW R, AreRounds(deps, R, N), NEW k \in Nat, k + 1 <= N,
         R[k + 1] = R[k]
  PROVE  R[N] = R[k]
<1> DEFINE Q == {m \in Nat : k + m <= N => R[k + m] = R[k]}
<1>0. N \in Nat
  BY DEF AreRounds
<1>1. 0 \in Q
  OBVIOUS
<1>2. ASSUME NEW m \in Nat, m \in Q PROVE m + 1 \in Q
  <2> SUFFICES ASSUME k + (m + 1) <= N PROVE R[k + (m + 1)] = R[k]
    OBVIOUS
  <2>1. PICK j \in Nat : j = k + m
    OBVIOUS
  <2>2. k + (m + 1) = j + 1 /\ j + 1 <= N /\ k + m <= N
    BY <1>0, <2>1
  <2>3. R[j] = R[k]
    BY <1>2, <2>1, <2>2
  <2>4. R[j + 1] = R[j] \cup Ready(deps, R[j])
    BY <2>2 DEF AreRounds
  <2>5. R[k + 1] = R[k] \cup Ready(deps, R[k])
    BY DEF AreRounds
  <2>6. R[j + 1] = R[k]
    BY <2>3, <2>4, <2>5
  <2> QED
    BY <2>2, <2>6
<1>3. \A m \in Nat : m \in Q
  <2> HIDE DEF Q
  <2> QED
    BY <1>1, <1>2, Inductive
<1>4. PICK m \in Nat : k + m = N
  <2>1. N - k \in Nat /\ k + (N - k) = N
    BY <1>0
  <2> QED
    BY <2>1
<1>5. m \in Q
  BY <1>3
<1> QED
  BY <1>0, <1>4, <1>5

\* As many rounds as there are steps are enough: no step is ready after them.
LEMMA RoundsSuffice ==
  ASSUME NEW deps, IsFiniteSet(DOMAIN deps), NEW N, N = Cardinality(DOMAIN deps),
         NEW R, AreRounds(deps, R, N)
  PROVE  Ready(deps, R[N]) \subseteq R[N]
<1> SUFFICES ASSUME NEW s \in Ready(deps, R[N]), s \notin R[N] PROVE FALSE
  OBVIOUS
<1>0. N \in Nat
  BY DEF AreRounds
<1>1. PICK D : D = DOMAIN deps
  OBVIOUS
<1>2. \A n \in 0 .. N : R[n] \in SUBSET D /\ IsFiniteSet(R[n]) /\ Cardinality(R[n]) \in Nat
  <2> TAKE n \in 0 .. N
  <2>1. R[n] \in SUBSET D
    BY <1>1, RoundsGrow
  <2>2. IsFiniteSet(R[n])
    BY <1>1, <2>1, FS_Subset
  <2> QED
    BY <2>1, <2>2, FS_CardinalityType
<1>3. ASSUME NEW n \in Nat, n + 1 <= N
      PROVE  R[n] \in SUBSET R[n + 1] /\ R[n + 1] # R[n]
  <2>1. R[n + 1] = R[n] \cup Ready(deps, R[n])
    BY <1>3 DEF AreRounds
  <2>2. ASSUME R[n + 1] = R[n] PROVE FALSE
    <3>1. R[N] = R[n]
      BY <1>3, <2>2, RoundsStop
    <3> QED
      BY <2>1, <2>2, <3>1
  <2> QED
    BY <2>1, <2>2
<1> DEFINE Q == {n \in Nat : n <= N => n <= Cardinality(R[n])}
<1>4. 0 \in Q
  <2>1. 0 \in 0 .. N
    BY <1>0
  <2> QED
    BY <1>2, <2>1
<1>5. ASSUME NEW n \in Nat, n \in Q PROVE n + 1 \in Q
  <2> SUFFICES ASSUME n + 1 <= N PROVE n + 1 <= Cardinality(R[n + 1])
    OBVIOUS
  <2>1. n \in 0 .. N /\ n + 1 \in 0 .. N /\ n <= N
    BY <1>0
  <2>2. PICK A, B : A = R[n] /\ B = R[n + 1]
    OBVIOUS
  <2>3. /\ IsFiniteSet(B) /\ A \in SUBSET B /\ A # B
        /\ Cardinality(A) \in Nat /\ Cardinality(B) \in Nat
    BY <1>2, <1>3, <2>1, <2>2
  <2>4. Cardinality(A) <= Cardinality(B) /\ Cardinality(B) # Cardinality(A)
    BY <2>3, FS_Subset
  <2>5. n <= Cardinality(A)
    BY <1>5, <2>1, <2>2
  <2>6. n + 1 <= Cardinality(B)
    BY <2>3, <2>4, <2>5
  <2> QED
    BY <2>2, <2>6
<1>6. N \in Q
  <2> HIDE DEF Q
  <2> QED
    BY <1>0, <1>4, <1>5, Inductive
<1>7. N \in 0 .. N /\ N <= Cardinality(R[N])
  BY <1>0, <1>6
<1>8. PICK A \in SUBSET D : A = R[N]
  BY <1>2, <1>7
<1>9. Cardinality(A) <= Cardinality(D) /\ Cardinality(D) # Cardinality(A)
  <2>1. A # D
    BY <1>1, <1>8 DEF Ready
  <2> QED
    BY <1>1, <2>1, FS_Subset
<1>10. Cardinality(D) = N /\ Cardinality(A) \in Nat /\ N <= Cardinality(A)
  BY <1>1, <1>2, <1>7, <1>8
<1> QED
  BY <1>0, <1>9, <1>10
-----------------------------------------------------------------------------
(***************************************************************************)
(* The validation against what it is for.                                  *)
(***************************************************************************)
\* Runnable, without the powerset.
LEMMA RunnableMeans ==
  ASSUME NEW deps
  PROVE  \E U : /\ \A x \in U : x \in DOMAIN deps \/ \E s \in DOMAIN deps : x \in deps[s]
                /\ DOMAIN deps \subseteq U /\ \A s \in DOMAIN deps : deps[s] \subseteq U
                /\ Runnable(deps) <=>
                     \A S : S \subseteq U /\ S # {} =>
                       \E s \in S : s \in DOMAIN deps /\ deps[s] \cap S = {}
<1> DEFINE U == DOMAIN deps \cup UNION {deps[s] : s \in DOMAIN deps}
<1>1. \A x \in U : x \in DOMAIN deps \/ \E s \in DOMAIN deps : x \in deps[s]
  OBVIOUS
<1>2. DOMAIN deps \subseteq U /\ \A s \in DOMAIN deps : deps[s] \subseteq U
  OBVIOUS
<1>3. Runnable(deps) <=>
        \A S \in (SUBSET U) \ {{}} : \E s \in S : s \in DOMAIN deps /\ deps[s] \cap S = {}
  BY DEF Runnable
<1> HIDE DEF U
<1>4. Runnable(deps) <=>
        \A S : S \subseteq U /\ S # {} => \E s \in S : s \in DOMAIN deps /\ deps[s] \cap S = {}
  BY <1>3
<1> QED
  BY <1>1, <1>2, <1>4

\* In a graph that passes no steps wait for one another: of any set of steps the
\* first to be resolved waits for none of it.
LEMMA ValidRuns ==
  ASSUME NEW deps, IsFiniteSet(DOMAIN deps), ValidateDependencies(deps)
  PROVE  Runnable(deps)
<1>1. PICK D, N, R : D = DOMAIN deps /\ N = Cardinality(D) /\ R = Resolved(deps)
  OBVIOUS
<1>2. AreRounds(deps, R, N) /\ R[N] = D /\ N \in Nat
  BY <1>1, ResolvedRounds DEF ValidateDependencies, Cyclic, AreRounds
<1>3. \A s \in D : deps[s] \subseteq D
  BY <1>1 DEF ValidateDependencies
<1>4. PICK U : /\ \A x \in U : x \in D \/ \E s \in D : x \in deps[s]
               /\ (\A S : S \subseteq U /\ S # {} => \E s \in S : s \in D /\ deps[s] \cap S = {})
                    => Runnable(deps)
  BY <1>1, RunnableMeans
<1> SUFFICES ASSUME NEW S, S \subseteq D, S # {}
             PROVE  \E s \in S : s \in D /\ deps[s] \cap S = {}
  BY <1>3, <1>4
<1>5. N \in 0 .. N /\ R[N] \cap S # {}
  BY <1>2
<1>6. PICK k \in 0 .. N : /\ R[k] \cap S = {}
                          /\ \E s \in R[k + 1] \cap S : s \in Ready(deps, R[k])
  <2>1. ResolvedBy(deps, R, S, N)
    BY <1>2, <1>5, RoundOf
  <2> QED
    BY <2>1 DEF ResolvedBy
<1> QED
  BY <1>1, <1>6 DEF Ready

\* In one that does not some set of steps waits for itself: the step alone, the
\* step that does not exist, or all the steps that are never resolved.
LEMMA InvalidWaits ==
  ASSUME NEW deps, IsFiniteSet(DOMAIN deps), Runnable(deps)
  PROVE  ValidateDependencies(deps)
<1>1. PICK D, N, R : D = DOMAIN deps /\ N = Cardinality(D) /\ R = Resolved(deps)
  OBVIOUS
<1>2. AreRounds(deps, R, N) /\ N \in Nat
  BY <1>1, ResolvedRounds DEF AreRounds
<1>3. PICK U : /\ \A S : S \subseteq U /\ S # {} => \E s \in S : s \in D /\ deps[s] \cap S = {}
               /\ D \subseteq U /\ \A s \in D : deps[s] \subseteq U
  BY <1>1, RunnableMeans
<1>4. ASSUME NEW s \in D PROVE s \notin deps[s]
  <2>1. {s} \subseteq U /\ {s} # {}
    BY <1>3
  <2>2. \E t \in {s} : deps[t] \cap {s} = {}
    BY <1>3, <2>1
  <2> QED
    BY <2>2
<1>5. ASSUME NEW s \in D, NEW d \in deps[s] PROVE d \in D
  <2>1. d \in U
    BY <1>3, <1>5
  <2>2. PICK S : S = {d} /\ S \subseteq U /\ S # {}
    BY <2>1
  <2>3. \E t \in S : t \in D
    BY <1>3, <2>2, Zenon
  <2> QED
    BY <2>2, <2>3
<1>6. R[N] = D
  <2>1. R[N] \subseteq D
    BY <1>1, <1>2, RoundsGrow
  <2>2. ASSUME R[N] # D PROVE FALSE
    <3>1. PICK S : S = D \ R[N]
      OBVIOUS
    <3>2. S \subseteq U /\ S # {}
      BY <1>3, <2>1, <2>2, <3>1
    <3>3. PICK s \in S : s \in D /\ deps[s] \cap S = {}
      BY <1>3, <3>2
    <3>4. deps[s] \subseteq R[N]
      BY <1>5, <3>1, <3>3
    <3>5. s \in Ready(deps, R[N])
      BY <1>1, <3>3, <3>4 DEF Ready
    <3>6. s \in R[N]
      BY <1>1, <1>2, <3>5, RoundsSuffice
    <3> QED
      BY <3>1, <3>6
  <2> QED
    BY <2>2
<1>7. ~Cyclic(deps)
  BY <1>1, <1>6 DEF Cyclic
<1> QED
  BY <1>1, <1>4, <1>5, <1>7 DEF ValidateDependencies

\* The layers of a graph without a cycle: every step in the first layer after
\* all its dependencies.
LEMMA LayersRight ==
  ASSUME NEW deps, IsFiniteSet(DOMAIN deps), ~Cyclic(deps)
  PROVE  LayersCorrect(deps, TopologicalLayers(deps))
<1>1. PICK D, N, R : D = DOMAIN deps /\ N = Cardinality(D) /\ R = Resolved(deps)
  OBVIOUS
<1>2. AreRounds(deps, R, N) /\ R[N] = D /\ N \in Nat /\ DOMAIN R = 0 .. N
  BY <1>1, ResolvedRounds DEF Cyclic, AreRounds
<1>3. PICK r \in 0 .. N : /\ R[r] = D
                          /\ TopologicalLayers(deps) = [n \in 1 .. r |-> R[n] \ R[n - 1]]
  <2>1. PICK Done : Done = {n \in 0 .. N : R[n] = D}
    OBVIOUS
  <2>2. Done \in SUBSET Nat /\ N \in Done
    BY <1>2, <2>1
  <2>3. \E n \in Done : \A m \in Done : n <= m
    BY <2>2, LeastOf
  <2>4. \E n \in DOMAIN R : R[n] = D /\ \A m \in DOMAIN R : R[m] = D => n <= m
    BY <1>2, <2>1, <2>3
  <2>5. PICK r : r = CHOOSE n \in DOMAIN R : R[n] = D /\ \A m \in DOMAIN R : R[m] = D => n <= m
    OBVIOUS
  <2>6. r \in 0 .. N /\ R[r] = D
    BY <1>2, <2>4, <2>5
  <2>7. TopologicalLayers(deps) = [n \in 1 .. r |-> R[n] \ R[n - 1]]
    BY <1>1, <2>5 DEF TopologicalLayers
  <2> QED
    BY <2>6, <2>7
<1>4. PICK L : L = TopologicalLayers(deps) /\ DOMAIN L = 1 .. r
               /\ \A n \in 1 .. r : L[n] = R[n] \ R[n - 1]
  BY <1>3
<1>5. \A n \in 0 .. N : \A m \in 0 .. n : R[m] \subseteq R[n]
  BY <1>2, RoundsGrow
<1> SUFFICES ASSUME NEW s \in D
             PROVE  \E n \in DOMAIN L :
                      /\ \A m \in DOMAIN L : s \in L[m] <=> m = n
                      /\ \A d \in deps[s] : \E m \in 1 .. n - 1 : d \in L[m]
                      /\ n > 1 => deps[s] \cap L[n - 1] # {}
  BY <1>1, <1>4 DEF LayersCorrect
<1>6. PICK k \in 0 .. r : /\ k + 1 <= r /\ s \notin R[k] /\ s \in R[k + 1]
                          /\ deps[s] \subseteq R[k]
  <2>1. PICK S : S = {s}
    OBVIOUS
  <2>2. R[r] \cap S # {} /\ r \in 0 .. N
    BY <1>3, <2>1
  <2>3. PICK k \in 0 .. r : /\ k + 1 <= r /\ R[k] \cap S = {}
                            /\ \E t \in R[k + 1] \cap S : t \in Ready(deps, R[k])
    <3>1. ResolvedBy(deps, R, S, r)
      BY <1>2, <2>2, RoundOf
    <3> QED
      BY <3>1 DEF ResolvedBy
  <2> QED
    BY <2>1, <2>3 DEF Ready
<1>7. k \in Nat /\ r \in Nat /\ r <= N /\ k + 1 \in 1 .. r /\ k \in 0 .. N
  BY <1>2, <1>3, <1>6
<1>8. ASSUME NEW m \in 1 .. r PROVE s \in L[m] <=> m = k + 1
  <2>1. L[m] = R[m] \ R[m - 1]
    BY <1>4
  <2>2. CASE m = k + 1
    <3>1. m - 1 = k
      BY <1>7, <2>2
    <3> QED
      BY <1>6, <2>1, <2>2, <3>1
  <2>3. CASE m < k + 1
    <3>1. m \in 0 .. k
      BY <1>7, <2>3
    <3>2. R[m] \subseteq R[k]
      BY <1>5, <1>7, <3>1
    <3> QED
      BY <1>6, <1>7, <2>1, <2>3, <3>2
  <2>4. CASE m > k + 1
    <3>1. m - 1 \in 0 .. N /\ k + 1 \in 0 .. (m - 1)
      BY <1>2, <1>7, <2>4
    <3>2. R[k + 1] \subseteq R[m - 1]
      BY <1>5, <3>1
    <3> QED
      BY <1>6, <1>7, <2>1, <2>4, <3>2
  <2> QED
    BY <1>7, <2>2, <2>3, <2>4
<1>9. ASSUME NEW d \in deps[s] PROVE \E m \in 1 .. (k + 1) - 1 : d \in L[m]
  <2>1. PICK S : S = {d} /\ R[k] \cap S # {}
    BY <1>6
  <2>2. PICK j \in 0 .. k : /\ j + 1 <= k /\ R[j] \cap S = {}
                            /\ \E t \in R[j + 1] \cap S : t \in Ready(deps, R[j])
    <3>1. ResolvedBy(deps, R, S, k)
      BY <1>2, <1>7, <2>1, RoundOf
    <3> QED
      BY <3>1 DEF ResolvedBy
  <2>3. PICK m \in 1 .. (k + 1) - 1 : m = j + 1 /\ m \in 1 .. r /\ m - 1 = j
    BY <1>7, <2>2
  <2>4. L[m] = R[m] \ R[m - 1]
    BY <1>4, <2>3
  <2> QED
    BY <2>1, <2>2, <2>3, <2>4
<1>10. ASSUME k + 1 > 1 PROVE deps[s] \cap L[(k + 1) - 1] # {}
  <2>1. PICK j \in Nat : k = j + 1 /\ k - 1 = j /\ (k + 1) - 1 = k /\ j + 1 <= N /\ k \in 1 .. r
    <3>1. /\ k - 1 \in Nat /\ k = (k - 1) + 1 /\ (k + 1) - 1 = k /\ (k - 1) + 1 <= N
          /\ k \in 1 .. r
      BY <1>2, <1>7, <1>10
    <3> QED
      BY <3>1
  <2>2. R[k] = R[j] \cup Ready(deps, R[j])
    BY <1>2, <2>1 DEF AreRounds
  <2>3. L[k] = R[k] \ R[j]
    BY <1>4, <2>1
  <2>4. ~(deps[s] \subseteq R[j])
    BY <1>1, <1>6, <2>2 DEF Ready
  <2>5. deps[s] \cap L[k] # {}
    BY <1>6, <2>3, <2>4
  <2> QED
    BY <2>1, <2>5
<1>11. PICK n \in DOMAIN L : n = k + 1
  BY <1>4, <1>7
<1>12. /\ \A m \in DOMAIN L : s \in L[m] <=> m = n
       /\ \A d \in deps[s] : \E m \in 1 .. n - 1 : d \in L[m]
       /\ n > 1 => deps[s] \cap L[n - 1] # {}
  BY <1>4, <1>8, <1>9, <1>10, <1>11
<1> QED
  BY <1>12

\* The ids of a list of steps are finitely many, and as many as the steps unless
\* two have the same.
LEMMA IdsCounted ==
  ASSUME NEW steps, NEW n \in Nat, DOMAIN steps = 1 .. n
  PROVE  /\ DOMAIN Dependencies(steps) = StepIds(steps) /\ IsFiniteSet(StepIds(steps))
         /\ (\A j, k \in DOMAIN steps : steps[j].id = steps[k].id => j = k)
              => Cardinality(StepIds(steps)) = n
<1>1. PICK I, f : I = 1 .. n /\ f = [k \in I |-> steps[k].id]
  OBVIOUS
<1>2. IsFiniteSet(I) /\ Cardinality(I) = n
  BY <1>1, FS_Interval
<1>3. f \in Surjection(I, StepIds(steps))
  BY <1>1 DEF Surjection, StepIds
<1>4. IsFiniteSet(StepIds(steps))
  BY <1>2, <1>3, FS_Surjection
<1>5. ASSUME \A j, k \in DOMAIN steps : steps[j].id = steps[k].id => j = k
      PROVE  Cardinality(StepIds(steps)) = n
  <2>1. PICK T : T = StepIds(steps) /\ IsFiniteSet(T) /\ f \in [I -> T]
    BY <1>1, <1>4 DEF StepIds
  <2>2. Cardinality(T) \in Nat /\ Cardinality(T) <= n
    BY <1>2, <1>3, <2>1, FS_Surjection, FS_CardinalityType
  <2>3. \A x, y \in I : f[x] = f[y] => x = y
    BY <1>1, <1>5
  <2>4. ~(Cardinality(T) < Cardinality(I))
    BY <1>2, <2>1, <2>3, FS_PigeonHole
  <2> QED
    BY <1>2, <2>1, <2>2, <2>4
<1>6. DOMAIN Dependencies(steps) = StepIds(steps)
  BY DEF Dependencies
<1> QED
  BY <1>4, <1>5, <1>6

\* A definition is accepted if, and apart from an empty one, a useless
\* compensation or a duplicate id only if, it can be run in the order of its layers.
LEMMA ValidationExact ==
  ASSUME NEW sub \in Submissions
  PROVE  LET steps == sub.steps
             deps == Dependencies(steps)
         IN /\ ValidDefinition(steps) =>
                 Runnable(deps) /\ LayersCorrect(deps, TopologicalLayers(deps))
            /\ ~ValidDefinition(steps) =>
                 \/ steps = <<>> \/ ~Runnable(deps)
                 \/ \E k \in DOMAIN steps : steps[k].compensation /\ ~steps[k].effects
                 \/ \E j, k \in DOMAIN steps : j # k /\ steps[j].id = steps[k].id
<1>1. PICK steps, deps : steps = sub.steps /\ deps = Dependencies(steps)
  OBVIOUS
<1>2. Len(steps) \in Nat /\ DOMAIN steps = 1 .. Len(steps)
  BY <1>1, SubmissionsAssumption
<1>3. IsFiniteSet(DOMAIN deps)
  BY <1>1, <1>2, IdsCounted
<1>4. ValidateDependencies(deps) =>
        Runnable(deps) /\ LayersCorrect(deps, TopologicalLayers(deps))
  BY <1>3, ValidRuns, LayersRight DEF ValidateDependencies
<1>5. Runnable(deps) => ValidateDependencies(deps)
  BY <1>3, InvalidWaits
<1>6. (\A j, k \in DOMAIN steps : steps[j].id = steps[k].id => j = k)
        => Cardinality(StepIds(steps)) = Len(steps)
  BY <1>2, IdsCounted
<1>7. ValidDefinition(steps) <=>
        /\ steps # <<>> /\ Cardinality(StepIds(steps)) = Len(steps)
        /\ ValidateDependencies(deps)
        /\ \A k \in DOMAIN steps : steps[k].compensation => steps[k].effects
  BY <1>1 DEF ValidDefinition
<1> QED
  BY <1>1, <1>4, <1>5, <1>6, <1>7

\* A request that goes on was found valid, and one that is refused was not.
Judged ==
  \A c \in Clients :
    /\ req[c].pc = "get" => ValidDefinition(req[c].sub.steps)
    /\ req[c].pc = "invalid" => ~ValidDefinition(req[c].sub.steps)

\* Only the validation brings a request to either.
LEMMA StepJudged == ASSUME IInv, Judged, [Next]_vars PROVE Judged'
<1>1. req \in [Clients -> Requests]
  BY DEF IInv, Shape
\* A step in which no other request is judged.
<1>2. ASSUME \A d \in Clients : req'[d].pc \in {"get", "invalid"} =>
               req'[d].pc = req[d].pc /\ req'[d].sub = req[d].sub
      PROVE  Judged'
  BY <1>2 DEF Judged
<1>3. ASSUME NEW c \in Clients, NEW r, Goto(c, r), r.pc \notin {"get", "invalid"}
      PROVE  Judged'
  BY <1>1, <1>2, <1>3 DEF Goto
<1>4. ASSUME NEW c \in Clients, Answer(c) PROVE Judged'
  BY <1>3, <1>4, IdleFacts DEF Answer
<1>5. ASSUME NEW c \in Clients, NEW pc \in {"update", "wait", "insert", "by_name", "by_key", "append"},
             NEW q \in Requests, NEW snap, NEW key, NEW sub,
             Goto(c, [q EXCEPT !.pc = pc]) \/ Goto(c, [q EXCEPT !.pc = pc, !.snap = snap])
               \/ Goto(c, [q EXCEPT !.pc = pc, !.key = key, !.sub = sub])
      PROVE  Judged'
  <2>1. /\ [q EXCEPT !.pc = pc].pc = pc /\ [q EXCEPT !.pc = pc, !.snap = snap].pc = pc
        /\ [q EXCEPT !.pc = pc, !.key = key, !.sub = sub].pc = pc
    BY DEF Requests
  <2> QED
    BY <1>3, <1>5, <2>1
<1>6. ASSUME NEW c \in Clients, NEW sub \in Submissions, Submit(c, sub) PROVE Judged'
  <2>1. PICK pc : pc = IF ValidDefinition(sub.steps) THEN "get" ELSE "invalid"
    OBVIOUS
  <2>2. PICK r : r = [IdleRequest EXCEPT !.sub = sub, !.pc = pc]
    OBVIOUS
  <2>3. r.pc = pc /\ r.sub = sub
    BY <2>2 DEF IdleRequest
  <2>4. req' = [req EXCEPT ![c] = r]
    BY <1>6, <2>1, <2>2 DEF Submit, Goto
  <2>5. req'[c] = r /\ \A d \in Clients : d # c => req'[d] = req[d]
    BY <1>1, <2>4
  <2>6. /\ r.pc = "get" => ValidDefinition(r.sub.steps)
        /\ r.pc = "invalid" => ~ValidDefinition(r.sub.steps)
    BY <2>1, <2>3
  <2> QED
    BY <2>5, <2>6 DEF Judged
<1>7. ASSUME NEW c \in Clients, Insert(c) PROVE Judged'
  <2>1. /\ req'[c] = IdleRequest
        /\ \A d \in Clients \ {c} : req'[d].pc = req[d].pc /\ req'[d].sub = req[d].sub
    BY <1>7, InsertRequests
  <2> QED
    BY <1>2, <2>1, IdleFacts
<1>8. ASSUME NEW c \in Clients, Get(c) \/ UpdateBegin(c) \/ UpdateDone(c) PROVE Judged'
  <2>1. req[c] \in Requests
    BY <1>1
  <2>2. CASE Get(c)
    BY <1>4, <1>5, <2>1, <2>2 DEF Get
  <2>3. CASE UpdateBegin(c)
    BY <1>5, <2>1, <2>3 DEF UpdateBegin
  <2>4. CASE UpdateDone(c)
    BY <1>5, <2>1, <2>4 DEF UpdateDone
  <2> QED
    BY <1>8, <2>2, <2>3, <2>4
<1>9. ASSUME NEW c \in Clients, Execute(c) \/ Trigger(c) PROVE Judged'
  <2>1. PICK pc \in {"by_name", "by_key"} : Goto(c, [IdleRequest EXCEPT !.pc = pc])
    BY <1>9 DEF Execute, Trigger
  <2> QED
    BY <1>5, <2>1, IdleFacts
<1>10. ASSUME NEW c \in Clients, Resolve(c) PROVE Judged'
  <2>1. PICK k : Goto(c, [req[c] EXCEPT !.pc = "append", !.key = k, !.sub = rows[k]])
    BY <1>10 DEF Resolve
  <2> QED
    BY <1>1, <1>5, <2>1
<1>11. CASE UNCHANGED vars
  BY <1>2, <1>11 DEF vars
<1>12. ASSUME NEW c \in Clients,
              Reject(c) \/ InsertFails(c) \/ Aborted(c) \/ NotFound(c) \/ CreateInstance(c)
       PROVE  Judged'
  BY <1>4, <1>12 DEF Reject, InsertFails, Aborted, NotFound, CreateInstance
<1> QED
  BY <1>6, <1>7, <1>8, <1>9, <1>10, <1>11, <1>12 DEF Next, Request

\* For every submission: what the API accepts can be driven to its end in the
\* order of its layers, and what it refuses has a cycle, a dependency on an
\* unknown step, a duplicate id, a useless compensation or no step.
THEOREM ValidationCorrect == Spec => []ValidationIsExact
<1>1. Init => Judged
  BY IdleFacts DEF Init, Judged
<1>2. IInv /\ Judged => ValidationIsExact
  <2> SUFFICES ASSUME IInv, Judged, NEW c \in Clients
               PROVE  LET steps == req[c].sub.steps
                          deps == Dependencies(steps)
                      IN /\ req[c].pc = "get" =>
                              Runnable(deps) /\ LayersCorrect(deps, TopologicalLayers(deps))
                         /\ req[c].pc = "invalid" =>
                              \/ steps = <<>> \/ ~Runnable(deps)
                              \/ \E k \in DOMAIN steps :
                                   steps[k].compensation /\ ~steps[k].effects
                              \/ \E j, k \in DOMAIN steps : j # k /\ steps[j].id = steps[k].id
    BY DEF ValidationIsExact
  <2>1. req[c].pc \in {"get", "invalid"} => req[c].sub \in Submissions
    BY DEF IInv, RequestOK
  <2>2. /\ req[c].pc = "get" => ValidDefinition(req[c].sub.steps)
        /\ req[c].pc = "invalid" => ~ValidDefinition(req[c].sub.steps)
    BY DEF Judged
  <2> QED
    BY <2>1, <2>2, ValidationExact
<1>3. IInv /\ Judged /\ [Next]_vars => Judged'
  BY StepJudged
<1> QED
  BY <1>1, <1>2, <1>3, CatalogInvariant, PTL DEF Spec
=============================================================================
