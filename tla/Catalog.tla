------------------------------ MODULE Catalog ------------------------------
(***************************************************************************)
(* The API's requests that register workflow definitions                   *)
(* (api/routes/workflows.py, core/persistence/definition_repo.py) and that *)
(* start instances of them (the same route, api/routes/webhooks.py,        *)
(* core/instances.py), under authentication (core/auth.py).  The rate      *)
(* limiter only decides which requests come this far.                      *)
(*                                                                         *)
(* register is one READ COMMITTED transaction of three statements.  Its    *)
(* UPDATE takes a snapshot, may wait for a row that another transaction    *)
(* has updated, and does not see rows inserted since: hence two actions.   *)
(* The INSERT is flushed by the COMMIT and is one action with it.          *)
(***************************************************************************)
EXTENDS Dag, FiniteSetsExt

CONSTANTS
  Clients,      \* concurrent requests of the API
  Principals,   \* [Clients -> principal], a record [tenant, scopes], or NoPrincipal
  NoPrincipal,  \* what a bad credential comes to
  Submissions,  \* definitions that may be posted: records [id, version, name, steps]
  MaxFaults,    \* bound: transactions that are rolled back
  MaxInsts      \* bound: instances

Tenants == {Principals[c].tenant : c \in {d \in Clients : Principals[d] # NoPrincipal}}
Names == {s.name : s \in Submissions}
Keys == Tenants \X {s.id : s \in Submissions} \X {s.version : s \in Submissions}

ASSUME CatalogAssumption ==
  /\ MaxFaults \in Nat /\ MaxInsts \in Nat
  /\ \A c \in Clients : Principals[c] # NoPrincipal => Principals[c].scopes \subseteq STRING

\* The steps of a definition are a list.
ASSUME SubmissionsAssumption ==
  \A s \in Submissions : Len(s.steps) \in Nat /\ DOMAIN s.steps = 1 .. Len(s.steps)

VARIABLES
  rows,     \* workflow_definitions: partial function of Keys
  req,      \* what the request of each client is doing
  insts,    \* the genesis events, in the order of their commits
  crossed,  \* history: names whose last registration overlapped another one
  faults

vars == <<rows, req, insts, crossed, faults>>

Nothing == [steps |-> <<>>]
IdleRequest == [pc |-> "idle", sub |-> Nothing, snap |-> {}, met |-> FALSE, key |-> <<>>]

Init ==
  /\ rows = [k \in {} |-> {}]
  /\ req = [c \in Clients |-> IdleRequest]
  /\ insts = <<>>
  /\ crossed = {} /\ faults = 0
-----------------------------------------------------------------------------
UseFault == faults < MaxFaults /\ faults' = faults + 1
Goto(c, r) == req' = [req EXCEPT ![c] = r]
TenantOf(c) == Principals[c].tenant

\* authenticate: an API key that is known, enabled and matches its hash, or a
\* token that verifies and names a tenant, comes to a principal; else 401.
Authenticated(c) == Principals[c] # NoPrincipal

\* require: a principal with the scope, or with admin; else 403.
Authorised(c, scope) ==
  /\ Authenticated(c)
  /\ {scope, "admin"} \cap Principals[c].scopes # {}

\* The answer is sent, an error or not; the next request may come.
Answer(c) == Goto(c, IdleRequest)
-----------------------------------------------------------------------------
(***************************************************************************)
(* POST /workflows                                                         *)
(***************************************************************************)
KeyOf(c, sub) == <<TenantOf(c), sub.id, sub.version>>

\* model_validate
Submit(c, sub) ==
  /\ req[c].pc = "idle" /\ Authorised(c, "workflows:write")
  /\ Goto(c, [IdleRequest EXCEPT !.sub = sub,
                !.pc = IF ValidDefinition(sub.steps) THEN "get" ELSE "invalid"])
  /\ UNCHANGED <<rows, insts, crossed, faults>>

\* WorkflowDefinitionError or CyclicDependencyError
Reject(c) ==
  /\ req[c].pc = "invalid"
  /\ Answer(c)
  /\ UNCHANGED <<rows, insts, crossed, faults>>

\* session.get: the version exists, with this checksum (nothing to do) or with
\* another (ConfigurationError), or it is new.
Get(c) ==
  LET key == KeyOf(c, req[c].sub)
  IN /\ req[c].pc = "get"
     /\ IF key \in DOMAIN rows THEN Answer(c) ELSE Goto(c, [req[c] EXCEPT !.pc = "update"])
     /\ UNCHANGED <<rows, insts, crossed, faults>>

\* Mutant: deactivates the versions of the workflow_id.
OthersOfId(c) == {k \in DOMAIN rows : k[1] = TenantOf(c) /\ k[2] = req[c].sub.id}

\* WHERE tenant_id = ... AND name = ...
Others(c) == {k \in DOMAIN rows : k[1] = TenantOf(c) /\ rows[k].name = req[c].sub.name}

\* The UPDATE begins: its snapshot has these rows.
UpdateBegin(c) ==
  /\ req[c].pc = "update"
  /\ Goto(c, [req[c] EXCEPT !.pc = "wait", !.snap = Others(c)])
  /\ UNCHANGED <<rows, insts, crossed, faults>>

\* It gets the row locks, which others hold until they commit.
UpdateDone(c) ==
  /\ req[c].pc = "wait"
  /\ \A d \in Clients \ {c} : req[d].pc = "insert" => req[c].snap \cap req[d].snap = {}
  /\ Goto(c, [req[c] EXCEPT !.pc = "insert"])
  /\ UNCHANGED <<rows, insts, crossed, faults>>

\* Mutant: an upsert.
NeverTaken(key, name) == FALSE

\* The primary key, or uq_defn_name_version.
Taken(key, name) ==
  \E k \in DOMAIN rows : k = key \/ (k[1] = key[1] /\ k[3] = key[3] /\ rows[k].name = name)

\* The INSERT and the COMMIT, which makes both statements visible.
Insert(c) ==
  LET sub == req[c].sub
      key == KeyOf(c, sub)
      name == <<TenantOf(c), sub.name>>
      row == [name |-> sub.name, steps |-> sub.steps, active |-> TRUE]
  IN /\ req[c].pc = "insert" /\ ~Taken(key, sub.name)
     /\ rows' = [k \in DOMAIN rows \cup {key} |->
          IF k = key THEN row
          ELSE IF k \in req[c].snap THEN [rows[k] EXCEPT !.active = FALSE] ELSE rows[k]]
     /\ crossed' = IF req[c].met THEN crossed \cup {name} ELSE crossed \ {name}
     /\ req' = [d \in Clients |->
          IF d = c THEN IdleRequest
          ELSE IF req[d].pc \in {"wait", "insert"} /\ <<TenantOf(d), req[d].sub.name>> = name
          THEN [req[d] EXCEPT !.met = TRUE] ELSE req[d]]
     /\ UNCHANGED <<insts, faults>>

\* IntegrityError: the transaction is rolled back, the UPDATE with it.
InsertFails(c) ==
  /\ req[c].pc = "insert" /\ Taken(KeyOf(c, req[c].sub), req[c].sub.name)
  /\ Answer(c)
  /\ UNCHANGED <<rows, insts, crossed, faults>>

\* A lost connection, a crash, two UPDATEs that wait for each other.
Aborted(c) ==
  /\ req[c].pc \in {"get", "update", "wait", "insert", "by_name", "by_key", "append"}
  /\ UseFault
  /\ Answer(c)
  /\ UNCHANGED <<rows, insts, crossed>>
-----------------------------------------------------------------------------
(***************************************************************************)
(* POST /workflows/{name}/execute and POST /webhooks/{name}                *)
(***************************************************************************)

\* With a version in the body, the name in the path is the workflow_id.
Execute(c) ==
  /\ req[c].pc = "idle" /\ Authorised(c, "instances:write")
  /\ \E pc \in {"by_name", "by_key"} : Goto(c, [IdleRequest EXCEPT !.pc = pc])
  /\ UNCHANGED <<rows, insts, crossed, faults>>

\* A webhook starts the active version.
Trigger(c) ==
  /\ req[c].pc = "idle" /\ Authorised(c, "instances:write")
  /\ Goto(c, [IdleRequest EXCEPT !.pc = "by_name"])
  /\ UNCHANGED <<rows, insts, crossed, faults>>

\* Mutant: the query forgets the tenant.
ActiveOfAnyone(c, name) == {k \in DOMAIN rows : rows[k].name = name /\ rows[k].active}

\* get_active: any one of them.
ActiveRows(c, name) ==
  {k \in DOMAIN rows : k[1] = TenantOf(c) /\ rows[k].name = name /\ rows[k].active}

\* get: the row of (tenant, workflow_id, version), if there is one.
RowsOf(c) == {k \in DOMAIN rows : k[1] = TenantOf(c)}

\* _resolve_definition: by name, or by (workflow_id, version).
Resolve(c) ==
  /\ \E k \in DOMAIN rows :
       /\ \/ req[c].pc = "by_name" /\ \E name \in Names : k \in ActiveRows(c, name)
          \/ req[c].pc = "by_key" /\ k \in RowsOf(c)
       /\ Goto(c, [req[c] EXCEPT !.pc = "append", !.key = k, !.sub = rows[k]])
  /\ UNCHANGED <<rows, insts, crossed, faults>>

\* "workflow definition not found"
NotFound(c) ==
  /\ \/ req[c].pc = "by_name" /\ \E name \in Names : ActiveRows(c, name) = {}
     \/ req[c].pc = "by_key" /\ \E k \in Keys : k[1] = TenantOf(c) /\ k \notin RowsOf(c)
  /\ Answer(c)
  /\ UNCHANGED <<rows, insts, crossed, faults>>

\* The genesis event names the definition; steps is a history of what it was.
InstanceCreated(c) ==
  [tenant |-> TenantOf(c), id |-> req[c].key[2], version |-> req[c].key[3],
   steps |-> req[c].sub.steps]

\* create_instance
CreateInstance(c) ==
  /\ req[c].pc = "append" /\ Len(insts) < MaxInsts
  /\ insts' = Append(insts, InstanceCreated(c))
  /\ Answer(c)
  /\ UNCHANGED <<rows, crossed, faults>>

-----------------------------------------------------------------------------
Request(c) ==
  \/ Reject(c)
  \/ \E sub \in Submissions : Submit(c, sub)
  \/ Get(c) \/ UpdateBegin(c) \/ UpdateDone(c) \/ Insert(c) \/ InsertFails(c) \/ Aborted(c)
  \/ Execute(c) \/ Trigger(c) \/ Resolve(c) \/ NotFound(c) \/ CreateInstance(c)

Next == \E c \in Clients : Request(c)

Spec == Init /\ [][Next]_vars
-----------------------------------------------------------------------------
\* The tables and the requests have the shape of the code's; a row's key, its
\* name and version are unique.
TypeOK ==
  /\ DOMAIN rows \subseteq Keys
  /\ \A k \in DOMAIN rows :
       /\ rows[k].name \in Names /\ rows[k].active \in BOOLEAN
       /\ rows[k].steps \in {s.steps : s \in Submissions}
       /\ \A j \in DOMAIN rows : rows[j].name = rows[k].name /\ j[1] = k[1] /\ j[3] = k[3] => j = k
  /\ \A c \in Clients :
       /\ req[c].pc \in {"idle", "invalid", "get", "update", "wait", "insert",
                         "by_name", "by_key", "append"}
       /\ req[c].snap \subseteq DOMAIN rows
  /\ Len(insts) <= MaxInsts
  /\ crossed \subseteq Tenants \X Names /\ faults \in 0 .. MaxFaults

\* A name that was ever registered has an active version at every moment,
\* whatever registrations fail half way; and only one, unless its last
\* registration overlapped another in the UPDATE, which cannot see the other's
\* row.
ActiveVersion ==
  \A t \in Tenants, name \in Names :
    LET all == {k \in DOMAIN rows : k[1] = t /\ rows[k].name = name}
        active == {k \in all : rows[k].active}
    IN all # {} =>
         /\ active # {}
         /\ <<t, name>> \notin crossed => Cardinality(active) = 1

\* The definition an instance was started with stays what (tenant, workflow_id,
\* version) in its genesis event stand for, whatever is registered later: every
\* drive plans with the steps that the API resolved.
PinnedDefinitionStays ==
  \A n \in DOMAIN insts :
    LET key == <<insts[n].tenant, insts[n].id, insts[n].version>>
    IN key \in DOMAIN rows /\ rows[key].steps = insts[n].steps

\* What the API accepts can be driven to its end, in the order of its layers,
\* and what it refuses as invalid could not (or has no step, compensates what has
\* no effect, or uses an id twice).
ValidationIsExact ==
  \A c \in Clients :
    LET steps == req[c].sub.steps
        deps == Dependencies(steps)
    IN /\ req[c].pc = "get" => Runnable(deps) /\ LayersCorrect(deps, TopologicalLayers(deps))
       /\ req[c].pc = "invalid" =>
            \/ steps = <<>> \/ ~Runnable(deps)
            \/ \E k \in DOMAIN steps : steps[k].compensation /\ ~steps[k].effects
            \/ \E j, k \in DOMAIN steps : j # k /\ steps[j].id = steps[k].id
=============================================================================
