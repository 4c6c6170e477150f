---------------------------- MODULE TenancyProofs ----------------------------
(***************************************************************************)
(* Proofs about Tenancy for any organizations, requests, caps and bounds:  *)
(* what an active tenant has, how long a suspended one is served, what a   *)
(* deletion leaves, and that the reconciler finishes.                      *)
(***************************************************************************)
EXTENDS Tenancy, FiniteSetTheorems, TLAPS

-----------------------------------------------------------------------------
(* The parts of the inductive invariant. *)

Mapping == [conn : Conns, scope : BOOLEAN, at : Nat, lag : Int]
PoolType == [conn : Conns, used : Nat]
TaskType ==
    [pc : {"idle", "read", "insert", "pool", "connect", "served", "writing"},
     org : Orgs \cup {NoRow}, conn : Conns, scope : BOOLEAN, at : Nat, lag : Int]
ProvType ==
    [pc : {"idle", "list", "begin", "find", "create", "conn", "schema", "blob", "activate",
           "invalidate"},
     org : Orgs \cup {NoRow}, conn : Conns, todo : SUBSET Orgs]
CmdType ==
    [pc : {"idle", "write"}, org : Orgs \cup {NoRow}, to : {"active", "suspended"}]
OffType ==
    [pc : {"idle", "scope", "drop", "invalidate", "delete"}, org : Orgs \cup {NoRow},
     by : {"http", "cli"}]

Map(f, T) ==
    DOMAIN f \subseteq Orgs /\ IsFiniteSet(DOMAIN f) /\ \A o \in DOMAIN f : f[o] \in T

RegistryTypes ==
    /\ provider \in {"local", "neon"}
    /\ orgs \in [Orgs -> {"none", "live", "deleted"}]
    /\ tenants \in [Orgs -> RowType \cup {NoRow}]
    /\ now \in Nat /\ left \in [Orgs -> Nat] /\ faults \in Nat

PlaneTypes ==
    /\ databases \in [Orgs -> SUBSET Nat] /\ ready \in [Orgs -> SUBSET Nat]
    /\ made \in [Orgs -> Nat]

ProcessTypes ==
    /\ Map(cache, Mapping) /\ Cardinality(DOMAIN cache) <= MAPPING_CACHE_MAX
    /\ Map(pools, PoolType) /\ Cardinality(DOMAIN pools) <= PoolCap
    /\ task \in [Tasks -> TaskType]
    /\ \A t \in Tasks : task[t].pc # "idle" => task[t].org \in Orgs

ActorTypes ==
    /\ prov \in [Provisioners -> ProvType] /\ cli \in CmdType /\ off \in OffType
    /\ \A p \in Provisioners : prov[p].org = NoRow <=> prov[p].pc \in {"idle", "list"}
    /\ cli.pc = "write" => cli.org \in Orgs
    /\ off.org = NoRow <=> off.pc = "idle"
    /\ off.pc = "invalidate" => off.by = "http"

TypesOK == RegistryTypes /\ PlaneTypes /\ ProcessTypes /\ ActorTypes

\* A row once made stays until the organization is deleted, for good; who has
\* read one, or made one, acts on an organization that has or had one.
RowOrGone(o) == Row(o) \/ orgs[o] = "deleted"
RowsAreLive == \A o \in Orgs : Row(o) => orgs[o] = "live"
Met ==
    /\ \A p \in Provisioners : prov[p].pc \notin {"idle", "list"} => orgs[prov[p].org] # "none"
    /\ \A p \in Provisioners :
          prov[p].pc \notin {"idle", "list", "begin"} => RowOrGone(prov[p].org)
    /\ \A p \in Provisioners : \A o \in prov[p].todo : RowOrGone(o)
    /\ \A t \in Tasks : task[t].pc \notin {"idle", "read"} => RowOrGone(task[t].org)
    /\ \A o \in DOMAIN cache : RowOrGone(o)
    /\ \A o \in objects : o \in Orgs /\ RowOrGone(o)

\* The connection strings the provider has given out for an organization.
Given(o) ==
    IF made[o] = 0 THEN {} ELSE IF provider = "local" THEN {0} ELSE 1 .. made[o]
ConnsAreGiven ==
    /\ \A o \in Orgs : ready[o] \subseteq databases[o] /\ databases[o] \subseteq Given(o)
    /\ \A o \in Orgs : Row(o) => tenants[o].conn \in Given(o) \cup {NoConn}
    /\ \A p \in Provisioners : prov[p].pc \in {"conn", "schema", "blob", "activate"} =>
          prov[p].conn \in Given(prov[p].org)

\* Provisioning is in order: who is past a step finds its result in the row,
\* and in the one database as long as that one stands.
Intact(o) == made[o] = 1 /\ databases[o] # {}
InOrder ==
    /\ \A p \in Provisioners :
          LET o == prov[p].org
          IN  /\ At(p, "schema") \/ At(p, "blob") \/ At(p, "activate") =>
                    ~Row(o) \/ tenants[o].conn # NoConn
              /\ (At(p, "blob") \/ At(p, "activate")) /\ Intact(o) =>
                    databases[o] \subseteq ready[o]
              /\ At(p, "activate") => ~Row(o) \/ tenants[o].scope
    /\ \A o \in Orgs : Row(o) /\ tenants[o].scope =>
          /\ tenants[o].conn # NoConn
          /\ Intact(o) => databases[o] \subseteq ready[o]
    /\ \A o \in Orgs : Active(o) /\ o \notin manual => tenants[o].scope

\* The organization was active at time x, or is now.
Recent(o, x) == x <= now /\ (Active(o) \/ x <= left[o])
MappingsAreRecent ==
    /\ \A t \in Tasks : task[t].pc = "insert" => Recent(task[t].org, task[t].at)
    /\ \A o \in DOMAIN cache : Recent(o, cache[o].at - cache[o].lag)
    /\ \A t \in Tasks : task[t].pc \in {"pool", "connect", "served", "writing"} =>
          Recent(task[t].org, task[t].at - task[t].lag - (MAPPING_TTL - 1))

\* The steps of a deletion that are done.
DropDone(o) ==
    \/ orgs[o] = "deleted"
    \/ off.org = o /\ off.pc \in {IF off.by = "cli" THEN "scope" ELSE "invalidate", "delete"}
ScopeDone(o) ==
    \/ orgs[o] = "deleted"
    \/ off.org = o /\ off.pc \in (IF off.by = "cli" THEN {"delete"}
                                  ELSE {"drop", "invalidate", "delete"})
DeletionInOrder ==
    \A o \in Orgs \ leftover :
        /\ \A c, d \in databases[o] : c = d
        /\ DropDone(o) => databases[o] = {}
        /\ ScopeDone(o) => o \notin objects

\* The inductive invariant.
TenancyInv ==
    /\ TypesOK /\ RowsAreLive /\ Met /\ ConnsAreGiven /\ InOrder
    /\ MappingsAreRecent /\ DeletionInOrder

-----------------------------------------------------------------------------
(* What a step does. *)

\* The constants that stand for nothing are no values.
LEMMA Distinct ==
    /\ NoRow \notin RowType /\ NoRow \notin Orgs /\ NoConn \notin Nat
    /\ Established \subseteq Orgs /\ Targets \subseteq Orgs
BY TenancyAssumption

\* The steps, the provisioners' told by provisioner.
Steps ==
    \/ UNCHANGED vars
    \/ \E o \in Orgs :
          create_org(o) \/ run_tenant_migrations(o) \/ reconcile(o)
          \/ offboard_data(o) \/ run_offboard(o)
          \/ \E to \in {"active", "suspended"} : run_set_tenant_status(o, to)
    \/ provisioning_tenants
    \/ \E p \in Provisioners :
          \/ begin_provisioning(p) \/ provider_find(p) \/ provider_create(p)
          \/ set_tenant_conn(p) \/ schema_apply(p) \/ set_tenant_blob(p)
          \/ set_tenant_active(p) \/ (p = "signup" /\ invalidate(p)) \/ provision_failed(p)
    \/ \E t \in Tasks :
          \/ control_tenant(t) \/ insert_mapping(t) \/ pools_get(t) \/ pools_insert(t)
          \/ use_store(t) \/ put_object(t) \/ \E o \in Orgs : resolve(t, o)
    \/ sweep_idle \/ set_tenant_status
    \/ delete_scope \/ delete_scope_failed \/ deprovision \/ deprovision_failed
    \/ offboard_invalidate \/ delete_org \/ delete_org_failed
    \/ restart \/ tick

\* Every step is one of these.
LEMMA StepCases ==
    ASSUME [Next]_vars PROVE Steps
BY Distinct DEF Next, Steps, Reconciler, ProvStep, TaskStep, OffStep, Provisioners

\* The steps that write the registry.
LEMMA RegistryCases ==
    ASSUME Steps
    PROVE  \/ UNCHANGED <<orgs, tenants, left, manual>>
           \/ \E o \in Orgs : create_org(o)
           \/ \E p \in Provisioners :
                 \/ begin_provisioning(p) \/ set_tenant_conn(p) \/ set_tenant_blob(p)
                 \/ set_tenant_active(p)
           \/ set_tenant_status \/ delete_org
BY DEF Steps, vars, registry, history, run_tenant_migrations, reconcile, offboard_data,
       run_offboard, run_set_tenant_status, provisioning_tenants, provider_find,
       provider_create, schema_apply, invalidate, provision_failed, control_tenant,
       insert_mapping, pools_get, pools_insert, use_store, put_object, resolve, sweep_idle,
       delete_scope, delete_scope_failed, deprovision, deprovision_failed,
       offboard_invalidate, delete_org_failed, restart, tick

\* The steps that make, fill or drop databases.
LEMMA PlaneCases ==
    ASSUME Steps
    PROVE  \/ UNCHANGED <<databases, ready, made>>
           \/ \E p \in Provisioners : provider_create(p) \/ schema_apply(p)
           \/ \E o \in Orgs : run_tenant_migrations(o)
           \/ deprovision
BY DEF Steps, vars, plane, create_org, reconcile, offboard_data,
       run_offboard, run_set_tenant_status, provisioning_tenants, begin_provisioning,
       provider_find, set_tenant_conn, set_tenant_blob, set_tenant_active, invalidate,
       provision_failed, control_tenant, insert_mapping, pools_get, pools_insert, use_store,
       put_object, resolve, sweep_idle, set_tenant_status, delete_scope, delete_scope_failed,
       deprovision_failed, offboard_invalidate, delete_org, delete_org_failed, restart, tick

\* The steps that touch the server's memory.
LEMMA ProcessCases ==
    ASSUME Steps
    PROVE  \/ UNCHANGED <<cache, pools, task>>
           \/ \E t \in Tasks :
                 \/ control_tenant(t) \/ insert_mapping(t) \/ pools_get(t) \/ pools_insert(t)
                 \/ use_store(t) \/ put_object(t) \/ \E o \in Orgs : resolve(t, o)
           \/ sweep_idle \/ restart
           \/ \E p \in Provisioners : invalidate(p)
           \/ offboard_invalidate
BY DEF Steps, vars, process, create_org, run_tenant_migrations, reconcile, offboard_data,
       run_offboard, run_set_tenant_status, provisioning_tenants, begin_provisioning,
       provider_find, provider_create, schema_apply, set_tenant_conn, set_tenant_blob,
       set_tenant_active, provision_failed, set_tenant_status, delete_scope,
       delete_scope_failed, deprovision, deprovision_failed, delete_org, delete_org_failed,
       tick

\* The steps of the provisioners.
LEMMA ProvCases ==
    ASSUME Steps
    PROVE  \/ prov' = prov
           \/ \E o \in Orgs : create_org(o) \/ reconcile(o)
           \/ provisioning_tenants \/ restart
           \/ \E p \in Provisioners :
                 \/ begin_provisioning(p) \/ provider_find(p) \/ provider_create(p)
                 \/ set_tenant_conn(p) \/ schema_apply(p) \/ set_tenant_blob(p)
                 \/ set_tenant_active(p) \/ (p = "signup" /\ invalidate(p))
                 \/ provision_failed(p)
BY DEF Steps, vars, run_tenant_migrations, offboard_data, run_offboard,
       run_set_tenant_status, control_tenant, insert_mapping, pools_get, pools_insert,
       use_store, put_object, resolve, sweep_idle, set_tenant_status, delete_scope,
       delete_scope_failed, deprovision, deprovision_failed, offboard_invalidate, delete_org,
       delete_org_failed, tick

\* The steps of a deletion.
LEMMA OffCases ==
    ASSUME Steps
    PROVE  \/ off' = off
           \/ \E o \in Orgs : offboard_data(o) \/ run_offboard(o)
           \/ delete_scope \/ delete_scope_failed \/ deprovision \/ deprovision_failed
           \/ offboard_invalidate \/ delete_org \/ delete_org_failed \/ restart
BY DEF Steps, vars, create_org, run_tenant_migrations, reconcile, run_set_tenant_status,
       provisioning_tenants, begin_provisioning, provider_find, provider_create,
       schema_apply, set_tenant_conn, set_tenant_blob, set_tenant_active, invalidate,
       provision_failed, control_tenant, insert_mapping, pools_get, pools_insert,
       use_store, put_object, resolve, sweep_idle, set_tenant_status, tick

\* The steps that write or delete objects.
LEMMA ObjectCases ==
    ASSUME Steps
    PROVE  \/ objects' = objects
           \/ \E t \in Tasks : put_object(t)
           \/ delete_scope
BY DEF Steps, vars, plane, create_org, run_tenant_migrations, reconcile, offboard_data,
       run_offboard, run_set_tenant_status, provisioning_tenants, begin_provisioning,
       provider_find, provider_create, schema_apply, set_tenant_conn, set_tenant_blob,
       set_tenant_active, invalidate, provision_failed, control_tenant, insert_mapping,
       pools_get, pools_insert, use_store, resolve, sweep_idle, set_tenant_status,
       delete_scope_failed, deprovision, deprovision_failed, offboard_invalidate, delete_org,
       delete_org_failed, restart, tick

\* The clock only goes on, and what was raced stays marked.
LEMMA Monotone ==
    ASSUME TypesOK, Steps
    PROVE  /\ now' \in Nat /\ now <= now' /\ faults' \in Nat /\ provider' = provider
           /\ leftover \subseteq leftover' /\ manual \subseteq manual'
<1>1. provider' = provider /\ now' \in {now, now + 1} /\ faults' \in {faults, faults + 1}
  BY DEF Steps, vars, counters, Fault, create_org, run_tenant_migrations, reconcile,
         offboard_data, run_offboard, run_set_tenant_status, provisioning_tenants,
         begin_provisioning, provider_find, provider_create, schema_apply, set_tenant_conn,
         set_tenant_blob, set_tenant_active, invalidate, provision_failed, control_tenant,
         insert_mapping, pools_get, pools_insert, use_store, put_object, resolve, sweep_idle,
         set_tenant_status, delete_scope, delete_scope_failed, deprovision,
         deprovision_failed, offboard_invalidate, delete_org, delete_org_failed, restart, tick
<1>2. leftover \subseteq leftover' /\ manual \subseteq manual'
  BY DEF Steps, vars, history, create_org, run_tenant_migrations, reconcile,
         offboard_data, run_offboard, run_set_tenant_status, provisioning_tenants,
         begin_provisioning, provider_find, provider_create, schema_apply, set_tenant_conn,
         set_tenant_blob, set_tenant_active, invalidate, provision_failed, control_tenant,
         insert_mapping, pools_get, pools_insert, use_store, put_object, resolve, sweep_idle,
         set_tenant_status, delete_scope, delete_scope_failed, deprovision,
         deprovision_failed, offboard_invalidate, delete_org, delete_org_failed, restart, tick
<1> QED
  BY <1>1, <1>2 DEF TypesOK, RegistryTypes

-----------------------------------------------------------------------------
(* The registry. *)

\* What becomes of the row of an organization.
Born(o) ==
    /\ ~Row(o) /\ orgs[o] = "live" /\ orgs'[o] = "live"
    /\ tenants'[o] \in RowType /\ tenants'[o].status = "provisioning"
    /\ tenants'[o].conn = NoConn /\ ~tenants'[o].scope
Gone(o) == tenants'[o] = NoRow /\ orgs'[o] = "deleted"
By(p, o, pc) == p \in Provisioners /\ At(p, pc) /\ prov[p].org = o
Connected(o, p) ==
    /\ By(p, o, "conn") /\ tenants'[o].conn = prov[p].conn
    /\ tenants'[o].status = tenants[o].status /\ (tenants'[o].scope = tenants[o].scope)
Scoped(o, p) ==
    /\ By(p, o, "blob") /\ tenants'[o].conn = tenants[o].conn
    /\ tenants'[o].status = tenants[o].status /\ tenants'[o].scope
Activated(o, p) ==
    /\ By(p, o, "activate") /\ tenants'[o].conn = tenants[o].conn
    /\ (tenants'[o].scope = tenants[o].scope)
Commanded(o) ==
    /\ tenants'[o].conn = tenants[o].conn /\ (tenants'[o].scope = tenants[o].scope)
    /\ ~tenants[o].scope => o \in manual'
Written(o) ==
    /\ Row(o) /\ orgs'[o] = orgs[o] /\ tenants'[o] \in RowType
    /\ \/ \E p \in Provisioners : Connected(o, p) \/ Scoped(o, p) \/ Activated(o, p)
       \/ Commanded(o)
Kept(o) ==
    tenants'[o] = tenants[o] /\ (orgs'[o] = orgs[o] \/ (orgs[o] = "none" /\ orgs'[o] = "live"))
OrgEffect(o) ==
    /\ Kept(o) \/ Born(o) \/ Gone(o) \/ Written(o)
    /\ left'[o] \in {left[o], now}
    /\ Active(o) /\ tenants'[o] # tenants[o] => left'[o] = now

OrgsStep ==
    /\ orgs' \in [Orgs -> {"none", "live", "deleted"}]
    /\ tenants' \in [Orgs -> RowType \cup {NoRow}]
    /\ left' \in [Orgs -> Nat]
    /\ \A o \in Orgs : OrgEffect(o)

\* A write of one row.
LEMMA WriteEffect ==
    ASSUME RegistryTypes, NEW o \in Orgs, NEW row, Row(o) => row \in RowType,
           Write(o, row), orgs' = orgs
    PROVE  /\ tenants' \in [Orgs -> RowType \cup {NoRow}] /\ left' \in [Orgs -> Nat]
           /\ \A q \in Orgs \ {o} : OrgEffect(q)
           /\ left'[o] \in {left[o], now} /\ (Active(o) => left'[o] = now)
           /\ ~Row(o) => OrgEffect(o)
           /\ Row(o) => tenants'[o] = row
<1>1. /\ tenants \in [Orgs -> RowType \cup {NoRow}] /\ now \in Nat /\ left \in [Orgs -> Nat]
  BY DEF RegistryTypes
<1>2. tenants' \in [Orgs -> RowType \cup {NoRow}] /\ left' \in [Orgs -> Nat]
  BY <1>1 DEF Write
<1>3. \A q \in Orgs \ {o} : tenants'[q] = tenants[q] /\ left'[q] = left[q]
  BY <1>1 DEF Write
<1>4. left'[o] \in {left[o], now} /\ (Active(o) => left'[o] = now)
  BY <1>1 DEF Write
<1>5. Row(o) => tenants'[o] = row
  BY <1>1 DEF Write
<1>6. ~Row(o) => tenants'[o] = tenants[o]
  BY <1>1 DEF Write, Row
<1> QED
  BY <1>2, <1>3, <1>4, <1>5, <1>6 DEF OrgEffect, Kept

\* What each step makes of the rows of the registry.
LEMMA RegistryStep ==
    ASSUME TypesOK, Steps
    PROVE  OrgsStep
<1>1. /\ orgs \in [Orgs -> {"none", "live", "deleted"}]
      /\ tenants \in [Orgs -> RowType \cup {NoRow}] /\ now \in Nat /\ left \in [Orgs -> Nat]
      /\ RegistryTypes /\ ActorTypes
  BY DEF TypesOK, RegistryTypes
<1>2. ASSUME NEW p \in Provisioners, prov[p].pc \notin {"idle", "list"}
      PROVE  prov[p].org \in Orgs /\ prov[p].conn \in Conns
  BY <1>1, <1>2 DEF ActorTypes, ProvType
<1>3. CASE UNCHANGED <<orgs, tenants, left, manual>>
  BY <1>1, <1>3 DEF OrgsStep, OrgEffect, Kept
<1>4. ASSUME NEW o \in Orgs, create_org(o) PROVE OrgsStep
  <2>1. orgs' = [orgs EXCEPT ![o] = "live"] /\ orgs[o] = "none" /\ UNCHANGED <<tenants, left>>
    BY <1>4 DEF create_org, history
  <2> QED
    BY <1>1, <2>1 DEF OrgsStep, OrgEffect, Kept
<1>5. ASSUME NEW p \in Provisioners, begin_provisioning(p) PROVE OrgsStep
  <2> DEFINE o == prov[p].org
             new == [status |-> "provisioning", conn |-> NoConn, scope |-> FALSE]
  <2>1. o \in Orgs
    BY <1>2, <1>5 DEF begin_provisioning, At
  <2>2. /\ UNCHANGED <<orgs, left>>
        /\ tenants' = [tenants EXCEPT ![o] = IF orgs[o] # "live" \/ Row(o) THEN @ ELSE new]
    BY <1>1, <1>5, <2>1 DEF begin_provisioning, history
  <2>3. new \in RowType /\ new.status = "provisioning" /\ new.conn = NoConn /\ ~new.scope
    BY DEF RowType, Conns
  <2> HIDE DEF new, o
  <2>4. tenants' \in [Orgs -> RowType \cup {NoRow}]
    BY <1>1, <2>1, <2>2, <2>3
  <2>5. \A q \in Orgs \ {o} : tenants'[q] = tenants[q]
    BY <1>1, <2>1, <2>2
  <2>6. tenants'[o] = tenants[o] \/ (~Row(o) /\ orgs[o] = "live" /\ tenants'[o] = new)
    BY <1>1, <2>1, <2>2
  <2>7. ~Row(o) => ~Active(o)
    BY DEF Active
  <2>8. OrgEffect(o)
    BY <1>1, <2>1, <2>2, <2>3, <2>6, <2>7 DEF OrgEffect, Kept, Born
  <2>9. \A q \in Orgs \ {o} : OrgEffect(q)
    BY <2>2, <2>5 DEF OrgEffect, Kept
  <2> QED
    BY <1>1, <2>2, <2>4, <2>8, <2>9 DEF OrgsStep
<1>6. ASSUME NEW p \in Provisioners, set_tenant_conn(p) PROVE OrgsStep
  <2> DEFINE o == prov[p].org
             row == [tenants[o] EXCEPT !.conn = prov[p].conn]
  <2>1. o \in Orgs /\ prov[p].conn \in Conns /\ By(p, o, "conn")
    BY <1>2, <1>6 DEF set_tenant_conn, At, By
  <2>2. Row(o) => /\ row \in RowType /\ row.conn = prov[p].conn
                  /\ row.status = tenants[o].status /\ (row.scope = tenants[o].scope)
    BY <1>1, <2>1 DEF Row, RowType
  <2>3. Write(o, row) /\ orgs' = orgs
    BY <1>6 DEF set_tenant_conn
  <2> HIDE DEF row, o
  <2>4. Row(o) => OrgEffect(o)
    BY <1>1, <2>1, <2>2, <2>3, WriteEffect DEF OrgEffect, Written, Connected
  <2> QED
    BY <1>1, <2>1, <2>2, <2>3, <2>4, WriteEffect DEF OrgsStep
<1>7. ASSUME NEW p \in Provisioners, set_tenant_blob(p) PROVE OrgsStep
  <2> DEFINE o == prov[p].org
             row == [tenants[o] EXCEPT !.scope = TRUE]
  <2>1. o \in Orgs /\ By(p, o, "blob")
    BY <1>2, <1>7 DEF set_tenant_blob, At, By
  <2>2. ASSUME NEW x \in BOOLEAN, Row(o)
        PROVE  [tenants[o] EXCEPT !.scope = x] \in RowType
    BY <1>1, <2>1, <2>2 DEF Row, RowType
  <2>3. Row(o) => /\ row \in RowType /\ row.conn = tenants[o].conn
                  /\ row.status = tenants[o].status /\ row.scope
    <3>1. Row(o) => row \in RowType
      BY <2>2
    <3>2. Row(o) => /\ row.conn = tenants[o].conn
                    /\ row.status = tenants[o].status /\ row.scope
      BY <1>1, <2>1 DEF Row, RowType
    <3> QED
      BY <3>1, <3>2
  <2>4. Write(o, row) /\ orgs' = orgs
    BY <1>7 DEF set_tenant_blob
  <2> HIDE DEF row, o
  <2>5. Row(o) => OrgEffect(o)
    BY <1>1, <2>1, <2>3, <2>4, WriteEffect DEF OrgEffect, Written, Scoped
  <2> QED
    BY <1>1, <2>1, <2>3, <2>4, <2>5, WriteEffect DEF OrgsStep
<1>8. ASSUME NEW p \in Provisioners, set_tenant_active(p) PROVE OrgsStep
  <2> DEFINE o == prov[p].org
             row == [tenants[o] EXCEPT !.status = "active"]
  <2>1. o \in Orgs /\ By(p, o, "activate")
    BY <1>2, <1>8 DEF set_tenant_active, At, By
  <2>2. Row(o) => /\ row \in RowType /\ row.conn = tenants[o].conn
                  /\ (row.scope = tenants[o].scope)
    BY <1>1, <2>1 DEF Row, RowType
  <2>3. Write(o, row) /\ orgs' = orgs
    BY <1>8 DEF set_tenant_active
  <2> HIDE DEF row, o
  <2>4. Row(o) => OrgEffect(o)
    BY <1>1, <2>1, <2>2, <2>3, WriteEffect DEF OrgEffect, Written, Activated
  <2> QED
    BY <1>1, <2>1, <2>2, <2>3, <2>4, WriteEffect DEF OrgsStep
<1>9. CASE set_tenant_status
  <2> DEFINE o == cli.org
             row == [tenants[o] EXCEPT !.status = cli.to]
  <2>1. o \in Orgs /\ cli.to \in {"active", "suspended"}
    BY <1>1, <1>9 DEF set_tenant_status, ActorTypes, CmdType
  <2>2. Row(o) => /\ row \in RowType /\ row.conn = tenants[o].conn
                  /\ (row.scope = tenants[o].scope)
    BY <1>1, <2>1 DEF Row, RowType
  <2>3. Write(o, row) /\ orgs' = orgs /\ (Row(o) /\ ~tenants[o].scope => o \in manual')
    BY <1>9 DEF set_tenant_status
  <2> HIDE DEF row, o
  <2>4. Row(o) => OrgEffect(o)
    BY <1>1, <2>1, <2>2, <2>3, WriteEffect DEF OrgEffect, Written, Commanded
  <2> QED
    BY <1>1, <2>1, <2>2, <2>3, <2>4, WriteEffect DEF OrgsStep
<1>10. CASE delete_org
  <2>1. off.org \in Orgs
    BY <1>1, <1>10 DEF delete_org, ActorTypes, OffType
  <2>2. /\ orgs' = [orgs EXCEPT ![off.org] = "deleted"]
        /\ tenants' = [tenants EXCEPT ![off.org] = NoRow]
        /\ left' = [left EXCEPT ![off.org] = IF Active(off.org) THEN now ELSE @]
    BY <1>10 DEF delete_org
  <2> QED
    BY <1>1, <2>1, <2>2 DEF OrgsStep, OrgEffect, Kept, Gone
<1> QED
  BY <1>3, <1>4, <1>5, <1>6, <1>7, <1>8, <1>9, <1>10, RegistryCases

\* Only an organization that is there has a row.
LEMMA RowsAreLiveStep ==
    ASSUME TypesOK, RowsAreLive, OrgsStep
    PROVE  RowsAreLive'
<1> SUFFICES ASSUME NEW o \in Orgs, tenants'[o] # NoRow PROVE orgs'[o] = "live"
  BY DEF RowsAreLive, Row
<1>1. Kept(o) \/ Born(o) \/ Gone(o) \/ Written(o)
  BY DEF OrgsStep, OrgEffect
<1> QED
  BY <1>1 DEF Kept, Born, Gone, Written, RowsAreLive, Row

\* What was met is met for good, and what was recent stays so.
StillMet(o) == tenants'[o] # NoRow \/ orgs'[o] = "deleted"
StillRecent(o, x) ==
    x <= now' /\ ((tenants'[o] # NoRow /\ tenants'[o].status = "active") \/ x <= left'[o])

\* An organization once met stays met.
LEMMA MetForGood ==
    ASSUME TypesOK, RowsAreLive, OrgsStep
    PROVE  \A o \in Orgs : /\ RowOrGone(o) => StillMet(o)
                           /\ orgs[o] # "none" => orgs'[o] # "none"
                           /\ StillMet(o) => orgs'[o] # "none"
<1> TAKE o \in Orgs
<1>1. Kept(o) \/ Born(o) \/ Gone(o) \/ Written(o)
  BY DEF OrgsStep, OrgEffect
<1>2. tenants'[o] # NoRow => orgs'[o] = "live"
  BY <1>1 DEF Kept, Born, Gone, Written, RowsAreLive, Row
<1> QED
  BY <1>1, <1>2, Distinct DEF Kept, Born, Gone, Written, RowOrGone, Row, StillMet, RowsAreLive

\* What was recent at a time stays so.
LEMMA RecentForGood ==
    ASSUME TypesOK, Steps, OrgsStep
    PROVE  \A o \in Orgs, x \in Int : Recent(o, x) => StillRecent(o, x)
<1> SUFFICES ASSUME NEW o \in Orgs, NEW x \in Int, Recent(o, x) PROVE StillRecent(o, x)
  OBVIOUS
<1>1. now \in Nat /\ now' \in Nat /\ now <= now'
  BY Monotone DEF TypesOK, RegistryTypes
<1>2. left[o] \in Nat /\ left'[o] \in {left[o], now}
  BY DEF TypesOK, RegistryTypes, OrgsStep, OrgEffect
<1>3. CASE x <= left[o]
  BY <1>1, <1>2, <1>3 DEF Recent, StillRecent
<1>4. CASE Active(o) /\ tenants'[o] = tenants[o]
  BY <1>1, <1>4 DEF Recent, StillRecent, Active, Row
<1>5. CASE Active(o) /\ tenants'[o] # tenants[o]
  BY <1>1, <1>5 DEF Recent, StillRecent, OrgsStep, OrgEffect
<1> QED
  BY <1>3, <1>4, <1>5 DEF Recent

-----------------------------------------------------------------------------
(* The databases. *)

\* What becomes of the databases of an organization.
MadeOne(o) ==
    /\ \E p \in Provisioners : By(p, o, "create") /\ provider_create(p)
    /\ databases'[o] = databases[o] \cup {NewConn(o)} /\ ready'[o] = ready[o]
    /\ made'[o] = IF NewConn(o) \in databases[o] THEN made[o] ELSE made[o] + 1
Filled(o) ==
    /\ databases'[o] = databases[o] /\ made'[o] = made[o]
    /\ \E c \in databases[o] : ready'[o] = ready[o] \cup {c}
DroppedOne(o) ==
    /\ off.org = o /\ off.pc = "drop" /\ made'[o] = made[o]
    /\ \E c \in databases[o] : databases'[o] = databases[o] \ {c} /\ ready'[o] = ready[o] \ {c}
PlaneKept(o) ==
    databases'[o] = databases[o] /\ ready'[o] = ready[o] /\ made'[o] = made[o]
PlaneEffect(o) == PlaneKept(o) \/ MadeOne(o) \/ Filled(o) \/ DroppedOne(o)

DatabasesStep == PlaneTypes' /\ \A o \in Orgs : PlaneEffect(o)

\* What each step makes of the databases.
LEMMA PlaneStep ==
    ASSUME TypesOK, Steps
    PROVE  DatabasesStep
<1>1. /\ databases \in [Orgs -> SUBSET Nat] /\ ready \in [Orgs -> SUBSET Nat]
      /\ made \in [Orgs -> Nat] /\ ActorTypes
  BY DEF TypesOK, PlaneTypes
<1>2. ASSUME NEW p \in Provisioners, prov[p].pc \notin {"idle", "list"}
      PROVE  prov[p].org \in Orgs
  BY <1>1, <1>2 DEF ActorTypes, ProvType
<1>3. CASE UNCHANGED <<databases, ready, made>>
  BY <1>1, <1>3 DEF DatabasesStep, PlaneTypes, PlaneEffect, PlaneKept
<1>4. ASSUME NEW p \in Provisioners, provider_create(p) PROVE DatabasesStep
  <2> DEFINE o == prov[p].org
             c == NewConn(o)
  <2>1. o \in Orgs /\ By(p, o, "create")
    BY <1>2, <1>4 DEF provider_create, At, By
  <2>2. c \in Nat
    BY <1>1, <2>1 DEF NewConn
  <2>3. /\ databases' = [databases EXCEPT ![o] = @ \cup {c}] /\ ready' = ready
        /\ made' = [made EXCEPT ![o] = IF c \in databases[o] THEN @ ELSE @ + 1]
    BY <1>4 DEF provider_create
  <2> HIDE DEF c, o
  <2>4. PlaneTypes'
    BY <1>1, <2>1, <2>2, <2>3 DEF PlaneTypes
  <2>5. \A q \in Orgs \ {o} : PlaneKept(q)
    BY <1>1, <2>1, <2>3 DEF PlaneKept
  <2>6. /\ databases'[o] = databases[o] \cup {c} /\ ready'[o] = ready[o]
        /\ made'[o] = IF c \in databases[o] THEN made[o] ELSE made[o] + 1
    BY <1>1, <2>1, <2>3
  <2>7. MadeOne(o)
    BY <1>4, <2>1, <2>6 DEF MadeOne, c
  <2> QED
    BY <2>4, <2>5, <2>7 DEF DatabasesStep, PlaneEffect
<1>5. ASSUME NEW o \in Orgs, NEW c \in databases[o],
             ready' = [ready EXCEPT ![o] = @ \cup {c}], UNCHANGED <<databases, made>>
      PROVE  DatabasesStep
  <2>1. PlaneTypes'
    BY <1>1, <1>5 DEF PlaneTypes
  <2>2. \A q \in Orgs \ {o} : PlaneKept(q)
    BY <1>1, <1>5 DEF PlaneKept
  <2>3. Filled(o)
    BY <1>1, <1>5 DEF Filled
  <2> QED
    BY <2>1, <2>2, <2>3 DEF DatabasesStep, PlaneEffect
<1>6. ASSUME NEW p \in Provisioners, schema_apply(p) PROVE DatabasesStep
  <2>1. prov[p].org \in Orgs
    BY <1>2, <1>6 DEF schema_apply, At
  <2> QED
    BY <1>3, <1>5, <1>6, <2>1 DEF schema_apply
<1>7. ASSUME NEW o \in Orgs, run_tenant_migrations(o) PROVE DatabasesStep
  BY <1>5, <1>7 DEF run_tenant_migrations
<1>8. CASE deprovision
  <2> DEFINE o == off.org
  <2>1. o \in Orgs /\ off.pc = "drop" /\ made' = made
    BY <1>1, <1>8 DEF deprovision, ActorTypes, OffType
  <2>2. ASSUME NEW c \in databases[o], databases' = [databases EXCEPT ![o] = @ \ {c}],
               ready' = [ready EXCEPT ![o] = @ \ {c}]
        PROVE  DatabasesStep
    <3>1. PlaneTypes'
      BY <1>1, <2>1, <2>2 DEF PlaneTypes
    <3>2. \A q \in Orgs \ {o} : PlaneKept(q)
      BY <1>1, <2>1, <2>2 DEF PlaneKept
    <3>3. DroppedOne(o)
      BY <1>1, <2>1, <2>2 DEF DroppedOne
    <3> QED
      BY <3>1, <3>2, <3>3 DEF DatabasesStep, PlaneEffect
  <2> QED
    BY <1>3, <1>8, <2>1, <2>2 DEF deprovision
<1> QED
  BY <1>3, <1>4, <1>6, <1>7, <1>8, PlaneCases

-----------------------------------------------------------------------------
(* The provisioners. *)

\* What becomes of a provisioner.
Goes(p, a, b) ==
    /\ prov[p].pc = a /\ prov'[p].pc = b /\ prov'[p].org = prov[p].org
    /\ prov'[p].todo = prov[p].todo
SameConn(p) == prov'[p].conn = prov[p].conn
Rests(p) ==
    /\ prov'[p].pc \in {"idle", "list"} /\ prov'[p].org = NoRow
    /\ \A o \in prov'[p].todo : o \in prov[p].todo \/ Row(o)
Begins(p) ==
    /\ prov'[p].pc = "begin" /\ prov'[p].org \in Orgs
    /\ prov'[p].org \in prov[p].todo \/ orgs'[prov'[p].org] = "live"
    /\ prov'[p].todo \subseteq prov[p].todo
ProvEffect(p) ==
    \/ prov'[p] = prov[p] \/ Rests(p) \/ Begins(p)
    \/ Goes(p, "begin", "find") /\ tenants'[prov[p].org] # NoRow
    \/ Goes(p, "find", "create")
    \/ Goes(p, "find", "conn") /\ prov'[p].conn \in databases[prov[p].org]
    \/ Goes(p, "create", "conn") /\ prov'[p].conn = NewConn(prov[p].org) /\ provider_create(p)
    \/ Goes(p, "conn", "schema") /\ SameConn(p) /\ set_tenant_conn(p)
    \/ Goes(p, "schema", "blob") /\ SameConn(p) /\ schema_apply(p)
       /\ prov[p].conn \in databases[prov[p].org]
    \/ Goes(p, "blob", "activate") /\ SameConn(p) /\ set_tenant_blob(p)
    \/ Goes(p, "activate", "invalidate")

ProvsStep ==
    /\ prov' \in [Provisioners -> ProvType]
    /\ \A p \in Provisioners : prov'[p].org = NoRow <=> prov'[p].pc \in {"idle", "list"}
    /\ \A p \in Provisioners : ProvEffect(p)

\* One provisioner moves, its organization at hand.
LEMMA OneMoves ==
    ASSUME TypesOK, NEW p \in Provisioners, NEW new \in ProvType,
           prov' = [prov EXCEPT ![p] = new],
           new.org = NoRow <=> new.pc \in {"idle", "list"},
           ProvEffect(p)
    PROVE  ProvsStep
<1>1. prov \in [Provisioners -> ProvType]
      /\ \A q \in Provisioners : prov[q].org = NoRow <=> prov[q].pc \in {"idle", "list"}
  BY DEF TypesOK, ActorTypes
<1>2. \A q \in Provisioners \ {p} : prov'[q] = prov[q]
  BY <1>1
<1>3. prov'[p] = new /\ prov' \in [Provisioners -> ProvType]
  BY <1>1
<1>4. \A q \in Provisioners : prov'[q].org = NoRow <=> prov'[q].pc \in {"idle", "list"}
  BY <1>1, <1>2, <1>3
<1> QED
  BY <1>2, <1>3, <1>4 DEF ProvsStep, ProvEffect

\* A provisioner rests after its work, or an error in it.
LEMMA EndRests ==
    ASSUME TypesOK, NEW p \in Provisioners, End(p)
    PROVE  ProvsStep
<1> DEFINE new == [NoProv EXCEPT !.todo = prov[p].todo]
<1>1. prov[p] \in ProvType /\ prov \in [Provisioners -> ProvType]
  BY DEF TypesOK, ActorTypes
<1>2. new \in ProvType /\ new.pc = "idle" /\ new.org = NoRow /\ new.todo = prov[p].todo
  BY <1>1 DEF NoProv, ProvType, Conns
<1>3. prov' = [prov EXCEPT ![p] = new]
  BY DEF End
<1> HIDE DEF new
<1>4. prov'[p] = new
  BY <1>1, <1>3
<1>5. ProvEffect(p)
  BY <1>2, <1>4 DEF ProvEffect, Rests
<1> QED
  BY <1>2, <1>3, <1>5, OneMoves

\* A provisioner goes on to its next call, with a connection string.
Onward(p, pc, c) == prov' = [prov EXCEPT ![p].pc = pc, ![p].conn = c]

\* A provisioner that goes on is well typed.
LEMMA GoesOn ==
    ASSUME TypesOK, NEW p \in Provisioners, prov[p].pc \notin {"idle", "list"},
           NEW pc \in {"find", "create", "conn", "schema", "blob", "activate", "invalidate"},
           NEW c \in Conns, Onward(p, pc, c)
    PROVE  /\ prov[p].org \in Orgs
           /\ Goes(p, prov[p].pc, pc) /\ prov'[p].conn = c
           /\ ProvEffect(p) => ProvsStep
<1> DEFINE new == [prov[p] EXCEPT !.pc = pc, !.conn = c]
<1>1. /\ prov[p] \in ProvType /\ prov \in [Provisioners -> ProvType]
      /\ prov[p].org = NoRow <=> prov[p].pc \in {"idle", "list"}
  BY DEF TypesOK, ActorTypes
<1>2. new \in ProvType /\ new.pc = pc /\ new.org = prov[p].org /\ new.todo = prov[p].todo
      /\ new.conn = c
  BY <1>1 DEF ProvType
<1>3. prov[p].org \in Orgs /\ prov[p].org # NoRow
  BY <1>1, Distinct DEF ProvType
<1>4. prov' = [prov EXCEPT ![p] = new]
  BY <1>1 DEF Onward
<1> HIDE DEF new
<1>5. prov'[p] = new
  BY <1>1, <1>4
<1> QED
  BY <1>2, <1>3, <1>4, <1>5, OneMoves DEF Goes

\* A provisioner that only moves to its next call goes on.
LEMMA GotoGoesOn ==
    ASSUME TypesOK, NEW p \in Provisioners, prov[p].pc \notin {"idle", "list"},
           NEW pc \in {"find", "create", "conn", "schema", "blob", "activate", "invalidate"},
           Goto(p, pc)
    PROVE  /\ prov[p].org \in Orgs
           /\ Goes(p, prov[p].pc, pc) /\ SameConn(p)
           /\ ProvEffect(p) => ProvsStep
<1>1. /\ prov[p] \in ProvType /\ prov \in [Provisioners -> ProvType]
  BY DEF TypesOK, ActorTypes
<1>2. prov[p].conn \in Conns
  BY <1>1 DEF ProvType
<1>3. [prov[p] EXCEPT !.pc = pc] = [prov[p] EXCEPT !.pc = pc, !.conn = prov[p].conn]
  BY <1>1 DEF ProvType
<1>4. Onward(p, pc, prov[p].conn)
  BY <1>1, <1>3 DEF Goto, Onward
<1> QED
  BY <1>2, <1>4, GoesOn DEF SameConn

\* What each step makes of the provisioners.
LEMMA ProvStepEffect ==
    ASSUME TypesOK, Steps
    PROVE  ProvsStep
<1>1. /\ prov \in [Provisioners -> ProvType] /\ databases \in [Orgs -> SUBSET Nat]
      /\ made \in [Orgs -> Nat] /\ tenants \in [Orgs -> RowType \cup {NoRow}]
      /\ \A p \in Provisioners : prov[p].org = NoRow <=> prov[p].pc \in {"idle", "list"}
  BY DEF TypesOK, ActorTypes, PlaneTypes, RegistryTypes
<1>2. CASE prov' = prov
  BY <1>1, <1>2 DEF ProvsStep, ProvEffect
<1>3. ASSUME NEW o \in Orgs, create_org(o) PROVE ProvsStep
  <2> DEFINE new == [NoProv EXCEPT !.pc = "begin", !.org = o]
  <2>1. new \in ProvType /\ new.pc = "begin" /\ new.org = o /\ new.todo = {}
    BY DEF NoProv, ProvType, Conns
  <2>2. "signup" \in Provisioners /\ prov' = [prov EXCEPT !["signup"] = new]
    BY <1>3 DEF create_org, Provisioners
  <2>3. orgs'[o] = "live"
    BY <1>3 DEF create_org, TypesOK, RegistryTypes
  <2> HIDE DEF new
  <2>4. prov'["signup"] = new
    BY <1>1, <2>2
  <2>5. ProvEffect("signup")
    BY <2>1, <2>3, <2>4 DEF ProvEffect, Begins
  <2> QED
    BY <2>1, <2>2, <2>5, OneMoves, Distinct
<1>4. ASSUME NEW o \in Orgs, reconcile(o) PROVE ProvsStep
  <2> DEFINE p == "reconcile"
             new == [pc |-> "begin", org |-> o, conn |-> NoConn, todo |-> prov[p].todo \ {o}]
  <2>1. p \in Provisioners /\ prov[p] \in ProvType /\ o \in prov[p].todo
    BY <1>1, <1>4 DEF reconcile, Provisioners
  <2>2. new \in ProvType /\ new.pc = "begin" /\ new.org = o /\ new.todo \subseteq prov[p].todo
    BY <2>1 DEF ProvType, Conns
  <2>3. prov' = [prov EXCEPT ![p] = new]
    BY <1>1, <1>4, <2>1 DEF reconcile
  <2> HIDE DEF new, p
  <2>4. prov'[p] = new
    BY <1>1, <2>1, <2>3
  <2>5. ProvEffect(p)
    BY <2>1, <2>2, <2>4 DEF ProvEffect, Begins
  <2> QED
    BY <2>1, <2>2, <2>3, <2>5, OneMoves, Distinct
<1>5. CASE provisioning_tenants
  <2> DEFINE p == "reconcile"
             rows == {o \in Orgs : Row(o) /\ tenants[o].status = "provisioning"}
             new == [NoProv EXCEPT !.todo = rows]
  <2>1. p \in Provisioners /\ rows \in SUBSET Orgs /\ \A o \in rows : Row(o)
    BY DEF Provisioners
  <2>2. prov' = [prov EXCEPT ![p] = new]
    BY <1>5 DEF provisioning_tenants
  <2> HIDE DEF rows, p
  <2>3. new \in ProvType /\ new.pc = "idle" /\ new.org = NoRow /\ new.todo = rows
    BY <2>1 DEF NoProv, ProvType, Conns
  <2> HIDE DEF new
  <2>4. prov'[p] = new
    BY <1>1, <2>1, <2>2
  <2>5. ProvEffect(p)
    BY <2>1, <2>3, <2>4 DEF ProvEffect, Rests
  <2> QED
    BY <2>1, <2>2, <2>3, <2>5, OneMoves
<1>6. CASE restart
  <2> DEFINE listing == [NoProv EXCEPT !.pc = "list"]
  <2>1. /\ listing \in ProvType /\ listing.pc = "list" /\ listing.org = NoRow
        /\ listing.todo = {}
        /\ NoProv \in ProvType /\ NoProv.pc = "idle" /\ NoProv.org = NoRow /\ NoProv.todo = {}
    BY DEF NoProv, ProvType, Conns
  <2>2. prov' = [p \in Provisioners |-> IF p = "reconcile" THEN listing ELSE NoProv]
    BY <1>6 DEF restart
  <2> HIDE DEF listing
  <2> QED
    BY <2>1, <2>2 DEF ProvsStep, ProvEffect, Rests
<1>7. ASSUME NEW p \in Provisioners, begin_provisioning(p) PROVE ProvsStep
  <2>1. CASE orgs[prov[p].org] = "live"
    <3>1. prov[p].pc = "begin" /\ Goto(p, "find")
      BY <1>7, <2>1 DEF begin_provisioning, At
    <3>2. prov[p].org \in Orgs /\ Goes(p, "begin", "find")
      BY <3>1, GotoGoesOn
    <3>3. tenants'[prov[p].org] # NoRow
      <4>1. [status |-> "provisioning", conn |-> NoConn, scope |-> FALSE] \in RowType
        BY DEF RowType, Conns
      <4>2. tenants' = [tenants EXCEPT ![prov[p].org] =
                 IF Row(prov[p].org) THEN @
                 ELSE [status |-> "provisioning", conn |-> NoConn, scope |-> FALSE]]
        BY <1>7, <2>1 DEF begin_provisioning
      <4> QED
        BY <1>1, <3>2, <4>1, <4>2, Distinct DEF Row
    <3> QED
      BY <3>1, <3>2, <3>3, GotoGoesOn DEF ProvEffect
  <2>2. CASE orgs[prov[p].org] # "live"
    BY <1>7, <2>2, EndRests DEF begin_provisioning
  <2> QED
    BY <2>1, <2>2
<1>8. ASSUME NEW p \in Provisioners, provider_find(p) PROVE ProvsStep
  <2>1. prov[p].pc = "find"
    BY <1>8 DEF provider_find, At
  <2>2. CASE databases[prov[p].org] = {}
    <3>1. Goto(p, "create")
      BY <1>8, <2>2 DEF provider_find
    <3> QED
      BY <2>1, <3>1, GotoGoesOn DEF ProvEffect
  <2>3. CASE databases[prov[p].org] # {}
    <3>1. PICK c \in databases[prov[p].org] : Onward(p, "conn", c)
      BY <1>8, <2>3 DEF provider_find, Onward
    <3>2. c \in Conns
      BY <1>1, <2>1, Distinct DEF ProvType, Conns
    <3> QED
      BY <2>1, <3>1, <3>2, GoesOn DEF ProvEffect
  <2> QED
    BY <2>2, <2>3
<1>9. ASSUME NEW p \in Provisioners, provider_create(p) PROVE ProvsStep
  <2>1. prov[p].pc = "create" /\ Onward(p, "conn", NewConn(prov[p].org))
    BY <1>9 DEF provider_create, At, Onward
  <2>2. prov[p].org \in Orgs
    BY <1>1, <2>1 DEF ProvType
  <2>3. NewConn(prov[p].org) \in Conns
    BY <1>1, <2>2 DEF NewConn, Conns
  <2> QED
    BY <1>9, <2>1, <2>3, GoesOn DEF ProvEffect
<1>10. ASSUME NEW p \in Provisioners, set_tenant_conn(p) PROVE ProvsStep
  <2>1. prov[p].pc = "conn" /\ Goto(p, "schema")
    BY <1>10 DEF set_tenant_conn, At
  <2> QED
    BY <1>10, <2>1, GotoGoesOn DEF ProvEffect
<1>11. ASSUME NEW p \in Provisioners, schema_apply(p) PROVE ProvsStep
  <2>1. CASE prov[p].conn \in databases[prov[p].org]
    <3>1. prov[p].pc = "schema" /\ Goto(p, "blob")
      BY <1>11, <2>1 DEF schema_apply, At
    <3> QED
      BY <1>11, <2>1, <3>1, GotoGoesOn DEF ProvEffect
  <2> QED
    BY <1>11, <2>1, EndRests DEF schema_apply
<1>12. ASSUME NEW p \in Provisioners, set_tenant_blob(p) PROVE ProvsStep
  <2>1. prov[p].pc = "blob" /\ Goto(p, "activate")
    BY <1>12 DEF set_tenant_blob, At
  <2> QED
    BY <1>12, <2>1, GotoGoesOn DEF ProvEffect
<1>13. ASSUME NEW p \in Provisioners, set_tenant_active(p) PROVE ProvsStep
  <2>1. CASE p = "signup"
    <3>1. prov[p].pc = "activate" /\ Goto(p, "invalidate")
      BY <1>13, <2>1 DEF set_tenant_active, At
    <3> QED
      BY <3>1, GotoGoesOn DEF ProvEffect
  <2> QED
    BY <1>13, <2>1, EndRests DEF set_tenant_active
<1>14. ASSUME NEW p \in Provisioners, invalidate(p) \/ provision_failed(p) PROVE ProvsStep
  BY <1>14, EndRests DEF invalidate, provision_failed
<1> QED
  BY <1>2, <1>3, <1>4, <1>5, <1>6, <1>7, <1>8, <1>9, <1>10, <1>11, <1>12, <1>13, <1>14,
     ProvCases

-----------------------------------------------------------------------------
(* The server's memory. *)

\* An entry put into a map.
LEMMA PutMap ==
    ASSUME NEW f, NEW T, Map(f, T), NEW o \in Orgs, NEW e \in T
    PROVE  /\ Map(Put(f, o, e), T) /\ DOMAIN Put(f, o, e) = DOMAIN f \cup {o}
           /\ Put(f, o, e)[o] = e /\ \A k \in DOMAIN f : k # o => Put(f, o, e)[k] = f[k]
<1>1. DOMAIN Put(f, o, e) = DOMAIN f \cup {o}
  BY DEF Put
<1>2. IsFiniteSet(DOMAIN f \cup {o})
  BY FS_AddElement DEF Map
<1>3. Put(f, o, e)[o] = e /\ \A k \in DOMAIN f : k # o => Put(f, o, e)[k] = f[k]
  BY DEF Put
<1>4. \A k \in DOMAIN f \cup {o} : Put(f, o, e)[k] \in T
  BY DEF Put, Map
<1> QED
  BY <1>1, <1>2, <1>3, <1>4 DEF Map

\* A map with some entries left out.
LEMMA RestrictMap ==
    ASSUME NEW f, NEW T, Map(f, T), NEW S, S \subseteq DOMAIN f
    PROVE  /\ Map(Restrict(f, S), T) /\ DOMAIN Restrict(f, S) = S
           /\ \A k \in S : Restrict(f, S)[k] = f[k]
           /\ Cardinality(S) \in Nat /\ Cardinality(DOMAIN f) \in Nat
           /\ Cardinality(S) <= Cardinality(DOMAIN f)
<1>1. DOMAIN Restrict(f, S) = S /\ \A k \in S : Restrict(f, S)[k] = f[k]
  BY DEF Restrict
<1>2. IsFiniteSet(DOMAIN f)
  BY DEF Map
<1>3. /\ IsFiniteSet(S) /\ Cardinality(S) <= Cardinality(DOMAIN f)
      /\ Cardinality(S) \in Nat /\ Cardinality(DOMAIN f) \in Nat
  BY <1>2, FS_Subset, FS_CardinalityType
<1> QED
  BY <1>1, <1>3 DEF Map

\* The cache with room for one more organization.
LEMMA BoundedMap ==
    ASSUME TypesOK, NEW o \in Orgs, NEW c \in Bounded(o)
    PROVE  /\ Map(c, Mapping) /\ DOMAIN c \subseteq DOMAIN cache
           /\ \A k \in DOMAIN c : c[k] = cache[k]
           /\ Cardinality(DOMAIN c \cup {o}) <= MAPPING_CACHE_MAX
<1> DEFINE kept == {k \in DOMAIN cache : Fresh(cache[k])}
<1>1. /\ Map(cache, Mapping) /\ Cardinality(DOMAIN cache) <= MAPPING_CACHE_MAX
      /\ MAPPING_CACHE_MAX \in Nat \ {0} /\ IsFiniteSet(DOMAIN cache)
      /\ Cardinality(DOMAIN cache) \in Nat
  BY TenancyAssumption, FS_CardinalityType DEF TypesOK, ProcessTypes, Map
<1>2. ASSUME NEW S, IsFiniteSet(S), Cardinality(S) < MAPPING_CACHE_MAX
      PROVE  Cardinality(S \cup {o}) <= MAPPING_CACHE_MAX
  <2>1. Cardinality(S) \in Nat
    BY <1>2, FS_CardinalityType
  <2>2. Cardinality(S \cup {o}) \in {Cardinality(S), Cardinality(S) + 1}
    BY <1>2, FS_AddElement
  <2> QED
    BY <1>1, <1>2, <2>1, <2>2
<1>3. CASE o \in DOMAIN cache
  <2>1. c = cache
    BY <1>3 DEF Bounded
  <2>2. DOMAIN cache \cup {o} = DOMAIN cache
    BY <1>3
  <2> QED
    BY <1>1, <2>1, <2>2
<1>4. CASE Cardinality(DOMAIN cache) < MAPPING_CACHE_MAX
  <2>1. c = cache
    BY <1>4 DEF Bounded
  <2> QED
    BY <1>1, <1>2, <1>4, <2>1
<1>5. CASE o \notin DOMAIN cache /\ ~(Cardinality(DOMAIN cache) < MAPPING_CACHE_MAX)
  <2>1. \/ Cardinality(kept) < MAPPING_CACHE_MAX /\ c = Restrict(cache, kept)
        \/ \E v \in kept : c = Restrict(cache, kept \ {v})
    BY <1>5 DEF Bounded
  <2>2. kept \subseteq DOMAIN cache
    OBVIOUS
  <2> HIDE DEF kept
  <2>3. /\ IsFiniteSet(kept) /\ Cardinality(kept) \in Nat
        /\ Cardinality(kept) <= MAPPING_CACHE_MAX
    BY <1>1, <2>2, FS_Subset, FS_CardinalityType
  <2>4. CASE Cardinality(kept) < MAPPING_CACHE_MAX /\ c = Restrict(cache, kept)
    <3>1. /\ Map(c, Mapping) /\ DOMAIN c = kept /\ \A k \in kept : c[k] = cache[k]
      BY <1>1, <2>2, <2>4, RestrictMap
    <3> QED
      BY <1>2, <2>2, <2>3, <2>4, <3>1
  <2>5. ASSUME NEW v \in kept, c = Restrict(cache, kept \ {v})
        PROVE  /\ Map(c, Mapping) /\ DOMAIN c \subseteq DOMAIN cache
               /\ \A k \in DOMAIN c : c[k] = cache[k]
               /\ Cardinality(DOMAIN c \cup {o}) <= MAPPING_CACHE_MAX
    <3>1. kept \ {v} \subseteq DOMAIN cache
      BY <2>2
    <3>2. /\ Map(c, Mapping) /\ DOMAIN c = kept \ {v} /\ \A k \in kept \ {v} : c[k] = cache[k]
      BY <1>1, <2>5, <3>1, RestrictMap
    <3>3. IsFiniteSet(kept \ {v}) /\ Cardinality(kept \ {v}) = Cardinality(kept) - 1
      BY <2>3, FS_RemoveElement
    <3>4. Cardinality(kept \ {v}) < MAPPING_CACHE_MAX
      BY <1>1, <2>3, <3>3
    <3> QED
      BY <1>2, <3>1, <3>2, <3>3, <3>4
  <2> QED
    BY <2>1, <2>4, <2>5
<1> QED
  BY <1>3, <1>4, <1>5

\* The pools after an eviction.
LEMMA EvictedMap ==
    ASSUME NEW f, Map(f, PoolType), NEW o, NEW m \in evict_locked(f, o),
           Cardinality(DOMAIN f) <= PoolCap + 1
    PROVE  Map(m, PoolType) /\ Cardinality(DOMAIN m) <= PoolCap
<1>1. /\ IsFiniteSet(DOMAIN f) /\ Cardinality(DOMAIN f) \in Nat /\ PoolCap \in Nat
  BY TenancyAssumption, FS_CardinalityType DEF Map
<1>2. CASE Cardinality(DOMAIN f) <= PoolCap
  BY <1>2 DEF evict_locked
<1>3. CASE ~(Cardinality(DOMAIN f) <= PoolCap)
  <2>1. PICK v \in DOMAIN f : m = Restrict(f, DOMAIN f \ {v})
    BY <1>3 DEF evict_locked
  <2>2. DOMAIN f \ {v} \subseteq DOMAIN f
    OBVIOUS
  <2>3. Map(m, PoolType) /\ DOMAIN m = DOMAIN f \ {v}
    BY <2>1, <2>2, RestrictMap
  <2>4. Cardinality(DOMAIN f \ {v}) = Cardinality(DOMAIN f) - 1
    BY <1>1, <2>1, FS_RemoveElement
  <2> QED
    BY <1>1, <2>3, <2>4
<1> QED
  BY <1>2, <1>3

\* What becomes of a request.
Stays(t) ==
    /\ task'[t].org = task[t].org /\ task'[t].at = task[t].at /\ task'[t].lag = task[t].lag
Hit(t) ==
    LET o == task'[t].org
    IN  /\ task'[t].pc = "pool" /\ o \in DOMAIN cache /\ Fresh(cache[o])
        /\ task'[t].at = now /\ task'[t].lag = cache[o].lag
TaskEffect(t) ==
    \/ task'[t] = task[t]
    \/ task'[t].pc \in {"idle", "read"}
    \/ Hit(t)
    \/ /\ task[t].pc = "read" /\ task'[t].pc = "insert" /\ task'[t].org = task[t].org
       /\ task'[t].at = now /\ Active(task[t].org)
    \/ /\ task[t].pc = "insert" /\ task'[t].pc = "pool" /\ task'[t].org = task[t].org
       /\ task'[t].at = now /\ task'[t].lag = now - task[t].at
    \/ /\ task[t].pc \in {"pool", "connect", "served"} /\ Stays(t)
       /\ task'[t].pc \in {"connect", "served", "writing"}
CacheEffect(o) ==
    \/ o \in DOMAIN cache /\ cache'[o] = cache[o]
    \/ \E t \in Tasks : /\ task[t].pc = "insert" /\ task[t].org = o
                        /\ cache'[o].at = now /\ cache'[o].lag = now - task[t].at

TasksStep ==
    /\ task' \in [Tasks -> TaskType]
    /\ \A t \in Tasks : task'[t].pc # "idle" => task'[t].org \in Orgs
    /\ \A t \in Tasks : TaskEffect(t)
CacheStep ==
    /\ Map(cache', Mapping) /\ Cardinality(DOMAIN cache') <= MAPPING_CACHE_MAX
    /\ \A o \in DOMAIN cache' : CacheEffect(o)
PoolsStep == Map(pools', PoolType) /\ Cardinality(DOMAIN pools') <= PoolCap

\* The empty map.
LEMMA EmptyMap ==
    ASSUME NEW f, f = << >>, NEW T
    PROVE  Map(f, T) /\ DOMAIN f = {} /\ Cardinality(DOMAIN f) = 0
<1>1. DOMAIN f = {}
  OBVIOUS
<1> QED
  BY <1>1, FS_EmptySet DEF Map

\* The caches after an invalidation.
LEMMA InvalidatedMaps ==
    ASSUME TypesOK, NEW o, Invalidated(o)
    PROVE  CacheStep /\ PoolsStep
<1>1. /\ Map(cache, Mapping) /\ Cardinality(DOMAIN cache) <= MAPPING_CACHE_MAX
      /\ Map(pools, PoolType) /\ Cardinality(DOMAIN pools) <= PoolCap
      /\ MAPPING_CACHE_MAX \in Nat /\ PoolCap \in Nat
  BY TenancyAssumption DEF TypesOK, ProcessTypes
<1>2. DOMAIN cache \ {o} \subseteq DOMAIN cache /\ DOMAIN pools \ {o} \subseteq DOMAIN pools
  OBVIOUS
<1>3. cache' = Restrict(cache, DOMAIN cache \ {o}) /\ pools' = Restrict(pools, DOMAIN pools \ {o})
  BY DEF Invalidated
<1>4. CacheStep
  BY <1>1, <1>2, <1>3, RestrictMap DEF CacheStep, CacheEffect
<1>5. PoolsStep
  BY <1>1, <1>2, <1>3, RestrictMap DEF PoolsStep
<1> QED
  BY <1>4, <1>5

\* One request moves.
LEMMA OneTask ==
    ASSUME TypesOK, NEW t \in Tasks, NEW new \in TaskType, task' = [task EXCEPT ![t] = new],
           new.pc # "idle" => new.org \in Orgs, TaskEffect(t)
    PROVE  TasksStep
<1>1. task \in [Tasks -> TaskType] /\ \A s \in Tasks : task[s].pc # "idle" => task[s].org \in Orgs
  BY DEF TypesOK, ProcessTypes
<1>2. task'[t] = new /\ task' \in [Tasks -> TaskType] /\ \A s \in Tasks \ {t} : task'[s] = task[s]
  BY <1>1
<1> QED
  BY <1>1, <1>2 DEF TasksStep, TaskEffect

\* A request that is done.
LEMMA IdleTask ==
    ASSUME TypesOK, NEW t \in Tasks, task' = [task EXCEPT ![t] = Idle]
    PROVE  TasksStep
<1>1. Idle \in TaskType /\ Idle.pc = "idle"
  BY DEF Idle, TaskType, Conns
<1>2. task'[t] = Idle
  BY DEF TypesOK, ProcessTypes
<1> QED
  BY <1>1, <1>2, OneTask DEF TaskEffect

\* A request that has a mapping goes on to its next call.
TaskOnward(t, pc, c) == task' = [task EXCEPT ![t].pc = pc, ![t].conn = c]

\* A request that goes on is well typed.
LEMMA TaskGoesOn ==
    ASSUME TypesOK, NEW t \in Tasks, task[t].pc \in {"pool", "connect", "served"},
           NEW pc \in {"connect", "served", "writing"}, NEW c \in Conns, TaskOnward(t, pc, c)
    PROVE  TasksStep
<1> DEFINE new == [task[t] EXCEPT !.pc = pc, !.conn = c]
<1>1. task \in [Tasks -> TaskType] /\ task[t] \in TaskType /\ task[t].org \in Orgs
  BY DEF TypesOK, ProcessTypes
<1>2. /\ new \in TaskType /\ new.pc = pc /\ new.org = task[t].org /\ new.at = task[t].at
      /\ new.lag = task[t].lag
  BY <1>1 DEF TaskType
<1>3. task' = [task EXCEPT ![t] = new]
  BY <1>1 DEF TaskOnward
<1> HIDE DEF new
<1>4. task'[t] = new
  BY <1>1, <1>3
<1>5. TaskEffect(t)
  BY <1>2, <1>4 DEF TaskEffect, Stays
<1> QED
  BY <1>1, <1>2, <1>3, <1>5, OneTask

\* A request that only moves to its next call goes on.
LEMMA TaskStepsOn ==
    ASSUME TypesOK, NEW t \in Tasks, task[t].pc \in {"pool", "connect", "served"},
           NEW pc \in {"connect", "served", "writing"}, Step(t, pc)
    PROVE  TasksStep
<1>1. task \in [Tasks -> TaskType] /\ task[t] \in TaskType
  BY DEF TypesOK, ProcessTypes
<1>2. task[t].conn \in Conns
  BY <1>1 DEF TaskType
<1>3. [task[t] EXCEPT !.pc = pc] = [task[t] EXCEPT !.pc = pc, !.conn = task[t].conn]
  BY <1>1 DEF TaskType
<1>4. TaskOnward(t, pc, task[t].conn)
  BY <1>1, <1>3 DEF Step, TaskOnward
<1> QED
  BY <1>2, <1>4, TaskGoesOn

\* The pool of an organization is used: connected to whatever it is.
LEMMA TouchEffect ==
    ASSUME TypesOK, NEW t \in Tasks, task[t].pc \in {"pool", "connect"},
           task[t].org \in DOMAIN pools, Touch(t)
    PROVE  TasksStep /\ PoolsStep
<1> DEFINE o == task[t].org
           new == [pools[o] EXCEPT !.used = now]
<1>1. /\ Map(pools, PoolType) /\ Cardinality(DOMAIN pools) <= PoolCap /\ now \in Nat
      /\ pools[o] \in PoolType
  BY DEF TypesOK, ProcessTypes, RegistryTypes, Map
<1>2. new \in PoolType /\ pools[o].conn \in Conns
  BY <1>1 DEF PoolType
<1>3. /\ pools' = [pools EXCEPT ![o] = new] /\ TaskOnward(t, "served", pools[o].conn)
  BY DEF Touch, TaskOnward
<1>4. TasksStep
  BY <1>2, <1>3, TaskGoesOn
<1> HIDE DEF new
<1>5. DOMAIN pools' = DOMAIN pools /\ \A k \in DOMAIN pools : pools'[k] \in {new, pools[k]}
  BY <1>3
<1>6. PoolsStep
  BY <1>1, <1>2, <1>5 DEF PoolsStep, Map
<1> QED
  BY <1>4, <1>6

\* What each step makes of the caches and the requests.
LEMMA MemoryStep ==
    ASSUME TypesOK, Steps
    PROVE  TasksStep /\ CacheStep /\ PoolsStep
<1>1. /\ Map(cache, Mapping) /\ Cardinality(DOMAIN cache) <= MAPPING_CACHE_MAX
      /\ Map(pools, PoolType) /\ Cardinality(DOMAIN pools) <= PoolCap
      /\ MAPPING_CACHE_MAX \in Nat \ {0} /\ PoolCap \in Nat \ {0}
      /\ task \in [Tasks -> TaskType] /\ now \in Nat
      /\ \A t \in Tasks : task[t].pc # "idle" => task[t].org \in Orgs
      /\ tenants \in [Orgs -> RowType \cup {NoRow}] /\ provider \in {"local", "neon"}
  BY TenancyAssumption DEF TypesOK, ProcessTypes, RegistryTypes
<1>2. ASSUME task' = task PROVE TasksStep
  BY <1>1, <1>2 DEF TasksStep, TaskEffect
<1>3. ASSUME cache' = cache PROVE CacheStep
  BY <1>1, <1>3 DEF CacheStep, CacheEffect
<1>4. ASSUME pools' = pools PROVE PoolsStep
  BY <1>1, <1>4 DEF PoolsStep
<1>5. ASSUME NEW t \in Tasks, NEW o \in Orgs, resolve(t, o)
      PROVE  TasksStep /\ CacheStep /\ PoolsStep
  <2>1. CacheStep /\ PoolsStep
    BY <1>3, <1>4, <1>5 DEF resolve
  <2>2. CASE o \in DOMAIN cache /\ Fresh(cache[o])
    <3> DEFINE new == [pc |-> "pool", org |-> o, conn |-> cache[o].conn,
                       scope |-> cache[o].scope, at |-> now, lag |-> cache[o].lag]
    <3>1. cache[o] \in Mapping
      BY <1>1, <2>2 DEF Map
    <3>2. cache[o].conn \in Conns /\ cache[o].scope \in BOOLEAN /\ cache[o].lag \in Int
      BY <3>1 DEF Mapping
    <3>3. new \in TaskType
      BY <1>1, <3>2 DEF TaskType
    <3>4. new.pc = "pool" /\ new.org = o /\ new.at = now /\ new.lag = cache[o].lag
      OBVIOUS
    <3>5. task' = [task EXCEPT ![t] = new]
      BY <1>5, <2>2 DEF resolve
    <3> HIDE DEF new
    <3>6. task'[t] = new
      BY <1>1, <3>5
    <3>7. TaskEffect(t)
      BY <2>2, <3>4, <3>6 DEF TaskEffect, Hit
    <3> QED
      BY <2>1, <3>3, <3>4, <3>5, <3>7, OneTask
  <2>3. CASE ~(o \in DOMAIN cache /\ Fresh(cache[o]))
    <3> DEFINE new == [Idle EXCEPT !.pc = "read", !.org = o]
    <3> Idle \in TaskType
      BY DEF Idle, TaskType, Conns
    <3>1. new \in TaskType /\ new.pc = "read" /\ new.org = o
      BY DEF TaskType
    <3>2. task' = [task EXCEPT ![t] = new]
      BY <1>5, <2>3 DEF resolve
    <3> HIDE DEF new
    <3>3. task'[t] = new
      BY <1>1, <3>2
    <3> QED
      BY <2>1, <3>1, <3>2, <3>3, OneTask DEF TaskEffect
  <2> QED
    BY <2>2, <2>3
<1>6. ASSUME NEW t \in Tasks, control_tenant(t) PROVE TasksStep /\ CacheStep /\ PoolsStep
  <2> DEFINE o == task[t].org
  <2>1. CacheStep /\ PoolsStep /\ task[t].pc = "read" /\ o \in Orgs
    BY <1>1, <1>3, <1>4, <1>6 DEF control_tenant, On
  <2>2. CASE Active(o) /\ conn_of(o) # NoConn
    <3> DEFINE new == [task[t] EXCEPT !.pc = "insert", !.conn = conn_of(o),
                                      !.scope = tenants[o].scope, !.at = now]
    <3>1. tenants[o] \in RowType
      BY <1>1, <2>1, <2>2 DEF Active, Row
    <3>2. conn_of(o) \in Conns /\ tenants[o].scope \in BOOLEAN
      BY <3>1 DEF conn_of, RowType, Conns
    <3>3. task[t] \in TaskType
      BY <1>1
    <3>4. new \in TaskType
      BY <1>1, <3>2, <3>3 DEF TaskType
    <3>5. new.pc = "insert" /\ new.org = o /\ new.at = now
      BY <3>3 DEF TaskType
    <3>6. task' = [task EXCEPT ![t] = new]
      BY <1>1, <1>6, <2>2 DEF control_tenant
    <3> HIDE DEF new
    <3>7. task'[t] = new
      BY <1>1, <3>6
    <3>8. TaskEffect(t)
      BY <2>1, <2>2, <3>5, <3>7 DEF TaskEffect
    <3> QED
      BY <2>1, <3>4, <3>5, <3>6, <3>8, OneTask
  <2>3. CASE ~(Active(o) /\ conn_of(o) # NoConn)
    <3>1. task' = [task EXCEPT ![t] = Idle]
      BY <1>1, <1>6, <2>3 DEF control_tenant
    <3> QED
      BY <2>1, <3>1, IdleTask
  <2> QED
    BY <2>2, <2>3
<1>7. ASSUME NEW t \in Tasks, insert_mapping(t) PROVE TasksStep /\ CacheStep /\ PoolsStep
  <2> DEFINE o == task[t].org
             m == [conn |-> task[t].conn, scope |-> task[t].scope, at |-> now,
                   lag |-> now - task[t].at]
             new == [task[t] EXCEPT !.pc = "pool", !.at = now, !.lag = now - task[t].at]
  <2>1. PoolsStep /\ task[t].pc = "insert" /\ o \in Orgs /\ task[t] \in TaskType
    BY <1>1, <1>4, <1>7 DEF insert_mapping, On
  <2>2. /\ task[t].conn \in Conns /\ task[t].scope \in BOOLEAN /\ task[t].at \in Nat
        /\ now - task[t].at \in Int
    BY <1>1, <2>1 DEF TaskType
  <2>3. m \in Mapping
    BY <1>1, <2>2 DEF Mapping
  <2>4. m.at = now /\ m.lag = now - task[t].at
    OBVIOUS
  <2>5. PICK c \in Bounded(o) : cache' = Put(c, o, m)
    BY <1>7 DEF insert_mapping
  <2>6. task' = [task EXCEPT ![t] = new]
    BY <1>1, <1>7 DEF insert_mapping
  <2>7. new \in TaskType /\ new.pc = "pool" /\ new.org = o /\ new.at = now
        /\ new.lag = now - task[t].at
    BY <1>1, <2>1, <2>2 DEF TaskType
  <2> HIDE DEF m, new
  <2>8. TasksStep
    <3>1. task'[t] = new
      BY <1>1, <2>6
    <3>2. TaskEffect(t)
      BY <2>1, <2>7, <3>1 DEF TaskEffect
    <3> QED
      BY <2>1, <2>6, <2>7, <3>2, OneTask
  <2>9. CacheStep
    <3>1. /\ Map(c, Mapping) /\ DOMAIN c \subseteq DOMAIN cache
          /\ \A k \in DOMAIN c : c[k] = cache[k]
          /\ Cardinality(DOMAIN c \cup {o}) <= MAPPING_CACHE_MAX
      BY <2>1, BoundedMap
    <3>2. /\ Map(cache', Mapping) /\ DOMAIN cache' = DOMAIN c \cup {o}
          /\ cache'[o] = m /\ \A k \in DOMAIN c : k # o => cache'[k] = c[k]
      BY <2>1, <2>3, <2>5, <3>1, PutMap
    <3>3. \A k \in DOMAIN cache' : CacheEffect(k)
      BY <2>1, <2>4, <3>1, <3>2 DEF CacheEffect
    <3> QED
      BY <3>1, <3>2, <3>3 DEF CacheStep
  <2> QED
    BY <2>1, <2>8, <2>9
<1>8. ASSUME NEW t \in Tasks, pools_get(t) PROVE TasksStep /\ CacheStep /\ PoolsStep
  <2>1. CacheStep /\ task[t].pc = "pool"
    BY <1>3, <1>8 DEF pools_get, On
  <2>2. CASE task[t].org \in DOMAIN pools
    BY <1>8, <2>1, <2>2, TouchEffect DEF pools_get
  <2>3. CASE task[t].org \notin DOMAIN pools
    BY <1>4, <1>8, <2>1, <2>3, TaskStepsOn DEF pools_get
  <2> QED
    BY <2>2, <2>3
<1>9. ASSUME NEW t \in Tasks, pools_insert(t) PROVE TasksStep /\ CacheStep /\ PoolsStep
  <2> DEFINE o == task[t].org
             e == [conn |-> task[t].conn, used |-> now]
  <2>1. CacheStep /\ task[t].pc = "connect" /\ o \in Orgs /\ task[t] \in TaskType
    BY <1>1, <1>3, <1>9 DEF pools_insert, On
  <2>2. CASE task[t].conn \notin databases[o]
    BY <1>4, <1>9, <2>1, <2>2, IdleTask DEF pools_insert
  <2>3. CASE task[t].conn \in databases[o] /\ o \in DOMAIN pools
    BY <1>9, <2>1, <2>3, TouchEffect DEF pools_insert
  <2>4. CASE task[t].conn \in databases[o] /\ o \notin DOMAIN pools
    <3>1. pools' \in evict_locked(Put(pools, o, e), o) /\ Step(t, "served")
      BY <1>9, <2>4 DEF pools_insert
    <3>2. e \in PoolType
      BY <1>1, <2>1 DEF TaskType, PoolType
    <3> HIDE DEF e
    <3>3. Map(Put(pools, o, e), PoolType) /\ DOMAIN Put(pools, o, e) = DOMAIN pools \cup {o}
      <4> HIDE DEF o
      <4>1. Map(pools, PoolType) /\ o \in Orgs
        BY <1>1, <2>1
      <4> QED
        BY <3>2, <4>1, PutMap, Zenon
    <3>4. Cardinality(DOMAIN pools \cup {o}) <= PoolCap + 1
      <4>1. IsFiniteSet(DOMAIN pools)
        BY <1>1 DEF Map
      <4>2. Cardinality(DOMAIN pools) \in Nat
        BY <4>1, FS_CardinalityType
      <4>3. Cardinality(DOMAIN pools \cup {o}) = Cardinality(DOMAIN pools) + 1
        BY <2>4, <4>1, FS_AddElement
      <4> QED
        BY <1>1, <4>2, <4>3
    <3>5. PoolsStep
      BY <3>1, <3>3, <3>4, EvictedMap DEF PoolsStep
    <3> QED
      BY <2>1, <3>1, <3>5, TaskStepsOn
  <2> QED
    BY <2>2, <2>3, <2>4
<1>10. ASSUME NEW t \in Tasks, use_store(t) PROVE TasksStep /\ CacheStep /\ PoolsStep
  BY <1>3, <1>4, <1>10, TaskStepsOn, IdleTask DEF use_store, On
<1>11. ASSUME NEW t \in Tasks, put_object(t) PROVE TasksStep /\ CacheStep /\ PoolsStep
  BY <1>3, <1>4, <1>11, IdleTask DEF put_object
<1>12. CASE sweep_idle
  <2> DEFINE S == {o \in DOMAIN pools : now - pools[o].used <= PoolIdle}
  <2>1. S \subseteq DOMAIN pools /\ pools' = Restrict(pools, S) /\ UNCHANGED <<cache, task>>
    BY <1>12 DEF sweep_idle
  <2> HIDE DEF S
  <2>2. PoolsStep
    BY <1>1, <2>1, RestrictMap DEF PoolsStep
  <2> QED
    BY <1>2, <1>3, <2>1, <2>2
<1>13. CASE restart
  <2>1. cache' = << >> /\ pools' = << >> /\ task' = [t \in Tasks |-> Idle]
    BY <1>13 DEF restart
  <2>2. Idle \in TaskType /\ Idle.pc = "idle"
    BY DEF Idle, TaskType, Conns
  <2>3. TasksStep
    BY <2>1, <2>2 DEF TasksStep, TaskEffect
  <2>4. /\ Map(cache', Mapping) /\ DOMAIN cache' = {} /\ Cardinality(DOMAIN cache') = 0
        /\ Map(pools', PoolType) /\ Cardinality(DOMAIN pools') = 0
    BY <2>1, EmptyMap
  <2> QED
    BY <1>1, <2>3, <2>4 DEF CacheStep, PoolsStep
<1>14. ASSUME NEW p \in Provisioners, invalidate(p) PROVE TasksStep /\ CacheStep /\ PoolsStep
  BY <1>2, <1>14, InvalidatedMaps DEF invalidate
<1>15. CASE offboard_invalidate
  BY <1>2, <1>15, InvalidatedMaps DEF offboard_invalidate
<1> QED
  BY <1>2, <1>3, <1>4, <1>5, <1>6, <1>7, <1>8, <1>9, <1>10, <1>11, <1>12, <1>13, <1>14,
     <1>15, ProcessCases

-----------------------------------------------------------------------------
(* Types, and what has been met. *)

\* What each step makes of suspensions, deletions and counters.
LEMMA ActorsStep ==
    ASSUME TypesOK, Steps, ProvsStep
    PROVE  ActorTypes'
<1>1. cli \in CmdType /\ off \in OffType /\ (cli.pc = "write" => cli.org \in Orgs)
      /\ (off.org = NoRow <=> off.pc = "idle") /\ (off.pc = "invalidate" => off.by = "http")
  BY DEF TypesOK, ActorTypes
<1>2. cli' \in CmdType /\ (cli'.pc = "write" => cli'.org \in Orgs)
  <2>1. NoCmd \in CmdType /\ NoCmd.pc = "idle"
    BY DEF NoCmd, CmdType
  <2>2. ASSUME NEW o \in Orgs, NEW to \in {"active", "suspended"}, run_set_tenant_status(o, to)
        PROVE  cli' \in CmdType /\ (cli'.pc = "write" => cli'.org \in Orgs)
    BY <2>2 DEF run_set_tenant_status, CmdType
  <2>3. \/ cli' = cli \/ cli' = NoCmd
        \/ \E o \in Orgs, to \in {"active", "suspended"} : run_set_tenant_status(o, to)
    BY DEF Steps, vars, create_org, run_tenant_migrations, reconcile, offboard_data,
           run_offboard, provisioning_tenants, begin_provisioning, provider_find,
           provider_create, schema_apply, set_tenant_conn, set_tenant_blob,
           set_tenant_active, invalidate, provision_failed, control_tenant, insert_mapping,
           pools_get, pools_insert, use_store, put_object, resolve, sweep_idle,
           set_tenant_status, delete_scope, delete_scope_failed, deprovision,
           deprovision_failed, offboard_invalidate, delete_org, delete_org_failed, restart, tick
  <2> QED
    BY <1>1, <2>1, <2>2, <2>3
<1> DEFINE OffOK == /\ off' \in OffType /\ (off'.org = NoRow <=> off'.pc = "idle")
                    /\ off'.pc = "invalidate" => off'.by = "http"
<1>3. OffOK
  <2>1. NoOff \in OffType /\ NoOff.pc = "idle" /\ NoOff.org = NoRow
    BY DEF NoOff, OffType
  <2>2. ASSUME NEW pc \in {"scope", "drop", "invalidate", "delete"}, off.pc # "idle",
               pc = "invalidate" => off.by = "http", OffGoto(pc)
        PROVE  OffOK
    BY <1>1, <2>2 DEF OffGoto, OffType
  <2>3. ASSUME NEW o \in Orgs, offboard_data(o) \/ run_offboard(o) PROVE OffOK
    BY <2>3, Distinct DEF offboard_data, run_offboard, OffType
  <2>4. CASE delete_scope \/ delete_scope_failed
    BY <2>1, <2>2, <2>4 DEF delete_scope, delete_scope_failed
  <2>5. CASE deprovision \/ deprovision_failed
    BY <2>1, <2>2, <2>5 DEF deprovision, deprovision_failed
  <2>6. CASE offboard_invalidate \/ delete_org \/ delete_org_failed \/ restart
    BY <1>1, <2>1, <2>2, <2>6 DEF offboard_invalidate, delete_org, delete_org_failed, restart
  <2> QED
    BY <1>1, <2>3, <2>4, <2>5, <2>6, OffCases
<1> QED
  BY <1>2, <1>3 DEF ActorTypes, ProvsStep

\* Every step preserves the types, and the caps of the caches.
LEMMA TypesStep ==
    ASSUME TypesOK, Steps, OrgsStep, DatabasesStep, ProvsStep, TasksStep, CacheStep, PoolsStep
    PROVE  TypesOK'
<1>1. RegistryTypes'
  BY Monotone DEF TypesOK, RegistryTypes, OrgsStep
<1>2. PlaneTypes'
  BY DEF DatabasesStep
<1>3. ProcessTypes'
  BY DEF ProcessTypes, TasksStep, CacheStep, PoolsStep, Map
<1> QED
  BY <1>1, <1>2, <1>3, ActorsStep DEF TypesOK

\* Every step acts on organizations that have or had a row.
LEMMA MetStep ==
    ASSUME TypesOK, RowsAreLive, Met, Steps, OrgsStep, ProvsStep, TasksStep, CacheStep
    PROVE  Met'
<1>1. \A o \in Orgs : /\ RowOrGone(o) => StillMet(o)
                      /\ orgs[o] # "none" => orgs'[o] # "none"
                      /\ StillMet(o) => orgs'[o] # "none"
  BY MetForGood
<1>2. /\ \A p \in Provisioners : prov[p].todo \subseteq Orgs
      /\ \A p \in Provisioners : prov[p].pc \notin {"idle", "list"} => prov[p].org \in Orgs
      /\ \A t \in Tasks : task[t].pc # "idle" => task[t].org \in Orgs
      /\ DOMAIN cache \subseteq Orgs
  BY DEF TypesOK, ActorTypes, ProvType, ProcessTypes, Map
<1>3. ASSUME NEW p \in Provisioners
      PROVE  /\ prov'[p].pc \notin {"idle", "list"} => orgs'[prov'[p].org] # "none"
             /\ prov'[p].pc \notin {"idle", "list", "begin"} => StillMet(prov'[p].org)
             /\ \A o \in prov'[p].todo : StillMet(o)
  <2>1. ProvEffect(p)
    BY DEF ProvsStep
  <2>2. CASE prov'[p] = prov[p]
    BY <1>1, <1>2, <2>2 DEF Met
  <2>3. CASE Rests(p)
    <3>1. \A o \in prov'[p].todo : o \in Orgs
      BY DEF ProvsStep, ProvType
    <3> QED
      BY <1>1, <2>3, <3>1 DEF Rests, Met, RowOrGone
  <2>4. CASE Begins(p)
    BY <1>1, <1>2, <2>4 DEF Begins, Met
  <2>5. CASE Goes(p, "begin", "find") /\ tenants'[prov[p].org] # NoRow
    BY <1>1, <1>2, <2>5 DEF Goes, StillMet, Met
  <2>6. ASSUME NEW a \in {"find", "create", "conn", "schema", "blob", "activate"}, NEW b,
               Goes(p, a, b)
        PROVE  /\ orgs'[prov'[p].org] # "none" /\ StillMet(prov'[p].org)
               /\ \A o \in prov'[p].todo : StillMet(o)
    BY <1>1, <1>2, <2>6 DEF Goes, Met
  <2> QED
    BY <2>1, <2>2, <2>3, <2>4, <2>5, <2>6 DEF ProvEffect
<1>4. ASSUME NEW o \in DOMAIN cache' PROVE StillMet(o)
  <2>1. CacheEffect(o)
    BY DEF CacheStep
  <2> QED
    BY <1>1, <1>2, <2>1 DEF CacheEffect, Met
<1>5. ASSUME NEW t \in Tasks, task'[t].pc \notin {"idle", "read"}
      PROVE  StillMet(task'[t].org)
  <2>1. TaskEffect(t)
    BY DEF TasksStep
  <2>2. CASE Hit(t)
    BY <1>1, <1>2, <2>2 DEF Hit, Met
  <2>3. CASE Active(task[t].org) /\ task[t].pc = "read" /\ task'[t].org = task[t].org
    BY <1>1, <1>2, <2>3 DEF Active, RowOrGone
  <2>4. CASE task[t].pc \notin {"idle", "read"} /\ task'[t].org = task[t].org
    BY <1>1, <1>2, <2>4 DEF Met
  <2> QED
    BY <1>5, <2>1, <2>2, <2>3, <2>4 DEF TaskEffect, Stays
<1>6. ASSUME NEW o \in objects' PROVE o \in Orgs /\ StillMet(o)
  <2>1. CASE o \in objects
    BY <1>1, <2>1 DEF Met
  <2>2. ASSUME NEW t \in Tasks, put_object(t), o = task[t].org PROVE o \in Orgs /\ StillMet(o)
    BY <1>1, <1>2, <2>2 DEF put_object, On, Met
  <2> QED
    BY <1>6, <2>1, <2>2, ObjectCases DEF put_object, delete_scope
<1> QED
  BY <1>3, <1>4, <1>5, <1>6 DEF Met, RowOrGone, Row, StillMet

\* A mapping in use or in the cache was read when the organization was active.
LEMMA RecentStep ==
    ASSUME TypesOK, MappingsAreRecent, Steps, OrgsStep, TasksStep, CacheStep
    PROVE  MappingsAreRecent'
<1>1. \A o \in Orgs, x \in Int : Recent(o, x) => StillRecent(o, x)
  BY RecentForGood
<1>2. /\ \A t \in Tasks : task[t].pc # "idle" => task[t].org \in Orgs
      /\ \A t \in Tasks : task[t].at \in Nat /\ task[t].lag \in Int
      /\ DOMAIN cache \subseteq Orgs
      /\ \A o \in DOMAIN cache : cache[o].at \in Nat /\ cache[o].lag \in Int
      /\ MAPPING_TTL \in Nat \ {0} /\ now \in Nat
      /\ \A o \in Orgs : left[o] \in Nat
  BY TenancyAssumption DEF TypesOK, ProcessTypes, RegistryTypes, Map, TaskType, Mapping
<1>3. \A o \in Orgs, x \in Int, y \in Int : Recent(o, x) /\ y <= x => Recent(o, y)
  BY <1>2 DEF Recent
<1>4. ASSUME NEW o \in DOMAIN cache'
      PROVE  StillRecent(o, cache'[o].at - cache'[o].lag)
  <2>1. CASE o \in DOMAIN cache /\ cache'[o] = cache[o]
    <3>1. o \in Orgs /\ cache[o].at - cache[o].lag \in Int
      BY <1>2, <2>1
    <3>2. Recent(o, cache[o].at - cache[o].lag)
      BY <2>1 DEF MappingsAreRecent
    <3> QED
      BY <1>1, <2>1, <3>1, <3>2
  <2>2. ASSUME NEW t \in Tasks, task[t].pc = "insert", task[t].org = o, cache'[o].at = now,
               cache'[o].lag = now - task[t].at
        PROVE  StillRecent(o, cache'[o].at - cache'[o].lag)
    <3>1. cache'[o].at - cache'[o].lag = task[t].at
      BY <1>2, <2>2
    <3>2. o \in Orgs /\ task[t].at \in Int /\ Recent(o, task[t].at)
      BY <1>2, <2>2 DEF MappingsAreRecent
    <3> QED
      BY <1>1, <3>1, <3>2
  <2> QED
    BY <2>1, <2>2 DEF CacheStep, CacheEffect
<1>5. ASSUME NEW t \in Tasks
      PROVE  /\ task'[t].pc = "insert" => StillRecent(task'[t].org, task'[t].at)
             /\ task'[t].pc \in {"pool", "connect", "served", "writing"} =>
                   StillRecent(task'[t].org, task'[t].at - task'[t].lag - (MAPPING_TTL - 1))
  <2> DEFINE o == task[t].org
             x == task[t].at - task[t].lag - (MAPPING_TTL - 1)
  <2>1. x \in Int /\ task[t].at \in Int
    BY <1>2
  <2>2. CASE task'[t] = task[t]
    <3>1. ASSUME task[t].pc = "insert" PROVE StillRecent(o, task[t].at)
      BY <1>1, <1>2, <2>1, <3>1 DEF MappingsAreRecent
    <3>2. ASSUME task[t].pc \in {"pool", "connect", "served", "writing"}
          PROVE  StillRecent(o, x)
      <4>1. Recent(o, x) /\ o \in Orgs
        BY <1>2, <3>2 DEF MappingsAreRecent
      <4> QED
        BY <1>1, <2>1, <4>1
    <3> QED
      BY <2>2, <3>1, <3>2
  <2>3. CASE Hit(t)
    <3> DEFINE q == task'[t].org
               y == now - cache[q].lag - (MAPPING_TTL - 1)
               z == cache[q].at - cache[q].lag
    <3>1. /\ q \in DOMAIN cache /\ q \in Orgs /\ now - cache[q].at < MAPPING_TTL
          /\ task'[t].pc = "pool" /\ task'[t].at = now /\ task'[t].lag = cache[q].lag
      BY <1>2, <2>3 DEF Hit, Fresh
    <3>2. y \in Int /\ z \in Int /\ y <= z
      BY <1>2, <3>1
    <3>3. Recent(q, z)
      BY <3>1 DEF MappingsAreRecent
    <3>4. task'[t].at - task'[t].lag - (MAPPING_TTL - 1) = y
      BY <3>1
    <3> HIDE DEF y, z, q
    <3>5. StillRecent(q, y)
      BY <1>1, <1>3, <3>1, <3>2, <3>3
    <3> QED
      BY <3>1, <3>4, <3>5 DEF q
  <2>4. CASE /\ task[t].pc = "read" /\ task'[t].pc = "insert" /\ task'[t].org = o
             /\ task'[t].at = now /\ Active(o)
    <3>1. Recent(o, now) /\ o \in Orgs /\ now \in Int
      BY <1>2, <2>4 DEF Recent
    <3> QED
      BY <1>1, <2>4, <3>1
  <2>5. CASE /\ task[t].pc = "insert" /\ task'[t].pc = "pool" /\ task'[t].org = o
             /\ task'[t].at = now /\ task'[t].lag = now - task[t].at
    <3> DEFINE y == task'[t].at - task'[t].lag - (MAPPING_TTL - 1)
    <3>1. y \in Int /\ y <= task[t].at
      BY <1>2, <2>5
    <3>2. Recent(o, task[t].at) /\ o \in Orgs
      BY <1>2, <2>5 DEF MappingsAreRecent
    <3> HIDE DEF y
    <3>3. StillRecent(o, y)
      BY <1>1, <1>3, <2>1, <3>1, <3>2
    <3> QED
      BY <2>5, <3>3 DEF y
  <2>6. CASE /\ task[t].pc \in {"pool", "connect", "served"} /\ Stays(t)
             /\ task'[t].pc \in {"connect", "served", "writing"}
    <3>1. Recent(o, x) /\ o \in Orgs
      BY <1>2, <2>6 DEF MappingsAreRecent
    <3>2. StillRecent(o, x)
      BY <1>1, <2>1, <3>1
    <3> QED
      BY <2>6, <3>2 DEF Stays
  <2>7. TaskEffect(t)
    BY DEF TasksStep
  <2> QED
    BY <2>2, <2>3, <2>4, <2>5, <2>6, <2>7 DEF TaskEffect
<1> QED
  BY <1>4, <1>5 DEF MappingsAreRecent, Recent, StillRecent, Active, Row

-----------------------------------------------------------------------------
(* Provisioning is in order. *)

GivenNext(o) ==
    IF made'[o] = 0 THEN {} ELSE IF provider = "local" THEN {0} ELSE 1 .. made'[o]

\* Connection strings that were given out are not taken back.
LEMMA GivenGrows ==
    ASSUME TypesOK, ConnsAreGiven, DatabasesStep
    PROVE  \A o \in Orgs : /\ Given(o) \subseteq GivenNext(o)
                           /\ databases'[o] \subseteq GivenNext(o)
                           /\ ready'[o] \subseteq databases'[o]
<1> TAKE o \in Orgs
<1>1. /\ made[o] \in Nat /\ ready[o] \subseteq databases[o] /\ databases[o] \subseteq Given(o)
      /\ databases[o] \subseteq Nat
  BY DEF TypesOK, PlaneTypes, ConnsAreGiven
<1>2. CASE PlaneKept(o) \/ Filled(o) \/ DroppedOne(o)
  <2>1. GivenNext(o) = Given(o)
    BY <1>2 DEF PlaneKept, Filled, DroppedOne, Given, GivenNext
  <2>2. databases'[o] \subseteq databases[o] /\ ready'[o] \subseteq databases'[o]
    BY <1>1, <1>2 DEF PlaneKept, Filled, DroppedOne
  <2> QED
    BY <1>1, <2>1, <2>2
<1>3. CASE MadeOne(o)
  <2> DEFINE c == NewConn(o)
  <2>1. /\ databases'[o] = databases[o] \cup {c} /\ ready'[o] = ready[o]
        /\ made'[o] = IF c \in databases[o] THEN made[o] ELSE made[o] + 1
    BY <1>3 DEF MadeOne
  <2>2. Given(o) \subseteq GivenNext(o) /\ c \in GivenNext(o)
    BY <1>1, <2>1 DEF Given, GivenNext, NewConn
  <2> QED
    BY <1>1, <2>1, <2>2
<1> QED
  BY <1>2, <1>3 DEF DatabasesStep, PlaneEffect

\* Rows and provisioners hold connection strings of their own organization.
LEMMA GivenStep ==
    ASSUME TypesOK, Met, ConnsAreGiven, Steps, OrgsStep, DatabasesStep, ProvsStep
    PROVE  ConnsAreGiven'
<1>1. \A o \in Orgs : /\ Given(o) \subseteq GivenNext(o)
                      /\ databases'[o] \subseteq GivenNext(o)
                      /\ ready'[o] \subseteq databases'[o]
  BY GivenGrows
<1>2. \A p \in Provisioners : prov[p].pc \notin {"idle", "list"} => prov[p].org \in Orgs
  BY DEF TypesOK, ActorTypes, ProvType
<1>3. ASSUME NEW o \in Orgs, tenants'[o] # NoRow
      PROVE  tenants'[o].conn \in GivenNext(o) \cup {NoConn}
  <2>1. Kept(o) \/ Born(o) \/ Gone(o) \/ Written(o)
    BY DEF OrgsStep, OrgEffect
  <2>2. ASSUME NEW p \in Provisioners, Connected(o, p)
        PROVE  tenants'[o].conn \in Given(o)
    BY <2>2 DEF Connected, By, At, ConnsAreGiven
  <2>3. ASSUME tenants'[o].conn = tenants[o].conn, Row(o)
        PROVE  tenants'[o].conn \in Given(o) \cup {NoConn}
    BY <2>3 DEF ConnsAreGiven
  <2> QED
    BY <1>1, <1>3, <2>1, <2>2, <2>3
       DEF Kept, Born, Gone, Written, Scoped, Activated, Commanded, Row
<1>4. ASSUME NEW p \in Provisioners, prov'[p].pc \in {"conn", "schema", "blob", "activate"}
      PROVE  prov'[p].conn \in GivenNext(prov'[p].org)
  <2>1. ProvEffect(p)
    BY DEF ProvsStep
  <2>2. ASSUME prov[p].pc \in {"conn", "schema", "blob", "activate"},
               prov'[p].org = prov[p].org, SameConn(p)
        PROVE  prov'[p].conn \in GivenNext(prov'[p].org)
    BY <1>1, <1>2, <2>2 DEF SameConn, ConnsAreGiven
  <2>3. CASE Goes(p, "find", "conn") /\ prov'[p].conn \in databases[prov[p].org]
    BY <1>1, <1>2, <2>3 DEF Goes, ConnsAreGiven
  <2>4. CASE /\ Goes(p, "create", "conn") /\ prov'[p].conn = NewConn(prov[p].org)
             /\ provider_create(p)
    <3>1. prov[p].org \in Orgs /\ prov'[p].org = prov[p].org
      BY <1>2, <2>4 DEF Goes
    <3>2. NewConn(prov[p].org) \in databases'[prov[p].org]
      BY <2>4, <3>1 DEF provider_create, TypesOK, PlaneTypes
    <3> QED
      BY <1>1, <2>4, <3>1, <3>2
  <2> QED
    BY <1>4, <2>1, <2>2, <2>3, <2>4 DEF ProvEffect, Rests, Begins, Goes, SameConn
<1>5. provider' = provider
  BY Monotone
<1> QED
  BY <1>1, <1>3, <1>4, <1>5 DEF ConnsAreGiven, Given, GivenNext, Row

\* A database that is intact after a step was so before, or is the first one.
LEMMA IntactBack ==
    ASSUME TypesOK, ConnsAreGiven, DatabasesStep
    PROVE  \A o \in Orgs : made'[o] = 1 /\ databases'[o] # {} /\ Given(o) # {} =>
               /\ Intact(o) /\ databases'[o] = databases[o] /\ ready[o] \subseteq ready'[o]
<1> SUFFICES ASSUME NEW o \in Orgs, made'[o] = 1, databases'[o] # {}, Given(o) # {}
             PROVE  /\ Intact(o) /\ databases'[o] = databases[o]
                    /\ ready[o] \subseteq ready'[o]
  OBVIOUS
<1>1. made[o] \in Nat \ {0} /\ databases[o] \subseteq Given(o)
  BY DEF TypesOK, PlaneTypes, ConnsAreGiven, Given
<1>2. CASE PlaneKept(o) \/ Filled(o)
  BY <1>2 DEF PlaneKept, Filled, Intact
<1>3. CASE DroppedOne(o)
  <2>1. PICK c \in databases[o] : made[o] = 1 /\ databases'[o] = databases[o] \ {c}
    BY <1>3 DEF DroppedOne
  <2>2. \A d \in databases[o] : d = c
    BY <1>1, <2>1 DEF Given
  <2> QED
    BY <2>1, <2>2
<1>4. CASE MadeOne(o)
  <2>1. /\ databases'[o] = databases[o] \cup {NewConn(o)} /\ ready'[o] = ready[o]
        /\ made'[o] = IF NewConn(o) \in databases[o] THEN made[o] ELSE made[o] + 1
    BY <1>4 DEF MadeOne
  <2>2. NewConn(o) \in databases[o]
    BY <1>1, <2>1
  <2> QED
    BY <2>1, <2>2 DEF Intact
<1> QED
  BY <1>2, <1>3, <1>4 DEF DatabasesStep, PlaneEffect

\* A row keeps a connection string once it has one, and its scope.
LEMMA RowKeeps ==
    ASSUME TypesOK, ConnsAreGiven, OrgsStep
    PROVE  \A o \in Orgs : RowOrGone(o) =>
              /\ (~Row(o) \/ tenants[o].conn # NoConn) =>
                    tenants'[o] = NoRow \/ tenants'[o].conn # NoConn
              /\ (~Row(o) \/ tenants[o].scope) => tenants'[o] = NoRow \/ tenants'[o].scope
<1> SUFFICES ASSUME NEW o \in Orgs, RowOrGone(o)
             PROVE  /\ (~Row(o) \/ tenants[o].conn # NoConn) =>
                          tenants'[o] = NoRow \/ tenants'[o].conn # NoConn
                    /\ (~Row(o) \/ tenants[o].scope) =>
                          tenants'[o] = NoRow \/ tenants'[o].scope
  OBVIOUS
<1>1. Kept(o) \/ Born(o) \/ Gone(o) \/ Written(o)
  BY DEF OrgsStep, OrgEffect
<1>2. NoConn \notin Given(o)
  BY Distinct DEF Given, TypesOK, PlaneTypes
<1>3. CASE Kept(o) \/ Gone(o)
  BY <1>3 DEF Kept, Gone, Row
<1>4. ~Born(o)
  BY DEF Born, RowOrGone
<1>5. CASE Written(o)
  <2>1. ASSUME NEW p \in Provisioners, Connected(o, p)
        PROVE  tenants'[o].conn # NoConn /\ (tenants'[o].scope = tenants[o].scope)
    BY <1>2, <2>1 DEF Connected, By, At, ConnsAreGiven
  <2> QED
    BY <1>5, <2>1 DEF Written, Scoped, Activated, Commanded
<1> QED
  BY <1>1, <1>3, <1>4, <1>5

\* A provisioner leaves each step with its result in place.
LEMMA InOrderStep ==
    ASSUME TypesOK, RowsAreLive, Met, ConnsAreGiven, InOrder, Steps, OrgsStep, DatabasesStep,
           ProvsStep
    PROVE  InOrder'
<1> DEFINE IntactNext(o) == made'[o] = 1 /\ databases'[o] # {}
<1>1. \A p \in Provisioners : prov[p].pc \notin {"idle", "list"} => prov[p].org \in Orgs
  BY DEF TypesOK, ActorTypes, ProvType
<1>2. \A o \in Orgs : IntactNext(o) /\ Given(o) # {} =>
          Intact(o) /\ databases'[o] = databases[o] /\ ready[o] \subseteq ready'[o]
  BY IntactBack
<1>3. \A o \in Orgs : NoConn \notin Given(o)
  BY Distinct DEF Given, TypesOK, PlaneTypes
<1>4. ASSUME NEW p \in Provisioners, prov'[p].pc \in {"schema", "blob", "activate"}
      PROVE  /\ prov[p].pc \in {"conn", "schema", "blob", "activate"}
             /\ prov'[p].org = prov[p].org /\ prov[p].org \in Orgs
             /\ RowOrGone(prov[p].org) /\ Given(prov[p].org) # {}
             /\ prov[p].conn \in Given(prov[p].org)
  <2>1. ProvEffect(p)
    BY DEF ProvsStep
  <2>2. /\ prov[p].pc \in {"conn", "schema", "blob", "activate"}
        /\ prov'[p].org = prov[p].org
    BY <1>4, <2>1 DEF ProvEffect, Rests, Begins, Goes
  <2> QED
    BY <1>1, <2>2 DEF Met, ConnsAreGiven
<1>5. ASSUME NEW p \in Provisioners, prov'[p].pc \in {"schema", "blob", "activate"}
      PROVE  tenants'[prov'[p].org] = NoRow \/ tenants'[prov'[p].org].conn # NoConn
  <2> DEFINE o == prov[p].org
  <2>1. ProvEffect(p)
    BY DEF ProvsStep
  <2>2. CASE prov[p].pc \in {"schema", "blob", "activate"}
    <3>1. ~Row(o) \/ tenants[o].conn # NoConn
      BY <2>2 DEF InOrder, At
    <3> QED
      BY <1>4, <1>5, <3>1, RowKeeps
  <2>3. CASE prov[p].pc = "conn"
    <3>1. set_tenant_conn(p)
      BY <1>5, <2>1, <2>3 DEF ProvEffect, Rests, Begins, Goes
    <3>2. tenants' = [tenants EXCEPT ![o] =
                        IF Row(o) THEN [tenants[o] EXCEPT !.conn = prov[p].conn] ELSE NoRow]
      BY <3>1 DEF set_tenant_conn, Write
    <3>3. o \in Orgs /\ prov[p].conn # NoConn
      BY <1>3, <1>4, <1>5
    <3>4. Row(o) => [tenants[o] EXCEPT !.conn = prov[p].conn].conn = prov[p].conn
      BY <3>3 DEF TypesOK, RegistryTypes, Row, RowType
    <3>5. tenants'[o] = NoRow \/ tenants'[o].conn = prov[p].conn
      BY <3>2, <3>3, <3>4 DEF TypesOK, RegistryTypes
    <3> QED
      BY <1>4, <1>5, <3>3, <3>5
  <2> QED
    BY <1>4, <1>5, <2>2, <2>3
<1>6. ASSUME NEW p \in Provisioners, prov'[p].pc \in {"blob", "activate"},
             IntactNext(prov'[p].org)
      PROVE  databases'[prov'[p].org] \subseteq ready'[prov'[p].org]
  <2> DEFINE o == prov[p].org
  <2>1. ProvEffect(p)
    BY DEF ProvsStep
  <2>2. /\ o \in Orgs /\ prov'[p].org = o /\ Intact(o) /\ databases'[o] = databases[o]
        /\ ready[o] \subseteq ready'[o] /\ prov[p].conn \in Given(o)
    BY <1>2, <1>4, <1>6
  <2>3. CASE prov[p].pc \in {"blob", "activate"}
    BY <2>2, <2>3 DEF InOrder, At
  <2>4. CASE prov[p].pc = "schema"
    <3>1. schema_apply(p) /\ prov[p].conn \in databases[o]
      BY <1>6, <2>1, <2>4 DEF ProvEffect, Rests, Begins, Goes
    <3>2. prov[p].conn \in ready'[o]
      BY <2>2, <3>1 DEF schema_apply, TypesOK, PlaneTypes
    <3>3. \A c \in databases[o] : c = prov[p].conn
      BY <2>2 DEF Intact, Given, ConnsAreGiven
    <3> QED
      BY <2>2, <3>2, <3>3
  <2> QED
    BY <1>6, <2>1, <2>3, <2>4 DEF ProvEffect, Rests, Begins, Goes
<1>7. ASSUME NEW p \in Provisioners, prov'[p].pc = "activate"
      PROVE  tenants'[prov'[p].org] = NoRow \/ tenants'[prov'[p].org].scope
  <2> DEFINE o == prov[p].org
  <2>1. ProvEffect(p)
    BY DEF ProvsStep
  <2>2. o \in Orgs /\ prov'[p].org = o
    BY <1>4, <1>7
  <2>3. CASE prov[p].pc = "activate"
    <3>1. ~Row(o) \/ tenants[o].scope
      BY <2>3 DEF InOrder, At
    <3> QED
      BY <1>4, <1>7, <3>1, RowKeeps
  <2>4. CASE prov[p].pc = "blob"
    <3>1. set_tenant_blob(p)
      BY <1>7, <2>1, <2>4 DEF ProvEffect, Rests, Begins, Goes
    <3>2. tenants' = [tenants EXCEPT ![o] =
                        IF Row(o) THEN [tenants[o] EXCEPT !.scope = TRUE] ELSE NoRow]
      BY <3>1 DEF set_tenant_blob, Write
    <3>3. Row(o) => [tenants[o] EXCEPT !.scope = TRUE].scope
      BY <2>2 DEF TypesOK, RegistryTypes, Row, RowType
    <3> DEFINE row == [tenants[o] EXCEPT !.scope = TRUE]
    <3>4. tenants'[o] = IF Row(o) THEN row ELSE NoRow
      BY <2>2, <3>2 DEF TypesOK, RegistryTypes
    <3> HIDE DEF row
    <3>5. tenants'[o] = NoRow \/ tenants'[o].scope
      BY <3>3, <3>4 DEF row
    <3> QED
      BY <2>2, <3>5
  <2> QED
    BY <1>7, <2>1, <2>3, <2>4 DEF ProvEffect, Rests, Begins, Goes
<1>8. ASSUME NEW o \in Orgs, tenants'[o] # NoRow, tenants'[o].scope
      PROVE  /\ tenants'[o].conn # NoConn
             /\ IntactNext(o) => databases'[o] \subseteq ready'[o]
  <2>1. Kept(o) \/ Born(o) \/ Gone(o) \/ Written(o)
    BY DEF OrgsStep, OrgEffect
  <2>2. ASSUME Row(o), tenants[o].scope
        PROVE  IntactNext(o) => databases'[o] \subseteq ready'[o]
    <3>1. tenants[o].conn \in Given(o) /\ (Intact(o) => databases[o] \subseteq ready[o])
      BY <2>2 DEF InOrder, ConnsAreGiven
    <3> QED
      BY <1>2, <3>1
  <2>3. CASE Kept(o)
    BY <1>8, <2>2, <2>3 DEF Kept, Row, InOrder
  <2>4. ASSUME NEW p \in Provisioners, Connected(o, p), Row(o)
        PROVE  /\ tenants'[o].conn # NoConn
               /\ IntactNext(o) => databases'[o] \subseteq ready'[o]
    BY <1>3, <1>8, <2>2, <2>4 DEF Connected, By, At, ConnsAreGiven
  <2>5. ASSUME NEW p \in Provisioners, Scoped(o, p), Row(o)
        PROVE  /\ tenants'[o].conn # NoConn
               /\ IntactNext(o) => databases'[o] \subseteq ready'[o]
    <3>1. /\ tenants[o].conn # NoConn /\ tenants'[o].conn = tenants[o].conn
          /\ Intact(o) => databases[o] \subseteq ready[o]
          /\ prov[p].conn \in Given(o)
      BY <2>5 DEF Scoped, By, At, InOrder, ConnsAreGiven
    <3> QED
      BY <1>2, <3>1
  <2>6. ASSUME tenants'[o].conn = tenants[o].conn, (tenants'[o].scope = tenants[o].scope), Row(o)
        PROVE  /\ tenants'[o].conn # NoConn
               /\ IntactNext(o) => databases'[o] \subseteq ready'[o]
    BY <1>8, <2>2, <2>6 DEF InOrder
  <2> QED
    BY <1>8, <2>1, <2>3, <2>4, <2>5, <2>6 DEF Born, Gone, Written, Activated, Commanded
<1>9. ASSUME NEW o \in Orgs, tenants'[o] # NoRow, tenants'[o].status = "active", o \notin manual'
      PROVE  tenants'[o].scope
  <2>1. Kept(o) \/ Born(o) \/ Gone(o) \/ Written(o)
    BY DEF OrgsStep, OrgEffect
  <2>2. o \notin manual
    BY <1>9, Monotone
  <2>3. CASE Kept(o)
    BY <1>9, <2>2, <2>3 DEF Kept, Active, Row, InOrder
  <2>4. ASSUME NEW p \in Provisioners, Connected(o, p) \/ Scoped(o, p), Row(o)
        PROVE  tenants'[o].scope
    BY <1>9, <2>2, <2>4 DEF Connected, Scoped, Active, InOrder
  <2>5. ASSUME NEW p \in Provisioners, Activated(o, p), Row(o)
        PROVE  tenants'[o].scope
    BY <2>5 DEF Activated, By, InOrder
  <2>6. CASE Commanded(o)
    BY <1>9, <2>6 DEF Commanded
  <2> QED
    BY <1>9, <2>1, <2>3, <2>4, <2>5, <2>6 DEF Born, Gone, Written
<1> QED
  BY <1>5, <1>6, <1>7, <1>8, <1>9 DEF InOrder, Intact, At, Active, Row

-----------------------------------------------------------------------------
(* Deletions. *)

\* An organization is deleted by the last step of its deletion only.
LEMMA DeletedBy ==
    ASSUME TypesOK, Steps, NEW o \in Orgs, orgs'[o] = "deleted"
    PROVE  orgs[o] = "deleted" \/ (delete_org /\ o = off.org)
<1>1. orgs \in [Orgs -> {"none", "live", "deleted"}]
  BY DEF TypesOK, RegistryTypes
<1>2. CASE orgs' = orgs
  BY <1>2
<1>3. ASSUME NEW q \in Orgs, create_org(q) PROVE orgs[o] = "deleted"
  BY <1>1, <1>3 DEF create_org
<1>4. CASE delete_org
  BY <1>1, <1>4 DEF delete_org
<1> QED
  BY <1>2, <1>3, <1>4, RegistryCases
     DEF begin_provisioning, set_tenant_conn, set_tenant_blob, set_tenant_active,
         set_tenant_status

\* What is done stays done, unless it is marked.
LEMMA DoneStays ==
    ASSUME TypesOK, DeletionInOrder, Steps, DatabasesStep, NEW o \in Orgs \ leftover'
    PROVE  /\ o \notin leftover
           /\ \A c, d \in databases'[o] : c = d
           /\ DropDone(o) => databases'[o] = {}
           /\ ScopeDone(o) => o \notin objects'
<1>1. o \notin leftover
  BY Monotone
<1>2. /\ \A c, d \in databases[o] : c = d
      /\ DropDone(o) => databases[o] = {}
      /\ ScopeDone(o) => o \notin objects
  BY <1>1 DEF DeletionInOrder
<1>3. (\A c, d \in databases'[o] : c = d) /\ (DropDone(o) => databases'[o] = {})
  <2>1. CASE PlaneKept(o) \/ Filled(o) \/ DroppedOne(o)
    BY <1>2, <2>1 DEF PlaneKept, Filled, DroppedOne
  <2>2. CASE MadeOne(o)
    <3>1. PICK p \in Provisioners : prov[p].org = o /\ provider_create(p)
      BY <2>2 DEF MadeOne, By
    <3>2. /\ ~Past(o, {IF off.by = "cli" THEN "scope" ELSE "invalidate", "delete"})
          /\ databases[o] \ {NewConn(o)} = {}
      BY <3>1 DEF provider_create
    <3>3. databases'[o] = databases[o] \cup {NewConn(o)}
      BY <2>2 DEF MadeOne
    <3> QED
      BY <3>2, <3>3 DEF Past, DropDone
  <2> QED
    BY <2>1, <2>2 DEF DatabasesStep, PlaneEffect
<1>4. ScopeDone(o) => o \notin objects'
  <2>1. ASSUME NEW t \in Tasks, put_object(t), ScopeDone(o) PROVE o \notin objects'
    BY <1>2, <2>1 DEF put_object, Past, ScopeDone
  <2>2. CASE delete_scope
    BY <1>2, <2>2 DEF delete_scope
  <2> QED
    BY <1>2, <2>1, <2>2, ObjectCases
<1> QED
  BY <1>1, <1>3, <1>4

\* A deletion leaves each step with nothing left of it.
LEMMA DeletionStep ==
    ASSUME TypesOK, RowsAreLive, Met, DeletionInOrder, Steps, DatabasesStep
    PROVE  DeletionInOrder'
<1> SUFFICES ASSUME NEW o \in Orgs \ leftover'
             PROVE  /\ \A c, d \in databases'[o] : c = d
                    /\ DropDone(o)' => databases'[o] = {}
                    /\ ScopeDone(o)' => o \notin objects'
  BY DEF DeletionInOrder
<1>1. /\ o \notin leftover
      /\ \A c, d \in databases'[o] : c = d
      /\ DropDone(o) => databases'[o] = {}
      /\ ScopeDone(o) => o \notin objects'
  BY DoneStays
<1>2. off \in OffType /\ (off.pc = "invalidate" => off.by = "http") /\ NoRow \notin Orgs
  BY Distinct DEF TypesOK, ActorTypes
<1>3. orgs'[o] = "deleted" => DropDone(o) /\ ScopeDone(o)
  BY DeletedBy DEF DropDone, ScopeDone, delete_org
<1>4. CASE off' = off
  BY <1>1, <1>3, <1>4 DEF DropDone, ScopeDone
<1>5. CASE off' = NoOff
  <2>1. NoOff.org # o
    BY <1>2 DEF NoOff
  <2> QED
    BY <1>1, <1>3, <1>5, <2>1 DEF DropDone, ScopeDone
<1>6. CASE off'.org # o
  BY <1>1, <1>3, <1>6 DEF DropDone, ScopeDone
<1>7. ASSUME NEW q \in Orgs, offboard_data(q), off'.org = o
      PROVE  (DropDone(o)' => databases'[o] = {}) /\ (ScopeDone(o)' => o \notin objects')
  <2>1. /\ q = o /\ off'.by = "http" /\ off'.pc \in {"scope", "drop"}
        /\ off'.pc = "drop" => ~Row(o)
        /\ orgs[o] = "live" /\ orgs'[o] = "live" /\ objects' = objects
    BY <1>7 DEF offboard_data, registry, plane
  <2>2. ~Row(o) => o \notin objects
    BY <2>1 DEF Met, RowOrGone
  <2> QED
    BY <2>1, <2>2 DEF DropDone, ScopeDone
<1>8. ASSUME NEW q \in Orgs, run_offboard(q), off'.org = o
      PROVE  (DropDone(o)' => databases'[o] = {}) /\ (ScopeDone(o)' => o \notin objects')
  <2>1. q = o /\ off'.by = "cli" /\ off'.pc = "drop"
    BY <1>8 DEF run_offboard
  <2> QED
    BY <1>1, <1>3, <2>1 DEF DropDone, ScopeDone
<1>9. ASSUME NEW pc, OffGoto(pc), off'.org = o
      PROVE  off'.pc = pc /\ off'.by = off.by /\ off.org = o
  BY <1>2, <1>9 DEF OffGoto, OffType
<1>10. CASE delete_scope /\ off'.org = o
  <2>1. /\ off.pc = "scope" /\ off.org = o /\ off'.by = off.by /\ o \notin objects'
        /\ off'.pc = IF off.by = "http" THEN "drop" ELSE "delete"
    BY <1>9, <1>10 DEF delete_scope
  <2>2. off.by \in {"http", "cli"}
    BY <1>2 DEF OffType
  <2>3. DropDone(o)' => DropDone(o)
    BY <1>3, <2>1, <2>2 DEF DropDone
  <2> QED
    BY <1>1, <2>1, <2>3
<1>11. CASE delete_scope_failed /\ off'.org = o
  <2>1. off' = NoOff \/ off.org \in leftover'
    BY <1>11 DEF delete_scope_failed
  <2>2. off' = NoOff \/ off.org = o
    BY <1>9, <1>11 DEF delete_scope_failed
  <2> QED
    BY <1>5, <2>1, <2>2
<1>12. CASE deprovision /\ off'.org = o
  <2>1. /\ off.pc = "drop" /\ off.org = o /\ off'.by = off.by
        /\ off'.pc = IF off.by = "http" THEN "invalidate" ELSE "scope"
    BY <1>9, <1>12 DEF deprovision
  <2>2. off.by \in {"http", "cli"}
    BY <1>2 DEF OffType
  <2>3. databases'[o] = {}
    <3>1. databases \in [Orgs -> SUBSET Nat] /\ \A c, d \in databases[o] : c = d
      BY <1>1 DEF TypesOK, PlaneTypes, DeletionInOrder
    <3>2. \/ databases[o] = {} /\ databases' = databases
          \/ \E c \in databases[o] : databases' = [databases EXCEPT ![o] = @ \ {c}]
      BY <1>12, <2>1 DEF deprovision
    <3> QED
      BY <3>1, <3>2
  <2>4. ScopeDone(o)' => ScopeDone(o)
    BY <1>3, <2>1, <2>2 DEF ScopeDone
  <2> QED
    BY <1>1, <2>3, <2>4
<1>13. CASE deprovision_failed /\ off'.org = o
  <2>1. off' = NoOff \/ (off.org = o /\ off.org \in leftover')
    BY <1>9, <1>13 DEF deprovision_failed
  <2> QED
    BY <1>5, <2>1
<1>14. CASE offboard_invalidate /\ off'.org = o
  <2>1. /\ off.pc = "invalidate" /\ off.org = o /\ off.by = "http"
    BY <1>2, <1>9, <1>14 DEF offboard_invalidate
  <2>2. DropDone(o) /\ ScopeDone(o)
    BY <2>1 DEF DropDone, ScopeDone
  <2> QED
    BY <1>1, <2>2
<1>15. CASE delete_org \/ delete_org_failed
  BY <1>5, <1>15 DEF delete_org, delete_org_failed
<1>16. CASE restart
  BY <1>4, <1>5, <1>16 DEF restart
<1> QED
  BY <1>1, <1>4, <1>6, <1>7, <1>8, <1>10, <1>11, <1>12, <1>13, <1>14, <1>15, <1>16, OffCases

-----------------------------------------------------------------------------
(* The inductive invariant. *)

\* The initial states satisfy the inductive invariant.
LEMMA InitInv == Init => TenancyInv
<1> SUFFICES ASSUME Init PROVE TenancyInv
  OBVIOUS
<1>1. provider \in {"local", "neon"} /\ Established \subseteq Orgs
  BY TenancyAssumption DEF Init
<1>2. /\ made = [o \in Orgs |-> IF o \in Established THEN 1 ELSE 0]
      /\ orgs = [o \in Orgs |-> IF o \in Established THEN "live" ELSE "none"]
      /\ objects = Established /\ manual = {} /\ leftover = {}
  BY DEF Init
<1>3. \A o \in Orgs : Name(o) \in Nat
  BY <1>2 DEF Name
<1>4. /\ databases \in [Orgs -> SUBSET Nat] /\ ready = databases
      /\ \A o \in Orgs : databases[o] = IF o \in Established THEN {Name(o)} ELSE {}
  BY <1>3 DEF Init
<1>5. \A o \in Orgs :
         /\ Complete(Name(o)) \in RowType /\ Complete(Name(o)).status = "active"
         /\ Complete(Name(o)).conn = Name(o) /\ Complete(Name(o)).scope
  <2> SUFFICES ASSUME NEW o \in Orgs
               PROVE  /\ Complete(Name(o)) \in RowType /\ Complete(Name(o)).status = "active"
                      /\ Complete(Name(o)).conn = Name(o) /\ Complete(Name(o)).scope
    OBVIOUS
  <2>1. Name(o) \in Conns
    BY <1>3 DEF Conns
  <2>2. ASSUME NEW x \in BOOLEAN, NEW c \in Conns
        PROVE  [status |-> "active", conn |-> c, scope |-> x] \in RowType
    BY DEF RowType
  <2>3. Complete(Name(o)) \in RowType
    BY <2>1, <2>2 DEF Complete
  <2> QED
    BY <2>3 DEF Complete
<1>6. tenants = [o \in Orgs |-> IF o \in Established THEN Complete(Name(o)) ELSE NoRow]
  BY DEF Init
<1>7. /\ tenants \in [Orgs -> RowType \cup {NoRow}]
      /\ \A o \in Orgs : Row(o) <=> o \in Established
      /\ \A o \in Established : tenants[o] = Complete(Name(o))
  BY <1>1, <1>5, <1>6, Distinct DEF Row
<1>8. RegistryTypes
  BY <1>1, <1>2, <1>7 DEF Init, RegistryTypes
<1>9. PlaneTypes
  BY <1>2, <1>4 DEF PlaneTypes
<1>10. ProcessTypes /\ DOMAIN cache = {} /\ \A t \in Tasks : task[t].pc = "idle"
  <2>1. Idle \in TaskType /\ Idle.pc = "idle"
    BY DEF Idle, TaskType, Conns
  <2>2. /\ Map(cache, Mapping) /\ DOMAIN cache = {} /\ Cardinality(DOMAIN cache) = 0
        /\ Map(pools, PoolType) /\ Cardinality(DOMAIN pools) = 0
    BY EmptyMap DEF Init
  <2>3. task = [t \in Tasks |-> Idle]
    BY DEF Init
  <2> QED
    BY <2>1, <2>2, <2>3, TenancyAssumption DEF ProcessTypes
<1>11. /\ ActorTypes /\ off.pc = "idle" /\ off.org = NoRow
       /\ \A p \in Provisioners : prov[p].pc = "idle" /\ prov[p].todo = {}
  <2>1. /\ NoProv \in ProvType /\ NoProv.pc = "idle" /\ NoProv.org = NoRow /\ NoProv.todo = {}
        /\ NoCmd \in CmdType /\ NoCmd.pc = "idle"
        /\ NoOff \in OffType /\ NoOff.pc = "idle" /\ NoOff.org = NoRow
    BY DEF NoProv, ProvType, NoCmd, CmdType, NoOff, OffType, Conns
  <2>2. prov = [p \in Provisioners |-> NoProv] /\ cli = NoCmd /\ off = NoOff
    BY DEF Init
  <2> QED
    BY <2>1, <2>2 DEF ActorTypes
<1>12. RowsAreLive /\ Met
  BY <1>1, <1>2, <1>7, <1>10, <1>11 DEF RowsAreLive, Met, RowOrGone
<1>13. \A o \in Established : made[o] = 1 /\ Name(o) \in Given(o)
  BY <1>1, <1>2 DEF Name, Given
<1>14. ConnsAreGiven
  BY <1>1, <1>4, <1>5, <1>7, <1>11, <1>13 DEF ConnsAreGiven
<1>15. InOrder
  <2>1. \A o \in Established : tenants[o].conn # NoConn /\ tenants[o].scope
    BY <1>1, <1>3, <1>5, <1>7, Distinct
  <2> QED
    BY <1>4, <1>7, <1>11, <2>1 DEF InOrder, At, Active
<1>16. MappingsAreRecent
  BY <1>10 DEF MappingsAreRecent
<1>17. DeletionInOrder
  BY <1>2, <1>4, <1>11, Distinct DEF DeletionInOrder, DropDone, ScopeDone
<1> QED
  BY <1>8, <1>9, <1>10, <1>11, <1>12, <1>14, <1>15, <1>16, <1>17 DEF TenancyInv, TypesOK

\* Every step preserves the inductive invariant.
LEMMA StepInv == TenancyInv /\ [Next]_vars => TenancyInv'
<1> SUFFICES ASSUME TenancyInv, [Next]_vars PROVE TenancyInv'
  OBVIOUS
<1>1. /\ TypesOK /\ RowsAreLive /\ Met /\ ConnsAreGiven /\ InOrder /\ MappingsAreRecent
      /\ DeletionInOrder
  BY DEF TenancyInv
<1>2. Steps
  BY StepCases
<1>3. OrgsStep /\ DatabasesStep /\ ProvsStep /\ TasksStep /\ CacheStep /\ PoolsStep
  BY <1>1, <1>2, RegistryStep, PlaneStep, ProvStepEffect, MemoryStep
<1>4. TypesOK' /\ RowsAreLive' /\ Met'
  BY <1>1, <1>2, <1>3, TypesStep, RowsAreLiveStep, MetStep
<1>5. ConnsAreGiven' /\ InOrder'
  BY <1>1, <1>2, <1>3, GivenStep, InOrderStep
<1>6. MappingsAreRecent' /\ DeletionInOrder'
  BY <1>1, <1>2, <1>3, RecentStep, DeletionStep
<1> QED
  BY <1>4, <1>5, <1>6 DEF TenancyInv

\* The inductive invariant holds of every reachable state: types and caps,
\* what every activity relies on, and the invariants below.
THEOREM TenancyInvariant == Spec => []TenancyInv
<1>1. Init => TenancyInv
  BY InitInv
<1>2. TenancyInv /\ [Next]_vars => TenancyInv'
  BY StepInv
<1> QED
  BY <1>1, <1>2, PTL DEF Spec

\* Type correctness; in particular neither the mapping cache nor the pool
\* map ever outgrows its cap, whatever requests race to fill them.
THEOREM TypeCorrect == Spec => []TypeOK
<1>1. TenancyInv => TypeOK
  BY DEF TenancyInv, TypesOK, RegistryTypes, PlaneTypes, ProcessTypes, ActorTypes, RowsAreLive,
         ConnsAreGiven, TypeOK, Map, TaskType, ProvType, OffType, Row
<1> QED
  BY <1>1, TenancyInvariant, PTL

\* An active tenant has its blob scope and, unless two provisioners made a
\* database each at the hosted provider or a deletion dropped it (Disturbed), a
\* database with the schema, whatever provisioning calls fail or are repeated
\* after a crash; a status an operator set is not spoken of.
THEOREM ActiveTenantsAreComplete == Spec => []ActiveIsComplete
<1>1. ASSUME TenancyInv PROVE ActiveIsComplete
  <2> SUFFICES ASSUME NEW o \in Orgs, Active(o), o \notin manual
               PROVE  tenants[o].scope /\ (Disturbed(o) \/ tenants[o].conn \in ready[o])
    BY DEF ActiveIsComplete
  <2>1. /\ tenants[o].scope /\ tenants[o].conn # NoConn
        /\ Intact(o) => databases[o] \subseteq ready[o]
    BY <1>1 DEF TenancyInv, InOrder, Active
  <2>2. tenants[o].conn \in Given(o) /\ databases[o] \subseteq Given(o) /\ made[o] \in Nat
    BY <1>1, <2>1 DEF TenancyInv, ConnsAreGiven, Active, TypesOK, PlaneTypes
  <2>3. ~Disturbed(o) => Intact(o)
    BY <2>2 DEF Disturbed, Intact, Given
  <2>4. Intact(o) => tenants[o].conn \in databases[o]
    BY <2>2 DEF Intact, Given
  <2> QED
    BY <2>1, <2>3, <2>4
<1> QED
  BY <1>1, TenancyInvariant, PTL

\* A suspended or deleted tenant is served no longer than the term of its
\* mapping and the time a read was on its way into the cache.
THEOREM InactiveTenantsAreNotServed == Spec => []InactiveNotServed
<1>1. ASSUME TenancyInv PROVE InactiveNotServed
  <2> SUFFICES ASSUME NEW t \in Tasks, task[t].pc \in {"pool", "connect", "served", "writing"}
               PROVE  \/ Active(task[t].org)
                      \/ task[t].at - left[task[t].org] <= (MAPPING_TTL - 1) + task[t].lag
    BY DEF InactiveNotServed
  <2>1. Recent(task[t].org, task[t].at - task[t].lag - (MAPPING_TTL - 1))
    BY <1>1 DEF TenancyInv, MappingsAreRecent
  <2>2. /\ task[t].at \in Nat /\ task[t].lag \in Int /\ left[task[t].org] \in Nat
        /\ MAPPING_TTL \in Nat
    BY <1>1, TenancyAssumption DEF TenancyInv, TypesOK, ProcessTypes, RegistryTypes, TaskType
  <2> QED
    BY <2>1, <2>2 DEF Recent
<1> QED
  BY <1>1, TenancyInvariant, PTL

\* A deleted organization leaves neither a database nor objects, but for
\* writes that overtook the deletion and failures only warned of.
THEOREM OffboardingLeavesNothing == Spec => []OffboardLeavesNothing
<1>1. TenancyInv => OffboardLeavesNothing
  BY DEF TenancyInv, DeletionInOrder, DropDone, ScopeDone, OffboardLeavesNothing
<1> QED
  BY <1>1, TenancyInvariant, PTL

\* The reconciler takes every organization it starts on out of provisioning,
\* unless a call fails or a deletion takes the database away under it.
THEOREM ReconcilerFinishes == Spec => ReconcileFinishes
<1> DEFINE p == "reconcile"
           A == \A o \in Orgs :
                   prov[p].org = o /\ prov'[p].org # o /\ faults' = faults =>
                       \/ orgs[o] = "deleted" \/ Dropped(o)
                       \/ tenants'[o].status # "provisioning"
<1>1. ASSUME TenancyInv, [Next]_vars PROVE A
  <2> SUFFICES ASSUME NEW o \in Orgs, prov[p].org = o, prov'[p].org # o, faults' = faults,
                      orgs[o] # "deleted"
               PROVE  Dropped(o) \/ tenants'[o].status # "provisioning"
    OBVIOUS
  <2>1. /\ TypesOK /\ Met /\ ConnsAreGiven /\ Steps
    BY <1>1, StepCases DEF TenancyInv
  <2>2. /\ p \in Provisioners /\ faults \in Nat /\ prov \in [Provisioners -> ProvType]
        /\ prov[p].pc \notin {"idle", "list"}
        /\ tenants \in [Orgs -> RowType \cup {NoRow}] /\ made[o] \in Nat
    BY <2>1, Distinct DEF TypesOK, ActorTypes, RegistryTypes, PlaneTypes, Provisioners
  <2>3. ~Fault
    BY <2>2 DEF Fault
  <2>4. ASSUME NEW q \in Provisioners, NEW new, prov' = [prov EXCEPT ![q] = new]
        PROVE  q = p
    BY <2>2, <2>4
  <2>5. ASSUME NEW q \in Provisioners, End(q) PROVE q = p
    BY <2>4, <2>5 DEF End
  <2>6. ASSUME NEW q \in Provisioners, NEW pc, Goto(q, pc) PROVE FALSE
    BY <2>2, <2>6 DEF Goto, ProvType
  <2>7. ASSUME NEW q \in Provisioners, NEW pc, NEW c, Onward(q, pc, c) PROVE FALSE
    BY <2>2, <2>7 DEF Onward, ProvType
  <2>8. CASE begin_provisioning(p)
    <3>1. orgs[o] # "live"
      BY <2>2, <2>6, <2>8 DEF begin_provisioning
    <3>2. orgs[o] \in {"none", "live", "deleted"} /\ orgs[o] # "none"
      BY <2>1, <2>2 DEF TypesOK, RegistryTypes, Met
    <3> QED
      BY <3>1, <3>2
  <2>9. CASE schema_apply(p)
    <3>1. prov[p].conn \notin databases[o] /\ prov[p].pc = "schema"
      BY <2>2, <2>6, <2>9 DEF schema_apply, At
    <3>2. prov[p].conn \in Given(o) /\ databases[o] \subseteq Given(o)
      BY <2>1, <2>2, <3>1 DEF ConnsAreGiven
    <3>3. Given(o) # {} /\ made[o] # 0
      BY <3>2 DEF Given
    <3>4. CASE provider = "local"
      <4>1. databases[o] = {}
        BY <3>1, <3>2, <3>3, <3>4 DEF Given
      <4> QED
        BY <2>2, <3>3, <4>1, FS_EmptySet DEF Dropped
    <3>5. CASE provider # "local"
      <4>1. Given(o) = 1 .. made[o]
        BY <3>3, <3>5 DEF Given
      <4>2. IsFiniteSet(1 .. made[o]) /\ Cardinality(1 .. made[o]) = made[o]
        BY <2>2, <3>3, FS_Interval
      <4>3. /\ Cardinality(databases[o]) <= made[o] /\ Cardinality(databases[o]) \in Nat
            /\ Cardinality(databases[o]) = made[o] => databases[o] = 1 .. made[o]
        BY <3>2, <4>1, <4>2, FS_Subset, FS_CardinalityType
      <4> QED
        BY <2>2, <3>1, <3>2, <4>1, <4>3 DEF Dropped
    <3> QED
      BY <3>4, <3>5
  <2>10. CASE set_tenant_active(p)
    <3>1. Row(o) /\ tenants' = [tenants EXCEPT ![o] = [tenants[o] EXCEPT !.status = "active"]]
      <4>1. prov[p].pc = "activate" /\ Write(o, [tenants[o] EXCEPT !.status = "active"])
        BY <2>10 DEF set_tenant_active, At
      <4>2. Row(o)
        BY <2>1, <2>2, <4>1 DEF Met, RowOrGone
      <4> QED
        BY <4>1, <4>2 DEF Write
    <3>2. [tenants[o] EXCEPT !.status = "active"].status = "active"
      BY <2>2, <3>1 DEF Row, RowType
    <3>3. tenants'[o].status = "active"
      BY <2>2, <3>1, <3>2
    <3> QED
      BY <3>3
  <2>11. ASSUME NEW q \in Orgs, create_org(q) \/ reconcile(q) PROVE FALSE
    <3>1. ~reconcile(q)
      BY <2>2 DEF reconcile, At
    <3>2. create_org(q) => "signup" = p
      BY <2>4 DEF create_org, Provisioners
    <3> QED
      BY <2>11, <3>1, <3>2
  <2>12. ~provisioning_tenants /\ ~restart
    BY <2>2, <2>3 DEF provisioning_tenants, restart, At
  <2>13. ASSUME NEW q \in Provisioners, provider_find(q) \/ provider_create(q) PROVE FALSE
    BY <2>6, <2>7, <2>13 DEF provider_find, provider_create, Onward
  <2>14. ASSUME NEW q \in Provisioners, set_tenant_conn(q) \/ set_tenant_blob(q) PROVE FALSE
    BY <2>6, <2>14 DEF set_tenant_conn, set_tenant_blob
  <2>15. ASSUME NEW q \in Provisioners,
                begin_provisioning(q) \/ schema_apply(q) \/ set_tenant_active(q)
         PROVE  q = p
    BY <2>5, <2>6, <2>15 DEF begin_provisioning, schema_apply, set_tenant_active
  <2>16. ASSUME NEW q \in Provisioners, (q = "signup" /\ invalidate(q)) \/ provision_failed(q)
         PROVE  FALSE
    BY <2>3, <2>5, <2>16 DEF invalidate, provision_failed
  <2>17. prov' # prov
    OBVIOUS
  <2> QED
    BY <2>1, <2>8, <2>9, <2>10, <2>11, <2>12, <2>13, <2>14, <2>15, <2>16, <2>17, ProvCases
<1> QED
  BY <1>1, TenancyInvariant, PTL DEF Spec, ReconcileFinishes
=============================================================================
