------------------------------- MODULE Tenancy -------------------------------
(***************************************************************************)
(* Database-per-organization tenancy (tenancy/, operations.rs, the tenant  *)
(* registry of the control plane): provisioning in five steps with the     *)
(* reconciler that finishes it after a crash, the resolver with its        *)
(* mapping cache and its pools, suspension, and the two ways to offboard.  *)
(*                                                                         *)
(* One server process and one operator's command line run side by side.    *)
(* A connection string is the number of the database it names: 0 for the   *)
(* local provider, which names a database after its organization, and a    *)
(* new one for every project the hosted provider creates.  The provider,   *)
(* its databases and the object store are external.                        *)
(***************************************************************************)
EXTENDS Integers, FiniteSets, Functions

CONSTANTS
    Orgs,
    Established,        \* the organizations that exist and are complete at first
    Targets,            \* the ones commands and deletions are about
    Providers,          \* subset of {"local", "neon"}
    Tasks,              \* requests under way at a time
    NoRow, NoConn,
    MAPPING_TTL, MAPPING_CACHE_MAX,
    PoolCap, PoolIdle,  \* REPROIT_TENANT_POOL_CAP, REPROIT_TENANT_POOL_IDLE_SECS
    MaxTime,            \* bounds: the clock,
    MaxOps,             \* commands and deletion requests,
    MaxRequests,        \* requests,
    MaxBusy,            \* activities under way at a time,
    MaxFaults           \* crashes and failed calls

Conns == Nat \cup {NoConn}
RowType == [status : {"provisioning", "active", "suspended"}, conn : Conns, scope : BOOLEAN]

\* The caps and the term of a mapping are positive; "none" is no row, no
\* organization and no connection.
ASSUME TenancyAssumption ==
    /\ MAPPING_CACHE_MAX \in Nat \ {0} /\ PoolCap \in Nat \ {0} /\ MAPPING_TTL \in Nat \ {0}
    /\ NoRow \notin RowType /\ NoRow \notin Orgs /\ NoConn \notin Nat
    /\ Established \subseteq Orgs /\ Targets \subseteq Orgs /\ Providers \subseteq {"local", "neon"}

VARIABLES
    provider,
    orgs,               \* "none", "live" or "deleted"
    tenants,            \* the registry: [status, conn, scope], or NoRow
    databases, ready,   \* databases that exist, and those with the schema
    made,               \* databases the provider has made for an organization
    objects,            \* organizations with objects in their scope
    cache, pools,       \* org -> [conn, scope, at, lag]; org -> [conn, used]
    task,               \* a request: [pc, org, conn, scope, at, lag]
    prov,               \* "signup" and "reconcile": [pc, org, conn, todo]
    cli, off,           \* a status command [pc, org, to]; a deletion [by, pc, org]
    now, ops, requests, faults,
    left,               \* history: when an organization last was active
    manual,             \* history: status set by hand before provisioning ended
    leftover            \* history: a deletion that was raced, or failed unnoticed

registry == <<orgs, tenants>>
plane == <<databases, ready, made, objects>>
process == <<cache, pools, task>>
counters == <<now, ops, requests, faults>>
history == <<left, manual, leftover>>
vars == <<provider, registry, plane, process, prov, cli, off, counters, history>>

Provisioners == {"signup", "reconcile"}
Idle == [pc |-> "idle", org |-> NoRow, conn |-> NoConn, scope |-> FALSE, at |-> 0, lag |-> 0]
NoProv == [pc |-> "idle", org |-> NoRow, conn |-> NoConn, todo |-> {}]
NoCmd == [pc |-> "idle", org |-> NoRow, to |-> "active"]
NoOff == [pc |-> "idle", org |-> NoRow, by |-> "http"]
Complete(c) == [status |-> "active", conn |-> c, scope |-> TRUE]
Name(o) == IF provider = "local" THEN 0 ELSE made[o]

Init ==
    /\ provider \in Providers
    /\ orgs = [o \in Orgs |-> IF o \in Established THEN "live" ELSE "none"]
    /\ made = [o \in Orgs |-> IF o \in Established THEN 1 ELSE 0]
    /\ databases = [o \in Orgs |-> IF o \in Established THEN {Name(o)} ELSE {}]
    /\ ready = databases
    /\ tenants = [o \in Orgs |-> IF o \in Established THEN Complete(Name(o)) ELSE NoRow]
    /\ objects = Established
    /\ cache = <<>> /\ pools = <<>> /\ task = [t \in Tasks |-> Idle]
    /\ prov = [p \in Provisioners |-> NoProv]
    /\ cli = NoCmd /\ off = NoOff
    /\ now = 0 /\ ops = 0 /\ requests = 0 /\ faults = 0
    /\ left = [o \in Orgs |-> 0] /\ manual = {} /\ leftover = {}

Fault == faults < MaxFaults /\ faults' = faults + 1
\* There is room for another activity beside those under way.
Room ==
    Cardinality({t \in Tasks : task[t].pc # "idle"})
    + Cardinality({p \in Provisioners : prov[p].pc # "idle"})
    + Cardinality({c \in {"cli", "off"} : (IF c = "cli" THEN cli.pc ELSE off.pc) # "idle"})
    < MaxBusy
Row(o) == tenants[o] # NoRow
Active(o) == Row(o) /\ tenants[o].status = "active"
\* A write to the registry; an UPDATE of a row that is gone changes nothing.
Write(o, row) ==
    /\ tenants' = [tenants EXCEPT ![o] = IF Row(o) THEN row ELSE NoRow]
    /\ left' = [left EXCEPT ![o] = IF Active(o) THEN now ELSE @]

-----------------------------------------------------------------------------
(* Provisioning. *)

At(p, pc) == prov[p].pc = pc
Goto(p, pc) == prov' = [prov EXCEPT ![p].pc = pc]
End(p) == prov' = [prov EXCEPT ![p] = [NoProv EXCEPT !.todo = prov[p].todo]]

\* An organization is created and its provisioning begins.
create_org(o) ==
    /\ Room /\ orgs[o] = "none" /\ At("signup", "idle")
    /\ orgs' = [orgs EXCEPT ![o] = "live"]
    /\ prov' = [prov EXCEPT !["signup"] = [NoProv EXCEPT !.pc = "begin", !.org = o]]
    /\ UNCHANGED <<provider, tenants, plane, process, cli, off, counters, history>>

\* The reconciler of a new process lists the rows still in provisioning.
provisioning_tenants ==
    /\ At("reconcile", "list")
    /\ prov' = [prov EXCEPT !["reconcile"] = [NoProv EXCEPT
                    !.todo = {o \in Orgs : Row(o) /\ tenants[o].status = "provisioning"}]]
    /\ UNCHANGED <<provider, registry, plane, process, cli, off, counters, history>>

reconcile(o) ==
    /\ At("reconcile", "idle") /\ o \in prov["reconcile"].todo
    /\ prov' = [prov EXCEPT !["reconcile"] =
                    [pc |-> "begin", org |-> o, conn |-> NoConn, todo |-> @.todo \ {o}]]
    /\ UNCHANGED <<provider, registry, plane, process, cli, off, counters, history>>

\* A row in provisioning, or the one that exists, whatever its status.
begin_provisioning(p) ==
    LET o == prov[p].org
    IN  /\ At(p, "begin")
        /\ IF orgs[o] = "live"
           THEN /\ tenants' = [tenants EXCEPT ![o] =
                     IF Row(o) THEN @ ELSE [status |-> "provisioning", conn |-> NoConn,
                                            scope |-> FALSE]]
                /\ Goto(p, "find")
           ELSE UNCHANGED tenants /\ End(p)
        /\ UNCHANGED <<provider, orgs, plane, process, cli, off, counters, history>>

\* Mutant: a database that exists is an error.
provider_find_Strict(p) ==
    LET o == prov[p].org
    IN  /\ At(p, "find")
        /\ IF databases[o] = {} THEN Goto(p, "create") ELSE End(p)
        /\ UNCHANGED <<provider, registry, plane, process, cli, off, counters, history>>

\* The provider adopts a database that exists ...
provider_find(p) ==
    LET o == prov[p].org
    IN  /\ At(p, "find")
        /\ IF databases[o] = {} THEN Goto(p, "create")
           ELSE \E c \in databases[o] :
                   prov' = [prov EXCEPT ![p].pc = "conn", ![p].conn = c]
        /\ UNCHANGED <<provider, registry, plane, process, cli, off, counters, history>>

\* A deletion of the organization is past the step pc of its protocol.
Past(o, pcs) == orgs[o] = "deleted" \/ (off.org = o /\ off.pc \in pcs)

\* A local name exists once; a hosted project is always another one.
NewConn(o) == IF provider = "local" THEN 0 ELSE made[o] + 1

\* ... or makes one.
provider_create(p) ==
    LET o == prov[p].org
        c == NewConn(o)
    IN  /\ At(p, "create")
        /\ databases' = [databases EXCEPT ![o] = @ \cup {c}]
        /\ made' = [made EXCEPT ![o] = IF c \in databases[o] THEN @ ELSE @ + 1]
        /\ prov' = [prov EXCEPT ![p].pc = "conn", ![p].conn = c]
        /\ leftover' = IF \/ Past(o, {IF off.by = "cli" THEN "scope" ELSE "invalidate", "delete"})
                          \/ databases[o] \ {c} # {}
                       THEN leftover \cup {o} ELSE leftover
        /\ UNCHANGED <<provider, registry, ready, objects, process, cli, off, counters, left,
                       manual>>

\* Mutant: the tenant is active as soon as it has a database.
set_tenant_conn_Active(p) ==
    LET o == prov[p].org
    IN  /\ At(p, "conn")
        /\ Write(o, [tenants[o] EXCEPT !.conn = prov[p].conn, !.status = "active"])
        /\ Goto(p, "schema")
        /\ UNCHANGED <<provider, orgs, plane, process, cli, off, counters, manual, leftover>>

set_tenant_conn(p) ==
    LET o == prov[p].org
    IN  /\ At(p, "conn")
        /\ Write(o, [tenants[o] EXCEPT !.conn = prov[p].conn])
        /\ Goto(p, "schema")
        /\ UNCHANGED <<provider, orgs, plane, process, cli, off, counters, manual, leftover>>

schema_apply(p) ==
    LET o == prov[p].org
    IN  /\ At(p, "schema")
        /\ IF prov[p].conn \in databases[o]
           THEN ready' = [ready EXCEPT ![o] = @ \cup {prov[p].conn}] /\ Goto(p, "blob")
           ELSE UNCHANGED ready /\ End(p)
        /\ UNCHANGED <<provider, registry, databases, made, objects, process, cli, off,
                       counters, history>>

set_tenant_blob(p) ==
    LET o == prov[p].org
    IN  /\ At(p, "blob")
        /\ Write(o, [tenants[o] EXCEPT !.scope = TRUE])
        /\ Goto(p, "activate")
        /\ UNCHANGED <<provider, orgs, plane, process, cli, off, counters, manual, leftover>>

set_tenant_active(p) ==
    LET o == prov[p].org
    IN  /\ At(p, "activate")
        /\ Write(o, [tenants[o] EXCEPT !.status = "active"])
        /\ IF p = "signup" THEN Goto(p, "invalidate") ELSE End(p)
        /\ UNCHANGED <<provider, orgs, plane, process, cli, off, counters, manual, leftover>>

\* An entry is put into a map of the process, or replaced.
Put(f, o, e) == [k \in DOMAIN f \cup {o} |-> IF k = o THEN e ELSE f[k]]

Invalidated(o) ==
    /\ cache' = Restrict(cache, DOMAIN cache \ {o})
    /\ pools' = Restrict(pools, DOMAIN pools \ {o})

invalidate(p) ==
    /\ At(p, "invalidate")
    /\ Invalidated(prov[p].org) /\ End(p)
    /\ UNCHANGED <<provider, registry, plane, task, cli, off, counters, history>>

\* Any call of it may fail; the rest is not tried.
provision_failed(p) ==
    /\ Fault /\ prov[p].pc \notin {"idle", "invalidate"}
    /\ End(p)
    /\ UNCHANGED <<provider, registry, plane, process, cli, off, now, ops, requests, history>>

\* The release phase: the schema of an active tenant.
run_tenant_migrations(o) ==
    /\ Active(o) /\ tenants[o].conn \in databases[o] \ ready[o]
    /\ ready' = [ready EXCEPT ![o] = @ \cup {tenants[o].conn}]
    /\ UNCHANGED <<provider, registry, databases, made, objects, process, prov, cli, off,
                   counters, history>>

-----------------------------------------------------------------------------
(* The resolver. *)

On(t, pc) == task[t].pc = pc
Step(t, pc) == task' = [task EXCEPT ![t].pc = pc]
\* Mutant: an entry is good until it is invalidated.
Fresh_Always(e) == TRUE
Fresh(e) == now - e.at < MAPPING_TTL

\* The first part of mapping_for: a fresh entry, or a miss.
resolve(t, o) ==
    /\ Room /\ On(t, "idle") /\ orgs[o] # "none"
    /\ requests < MaxRequests /\ requests' = requests + 1
    /\ task' = [task EXCEPT ![t] =
          IF o \in DOMAIN cache /\ Fresh(cache[o])
          THEN [pc |-> "pool", org |-> o, conn |-> cache[o].conn, scope |-> cache[o].scope,
                at |-> now, lag |-> cache[o].lag]
          ELSE [Idle EXCEPT !.pc = "read", !.org = o]]
    /\ UNCHANGED <<provider, registry, plane, cache, pools, prov, cli, off, now, ops, faults,
                   history>>

\* The stored connection string, or the one a local provider derives.
conn_of(o) ==
    IF tenants[o].conn # NoConn THEN tenants[o].conn
    ELSE IF provider = "local" THEN 0 ELSE NoConn

control_tenant(t) ==
    LET o == task[t].org
    IN  /\ On(t, "read")
        /\ task' = [task EXCEPT ![t] =
              IF Active(o) /\ conn_of(o) # NoConn
              THEN [@ EXCEPT !.pc = "insert", !.conn = conn_of(o), !.scope = tenants[o].scope,
                             !.at = now]
              ELSE Idle]
        /\ UNCHANGED <<provider, registry, plane, cache, pools, prov, cli, off, counters,
                       history>>

\* The cache after its bound is enforced for a new organization: expired
\* entries go, and the oldest one if it is still full.
Bounded(o) ==
    IF o \in DOMAIN cache \/ Cardinality(DOMAIN cache) < MAPPING_CACHE_MAX THEN {cache}
    ELSE LET kept == {k \in DOMAIN cache : Fresh(cache[k])}
         IN  IF Cardinality(kept) < MAPPING_CACHE_MAX THEN {Restrict(cache, kept)}
             ELSE {Restrict(cache, kept \ {v}) :
                      v \in {v \in kept : \A k \in kept : cache[v].at <= cache[k].at}}

insert_mapping(t) ==
    LET o == task[t].org
        m == [conn |-> task[t].conn, scope |-> task[t].scope, at |-> now,
              lag |-> now - task[t].at]
    IN  /\ On(t, "insert")
        /\ \E c \in Bounded(o) : cache' = Put(c, o, m)
        /\ task' = [task EXCEPT ![t].pc = "pool", ![t].at = now, ![t].lag = m.lag]
        /\ UNCHANGED <<provider, registry, plane, pools, prov, cli, off, counters, history>>

\* The pool is found by organization, whatever database it is connected to.
Touch(t) ==
    LET o == task[t].org
    IN  /\ pools' = [pools EXCEPT ![o].used = now]
        /\ task' = [task EXCEPT ![t].pc = "served", ![t].conn = pools[o].conn]

pools_get(t) ==
    /\ On(t, "pool")
    /\ IF task[t].org \in DOMAIN pools THEN Touch(t) ELSE Step(t, "connect") /\ UNCHANGED pools
    /\ UNCHANGED <<provider, registry, plane, cache, prov, cli, off, counters, history>>

\* Mutant: the cap is checked before the pool is connected, not after.
evict_locked_Late(m, o) == {m}

\* Least recently used pools go until the cap holds.
evict_locked(m, o) ==
    IF Cardinality(DOMAIN m) <= PoolCap THEN {m}
    ELSE {Restrict(m, DOMAIN m \ {v}) :
             v \in {v \in DOMAIN m \ {o} : \A k \in DOMAIN m : m[v].used <= m[k].used}}

\* Connected, outside the lock: adopt the pool of a racer, or insert ours.
pools_insert(t) ==
    LET o == task[t].org
    IN  /\ On(t, "connect")
        /\ IF task[t].conn \notin databases[o]
           THEN task' = [task EXCEPT ![t] = Idle] /\ UNCHANGED pools
           ELSE IF o \in DOMAIN pools THEN Touch(t)
           ELSE /\ pools' \in evict_locked(
                       Put(pools, o, [conn |-> task[t].conn, used |-> now]), o)
                /\ Step(t, "served")
        /\ UNCHANGED <<provider, registry, plane, cache, prov, cli, off, counters, history>>

\* The handler writes a row of the tenant's database, then an object.
use_store(t) ==
    /\ On(t, "served")
    /\ IF task[t].conn \in databases[task[t].org] THEN Step(t, "writing")
                                                 ELSE task' = [task EXCEPT ![t] = Idle]
    /\ UNCHANGED <<provider, registry, plane, cache, pools, prov, cli, off, counters, history>>

put_object(t) ==
    LET o == task[t].org
    IN  /\ On(t, "writing")
        /\ objects' = IF task[t].scope THEN objects \cup {o} ELSE objects
        /\ task' = [task EXCEPT ![t] = Idle]
        /\ leftover' = IF Past(o, IF off.by = "cli" THEN {"delete"}
                                  ELSE {"drop", "invalidate", "delete"})
                       THEN leftover \cup {o} ELSE leftover
        /\ UNCHANGED <<provider, registry, databases, ready, made, cache, pools, prov, cli,
                       off, counters, left, manual>>

sweep_idle ==
    /\ \E o \in DOMAIN pools : now - pools[o].used > PoolIdle
    /\ pools' = Restrict(pools, {o \in DOMAIN pools : now - pools[o].used <= PoolIdle})
    /\ UNCHANGED <<provider, registry, plane, cache, task, prov, cli, off, counters, history>>

-----------------------------------------------------------------------------
(* Suspension and offboarding. *)

\* suspend and resume read the row, and write only a change.
run_set_tenant_status(o, to) ==
    /\ Room /\ cli.pc = "idle" /\ ops < MaxOps /\ ops' = ops + 1
    /\ Row(o) /\ tenants[o].status # to
    /\ cli' = [pc |-> "write", org |-> o, to |-> to]
    /\ UNCHANGED <<provider, registry, plane, process, prov, off, now, requests, faults,
                   history>>

set_tenant_status ==
    LET o == cli.org
    IN  /\ cli.pc = "write"
        /\ Write(o, [tenants[o] EXCEPT !.status = cli.to])
        /\ manual' = IF Row(o) /\ ~tenants[o].scope THEN manual \cup {o} ELSE manual
        /\ cli' = NoCmd
        /\ UNCHANGED <<provider, orgs, plane, process, prov, off, counters, leftover>>

OffGoto(pc) == off' = [off EXCEPT !.pc = pc]

\* Over HTTP the objects go first; an error anywhere ends the request.
offboard_data(o) ==
    /\ Room /\ off.pc = "idle" /\ orgs[o] = "live" /\ ops < MaxOps /\ ops' = ops + 1
    /\ off' = [by |-> "http", pc |-> IF Row(o) THEN "scope" ELSE "drop", org |-> o]
    /\ UNCHANGED <<provider, registry, plane, process, prov, cli, now, requests, faults,
                   history>>

\* On the command line the database goes first.
run_offboard(o) ==
    /\ Room /\ off.pc = "idle" /\ orgs[o] # "none" /\ ops < MaxOps /\ ops' = ops + 1
    /\ off' = [by |-> "cli", pc |-> "drop", org |-> o]
    /\ UNCHANGED <<provider, registry, plane, process, prov, cli, now, requests, faults,
                   history>>

\* An empty scope is refused, and any deletion may fail.
ScopeFails(o) == Row(o) /\ ~tenants[o].scope /\ (off.by = "http" \/ tenants[o].conn # NoConn)

delete_scope ==
    LET o == off.org
    IN  /\ off.pc = "scope" /\ ~ScopeFails(o)
        /\ objects' = objects \ {o}
        /\ OffGoto(IF off.by = "http" THEN "drop" ELSE "delete")
        /\ UNCHANGED <<provider, registry, databases, ready, made, process, prov, cli,
                       counters, history>>

\* Mutant: a failure is warned of and the request goes on.
delete_scope_failed_Warned ==
    LET o == off.org
    IN  /\ off.pc = "scope" /\ ((ScopeFails(o) /\ UNCHANGED faults) \/ Fault)
        /\ OffGoto(IF off.by = "http" THEN "drop" ELSE "delete")
        /\ leftover' = IF off.by = "cli" THEN leftover \cup {o} ELSE leftover
        /\ UNCHANGED <<provider, registry, plane, process, prov, cli, now, ops, requests,
                       left, manual>>

delete_scope_failed ==
    LET o == off.org
    IN  /\ off.pc = "scope" /\ ((ScopeFails(o) /\ UNCHANGED faults) \/ Fault)
        /\ IF off.by = "http" THEN off' = NoOff /\ UNCHANGED leftover
           ELSE OffGoto("delete") /\ leftover' = leftover \cup {o}
        /\ UNCHANGED <<provider, registry, plane, process, prov, cli, now, ops, requests,
                       left, manual>>

\* The provider deletes the database it finds under the name.
deprovision ==
    LET o == off.org
        Gone(c) == /\ databases' = [databases EXCEPT ![o] = @ \ {c}]
                   /\ ready' = [ready EXCEPT ![o] = @ \ {c}]
    IN  /\ off.pc = "drop"
        /\ IF databases[o] = {} THEN UNCHANGED <<databases, ready>>
                                ELSE \E c \in databases[o] : Gone(c)
        /\ OffGoto(IF off.by = "http" THEN "invalidate" ELSE "scope")
        /\ UNCHANGED <<provider, registry, made, objects, process, prov, cli, counters,
                       history>>

\* A hosted provider reports its failure, a local one hides it.
deprovision_failed ==
    /\ Fault /\ off.pc = "drop"
    /\ IF provider = "local"
       THEN /\ OffGoto(IF off.by = "http" THEN "invalidate" ELSE "scope")
            /\ leftover' = leftover \cup {off.org}
       ELSE off' = NoOff /\ UNCHANGED leftover
    /\ UNCHANGED <<provider, registry, plane, process, prov, cli, now, ops, requests, left,
                   manual>>

offboard_invalidate ==
    /\ off.pc = "invalidate"
    /\ Invalidated(off.org)
    /\ OffGoto("delete")
    /\ UNCHANGED <<provider, registry, plane, task, prov, cli, counters, history>>

\* The row and everything that refers to it.
delete_org ==
    LET o == off.org
    IN  /\ off.pc = "delete"
        /\ orgs' = [orgs EXCEPT ![o] = "deleted"]
        /\ tenants' = [tenants EXCEPT ![o] = NoRow]
        /\ left' = [left EXCEPT ![o] = IF Active(o) THEN now ELSE @]
        /\ off' = NoOff
        /\ UNCHANGED <<provider, plane, process, prov, cli, counters, manual, leftover>>

delete_org_failed ==
    /\ Fault /\ off.pc = "delete"
    /\ off' = NoOff
    /\ UNCHANGED <<provider, registry, plane, process, prov, cli, now, ops, requests, history>>

-----------------------------------------------------------------------------
\* The server stops and starts again: its memory is lost, and a reconciler
\* runs beside the new process.
restart ==
    /\ Fault
    /\ cache' = <<>> /\ pools' = <<>> /\ task' = [t \in Tasks |-> Idle]
    /\ prov' = [p \in Provisioners |->
                   IF p = "reconcile" THEN [NoProv EXCEPT !.pc = "list"] ELSE NoProv]
    /\ off' = IF off.by = "http" THEN NoOff ELSE off
    /\ UNCHANGED <<provider, registry, plane, cli, now, ops, requests, history>>

tick ==
    /\ now < MaxTime /\ now' = now + 1
    /\ UNCHANGED <<provider, registry, plane, process, prov, cli, off, ops, requests, faults,
                   history>>

ProvStep(p) ==
    \/ begin_provisioning(p) \/ provider_find(p) \/ provider_create(p) \/ set_tenant_conn(p)
    \/ schema_apply(p) \/ set_tenant_blob(p) \/ set_tenant_active(p)
TaskStep(t) ==
    \/ control_tenant(t) \/ insert_mapping(t) \/ pools_get(t) \/ pools_insert(t)
    \/ use_store(t) \/ put_object(t)
OffStep ==
    \/ delete_scope \/ delete_scope_failed \/ deprovision \/ deprovision_failed
    \/ offboard_invalidate \/ delete_org \/ delete_org_failed
Reconciler == provisioning_tenants \/ (\E o \in Orgs : reconcile(o)) \/ ProvStep("reconcile")

Next ==
    \/ \E o \in Orgs : create_org(o) \/ run_tenant_migrations(o)
    \/ Reconciler \/ ProvStep("signup") \/ invalidate("signup")
    \/ \E p \in Provisioners : provision_failed(p)
    \/ \E t \in Tasks : TaskStep(t) \/ (\E o \in Orgs : resolve(t, o))
    \/ sweep_idle
    \/ \E o \in Targets, to \in {"active", "suspended"} : run_set_tenant_status(o, to)
    \/ set_tenant_status
    \/ \E o \in Targets : offboard_data(o) \/ run_offboard(o)
    \/ OffStep \/ restart \/ tick

Spec == Init /\ [][Next]_vars
-----------------------------------------------------------------------------
\* The types, and the bounds of the two caches.
TypeOK ==
    /\ orgs \in [Orgs -> {"none", "live", "deleted"}]
    /\ \A o \in Orgs : Row(o) => tenants[o] \in RowType /\ orgs[o] = "live"
    /\ \A o \in Orgs : ready[o] \subseteq databases[o] /\ databases[o] \subseteq Nat
    /\ DOMAIN cache \subseteq Orgs /\ Cardinality(DOMAIN cache) <= MAPPING_CACHE_MAX
    /\ DOMAIN pools \subseteq Orgs /\ Cardinality(DOMAIN pools) <= PoolCap
    /\ \A t \in Tasks : task[t].pc \in {"idle", "read", "insert", "pool", "connect", "served",
                                        "writing"}
    /\ \A p \in Provisioners :
          prov[p].pc \in {"idle", "list", "begin", "find", "create", "conn", "schema", "blob",
                          "activate", "invalidate"}
    /\ off.pc \in {"idle", "scope", "drop", "invalidate", "delete"}

\* The organization has been given a second database, or has none left.
Disturbed(o) == made[o] > 1 \/ databases[o] = {}

\* A deletion has dropped a database of it.
Dropped(o) == Cardinality(databases[o]) < made[o]

\* "The resolver only serves active tenants": an active tenant has its own
\* blob scope and a database with the schema, whatever provisioning steps
\* fail, crash or are repeated, and if two provisioners run at a time on the
\* local provider.  The exceptions: an operator set its status before
\* provisioning had finished, two provisioners found no project at the hosted
\* provider and made one each (the later set_tenant_conn may then point an active
\* tenant at the one without schema), or a deletion has dropped the database.
ActiveIsComplete ==
    \A o \in Orgs : Active(o) /\ o \notin manual =>
        /\ tenants[o].scope
        /\ Disturbed(o) \/ tenants[o].conn \in ready[o]

\* A request holds a mapping only of an organization that was active within
\* MAPPING_TTL of its resolution, and the time a control-plane read was on
\* its way into the cache: suspension and offboarding reach a running server
\* that nobody told of them.
InactiveNotServed ==
    \A t \in Tasks :
        LET o == task[t].org
        IN  task[t].pc \in {"pool", "connect", "served", "writing"} =>
                \/ Active(o)
                \/ task[t].at - left[o] <= (MAPPING_TTL - 1) + task[t].lag

\* An organization that is deleted leaves neither database nor objects, also
\* after requests that were broken off and repeated, unless a write or a
\* provisioner overtook the deletion, or one of its steps failed and was
\* only warned of.
OffboardLeavesNothing ==
    \A o \in Orgs \ leftover :
        orgs[o] = "deleted" => databases[o] = {} /\ o \notin objects

\* The reconciler leaves an organization in provisioning only when a call
\* failed or a deletion has dropped its database: whatever steps an earlier
\* attempt took, and whatever the signup it finishes still does, are adopted.
ReconcileFinishes ==
    [][\A o \in Orgs :
          prov["reconcile"].org = o /\ prov'["reconcile"].org # o /\ faults' = faults =>
              \/ orgs[o] = "deleted" \/ Dropped(o)
              \/ tenants'[o].status # "provisioning"]_vars
=============================================================================
