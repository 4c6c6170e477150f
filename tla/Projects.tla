------------------------------- MODULE Projects -------------------------------
(***************************************************************************)
(* Projects and their API keys (auth/projects.rs, auth/mod.rs,             *)
(* ingest/mod.rs, db/control/credentials.rs).  A project is a row of its   *)
(* organization's tenant database, numbered by a serial of that database;  *)
(* its keys are rows of the control plane.  Nothing spans both in one      *)
(* transaction: creation compensates, rotation and deletion just stop.     *)
(*                                                                         *)
(* A handler is a request between its reads and its last write, every      *)
(* write one step.  The objects and rows that deletion removes besides are *)
(* the subject of Artifacts and Telemetry.                                 *)
(***************************************************************************)
EXTENDS Integers, FiniteSets

CONSTANTS
    Orgs,
    AppLimit,        \* the edition's app_limit
    MaxStarted,      \* bounds: calls made,
    MaxOpen,         \* requests under way at a time,
    MaxFaults        \* calls that fail and requests that stop

ASSUME AppLimitAssumption == AppLimit \in Nat

VARIABLES
    projects,        \* projects of every tenant database: [org, id]
    serial,          \* the next project id of a tenant database
    keys,            \* api_keys: [key, project, kind, active]
    minted,          \* keys minted so far
    requests,        \* [id, op, pc, org, project, old, key]
    started, faults,
    shown,           \* history: keys returned to a caller
    retired,         \* history: browser keys older than an answered rotation
    late,            \* history: keys minted while their project was going
    broken,          \* history: projects a request on which stopped half-way
    struck           \* history: projects whose keys another tenant's request took

history == <<shown, retired, late, broken, struck>>
vars == <<projects, serial, keys, minted, requests, started, faults, history>>

ProjectOf(o, i) == [org |-> o, id |-> i]

Init ==
    /\ projects = {} /\ serial = [o \in Orgs |-> 1]
    /\ keys = {} /\ minted = 0
    /\ requests = {} /\ started = 0 /\ faults = 0
    /\ shown = {} /\ retired = {} /\ late = {} /\ broken = {} /\ struck = {}

Fault == faults < MaxFaults /\ faults' = faults + 1
Open(op, pc, p, old) ==
    /\ started < MaxStarted /\ started' = started + 1
    /\ Cardinality(requests) < MaxOpen
    /\ requests' = requests \cup {[id |-> started, op |-> op, pc |-> pc, project |-> p,
                                   old |-> old, key |-> 0]}
Becomes(r, pc) == requests' = (requests \ {r}) \cup {[r EXCEPT !.pc = pc]}
Close(r) == requests' = requests \ {r}

Keys(p, kind) == {k \in keys : k.project = p /\ k.kind = kind}
count_projects(o) == Cardinality({p \in projects : p.org = o})

\* What ingest accepts of a browser key: the key's organization names the
\* tenant database, and the key's project must be the posted app's there.
pinned(k, p) == k.active /\ p \in projects /\ k.project = p

-----------------------------------------------------------------------------
\* Creation: the limit is read before anything is written.
WithinLimit(o) == count_projects(o) < AppLimit

create_project_for(o) ==
    /\ WithinLimit(o)
    /\ Open("create", "insert", ProjectOf(o, 0), {})
    /\ UNCHANGED <<projects, serial, keys, minted, faults, history>>

\* A failed count is taken for zero.
count_failed(o) ==
    /\ Fault /\ AppLimit > 0
    /\ Open("create", "insert", ProjectOf(o, 0), {})
    /\ UNCHANGED <<projects, serial, keys, minted, history>>

create_project(r) ==
    LET p == ProjectOf(r.project.org, serial[r.project.org])
    IN  /\ r.pc = "insert"
        /\ projects' = projects \cup {p}
        /\ serial' = [serial EXCEPT ![p.org] = @ + 1]
        /\ requests' = (requests \ {r}) \cup {[r EXCEPT !.pc = "secret", !.project = p]}
        /\ UNCHANGED <<keys, minted, started, faults, history>>

\* The project is gone, going, or may still be undone by its creation.
Going(r) ==
    \/ r.project \notin projects
    \/ \E q \in requests \ {r} : q.project = r.project /\ (q.op = "create" \/ q.pc = "row")

create_api_key(r, kind) ==
    /\ minted' = minted + 1
    /\ keys' = keys \cup {[key |-> minted', project |-> r.project, kind |-> kind,
                           active |-> TRUE]}
    /\ late' = IF Going(r) THEN late \cup {minted'} ELSE late

mint_secret(r) ==
    /\ r.pc = "secret" /\ create_api_key(r, "secret")
    /\ requests' = (requests \ {r}) \cup {[r EXCEPT !.pc = "browser", !.key = minted']}
    /\ UNCHANGED <<projects, serial, started, faults, shown, retired, broken, struck>>

\* The second key: both are returned to the caller.
mint_browser(r) ==
    /\ r.pc = "browser" /\ create_api_key(r, "browser")
    /\ shown' = shown \cup {r.key, minted'}
    /\ Close(r)
    /\ UNCHANGED <<projects, serial, started, faults, retired, broken, struck>>

\* A mint fails: the earlier writes are undone, best-effort.
mint_failed_KeepProject(r) ==
    /\ Fault /\ r.pc \in {"secret", "browser"}
    /\ IF r.pc = "secret" THEN Close(r) ELSE Becomes(r, "undo_key")
    /\ UNCHANGED <<projects, serial, keys, minted, started, history>>
mint_failed(r) ==
    /\ Fault /\ r.pc \in {"secret", "browser"}
    /\ Becomes(r, IF r.pc = "secret" THEN "undo_project" ELSE "undo_key")
    /\ UNCHANGED <<projects, serial, keys, minted, started, history>>

delete_api_key(r) ==
    /\ r.pc = "undo_key"
    /\ keys' = {k \in keys : k.key # r.key}
    /\ Becomes(r, "undo_project")
    /\ UNCHANGED <<projects, serial, minted, started, faults, history>>

delete_project(r) ==
    /\ r.pc = "undo_project"
    /\ projects' = projects \ {r.project}
    /\ Close(r)
    /\ UNCHANGED <<serial, keys, minted, started, faults, history>>

\* A failed undo is logged, and the next one follows.
undo_failed(r) ==
    /\ Fault
    /\ \/ r.pc = "undo_key" /\ Becomes(r, "undo_project") /\ UNCHANGED broken
       \/ r.pc = "undo_project" /\ Close(r) /\ broken' = broken \cup {r.project}
    /\ UNCHANGED <<projects, serial, keys, minted, started, shown, retired, late, struck>>

-----------------------------------------------------------------------------
\* Rotation of the browser key, asked for by a manager of the organization ...
rotate_publishable_key(p) ==
    /\ Open("rotate", "revoke", p, {k.key : k \in Keys(p, "browser")})
    /\ UNCHANGED <<projects, serial, keys, minted, faults, history>>

\* ... or with a secret key of the project.
post_publishable_key(k) ==
    /\ k.kind = "secret" /\ k.active /\ k.key \in shown /\ k.project \in projects
    /\ rotate_publishable_key(k.project)

\* Keys are found by the number of their project alone.
Struck(r, ks) ==
    struck' = struck \cup {k.project : k \in {j \in ks : j.project # r.project}}

revoke_publishable_keys_for_project_Latest(r) ==
    LET ks == {k \in keys : k.project.id = r.project.id /\ k.kind = "browser" /\ k.active
                            /\ k.key = minted}
    IN  /\ r.pc = "revoke"
        /\ keys' = (keys \ ks) \cup {[k EXCEPT !.active = FALSE] : k \in ks}
        /\ Struck(r, ks) /\ Becomes(r, "replace")
        /\ UNCHANGED <<projects, serial, minted, started, faults, shown, retired, late, broken>>
revoke_publishable_keys_for_project(r) ==
    LET ks == {k \in keys : k.project.id = r.project.id /\ k.kind = "browser" /\ k.active}
    IN  /\ r.pc = "revoke"
        /\ keys' = (keys \ ks) \cup {[k EXCEPT !.active = FALSE] : k \in ks}
        /\ Struck(r, ks) /\ Becomes(r, "replace")
        /\ UNCHANGED <<projects, serial, minted, started, faults, shown, retired, late, broken>>

replace(r) ==
    /\ r.pc = "replace" /\ create_api_key(r, "browser")
    /\ shown' = shown \cup {minted'} /\ retired' = retired \cup r.old
    /\ Close(r)
    /\ UNCHANGED <<projects, serial, started, faults, broken, struck>>

-----------------------------------------------------------------------------
\* Deletion: the keys go first, then every row of the project with its own.
delete_project_for_RowFirst(p) ==
    /\ Open("delete", "row", p, {})
    /\ UNCHANGED <<projects, serial, keys, minted, faults, history>>
delete_project_for(p) ==
    /\ Open("delete", "keys", p, {})
    /\ UNCHANGED <<projects, serial, keys, minted, faults, history>>

delete_api_keys_for_project(r) ==
    LET ks == {k \in keys : k.project.id = r.project.id}
    IN  /\ r.pc = "keys"
        /\ keys' = keys \ ks
        /\ Struck(r, ks) /\ Becomes(r, "row")
        /\ UNCHANGED <<projects, serial, minted, started, faults, shown, retired, late, broken>>

delete_project_by_app(r) ==
    /\ r.pc = "row"
    /\ projects' = projects \ {r.project}
    /\ Close(r)
    /\ UNCHANGED <<serial, keys, minted, started, faults, history>>

\* A request stops half-way: a call without compensation fails, its client
\* goes away, or the process ends.
request_stops(r) ==
    /\ Fault /\ Close(r)
    /\ broken' = broken \cup {r.project}
    /\ UNCHANGED <<projects, serial, keys, minted, started, shown, retired, late, struck>>

Step(r) ==
    \/ create_project(r) \/ mint_secret(r) \/ mint_browser(r) \/ mint_failed(r)
    \/ delete_api_key(r) \/ delete_project(r) \/ undo_failed(r)
    \/ revoke_publishable_keys_for_project(r) \/ replace(r)
    \/ delete_api_keys_for_project(r) \/ delete_project_by_app(r)
    \/ request_stops(r)

Next ==
    \/ \E o \in Orgs : create_project_for(o) \/ count_failed(o)
    \/ \E p \in projects : rotate_publishable_key(p) \/ delete_project_for(p)
    \/ \E k \in keys : post_publishable_key(k)
    \/ \E r \in requests : Step(r)

Spec == Init /\ [][Next]_vars
-----------------------------------------------------------------------------
\* "A retry never sees a project without its keys": a project on which
\* nothing is under way, or was broken off, has a secret key and a browser key
\* that ingest accepts, whatever mints failed and however rotations overlapped.
\* Except a project whose keys another organization's request took: that is
\* what OnlyThisProjectsKeys forbids.
ProjectHasKeys ==
    \A p \in projects \ (broken \cup struck) :
        \/ \E r \in requests : r.project = p
        \/ /\ \E k \in Keys(p, "secret") : k.active
           /\ \E k \in Keys(p, "browser") : pinned(k, p) /\ k.key \in shown

\* "Project deletion [...] revokes only this project's keys": a project loses its
\* secret key by a request on itself, never by the deletion of a project with the
\* same number in another tenant database.
OnlyThisProjectsKeys ==
    \A p \in projects \ broken :
        (\E r \in requests : r.project = p) \/ (\E k \in Keys(p, "secret") : k.active)

\* A key that outlives its project was never returned to anybody ("a leftover
\* is inert"), or was minted by a request the deletion overtook.
KeysDieWithProject ==
    \A k \in keys : k.project \notin projects => k.key \in late \/ k.key \notin shown

\* "Revoke earlier browser keys for a project before returning a
\* replacement": a browser key that existed when an answered rotation began
\* is dead for good, however rotations and creations overlap.  (The key minted by
\* an overlapping rotation is not older, and stays alive beside the new one.)
RotationRetires == \A k \in keys : k.key \in retired => ~k.active
=============================================================================
