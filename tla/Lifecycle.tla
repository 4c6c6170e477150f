------------------------------ MODULE Lifecycle ------------------------------
(***************************************************************************)
(* What happens to one bucket after it has formed: triage by people and by *)
(* verified replays (triage/mod.rs, ingest/replay.rs), the sweep that      *)
(* re-evaluates a claimed fix against production (sweep.rs), and the       *)
(* ticket filed, closed and reopened for it (integrations/mod.rs).         *)
(*                                                                         *)
(* One server process runs the sweep, the drain tasks that ingest spawns   *)
(* and the request handlers, so a crash ends all of them.  The trackers    *)
(* and the customer's CI are external.  The tracker of a project may be    *)
(* replaced while links name issues of the old one, and a failed read of   *)
(* its configuration counts as no configuration.                           *)
(***************************************************************************)
EXTENDS Resolution, Sequences

CONSTANTS
    Builds, FirstBuild, \* build tags, and the one the bucket formed on
    Tasks,              \* the drain tasks and requests that file, at a time
    Posted,             \* the statuses people post
    IsTester,           \* the bucket is a tester capture: a set of BOOLEANs
    NoRow,
    Trackers, NoTracker,\* a provider with its repo or project, and none
    EnvTrackers,        \* the trackers the process environment may configure
    Retention,          \* ticks an occurrence is kept
    MaxTime,            \* bounds: the clock,
    MaxBatches,         \* batches from production,
    MaxEdits,           \* triage and replay requests,
    MaxIssues,          \* issues in the trackers,
    MaxFaults           \* crashes and failed calls

\* The model parameters: "no row" is no status and no event, and "no tracker"
\* no tracker.
ASSUME LifecycleAssumption ==
    /\ NoRow \notin Resolutions /\ NoRow \notin [from : Resolutions, to : Resolutions]
    /\ FirstBuild \in Builds
    /\ NoTracker \notin Trackers /\ EnvTrackers \subseteq Trackers \cup {NoTracker}

VARIABLES
    build_traffic, bug, \* rows [build, count, at]; occurrences [build, at]
    now, batches,
    triage,             \* bucket_triage: [status, anchor], or NoRow
    status,             \* bucket_resolution_status, or NoRow
    event,              \* the latest bucket_resolution_events row [from, to], or NoRow
    sweep,              \* the bucket's part of a sweep pass
    tester,
    tracker,            \* the tracker of the project_integrations row, or NoTracker
    env,                \* the tracker of the process environment, or NoTracker
    outbox,             \* "none", "due" or "leased"
    filing,             \* [pc, tracker, issue] of every task that may file
    issues,             \* the issues filed: [tracker, state]
    link,               \* bucket_tickets: the index of an issue, or 0
    advance,            \* the fixedInBuild of a verified replay, or NoRow
    edits, faults,
    missed              \* history: hooks that did not take effect

production == <<build_traffic, bug, now, batches>>
workflow == <<triage, advance, edits>>
swept == <<status, event, sweep>>
tickets == <<outbox, filing, issues, link>>
settings == <<tester, tracker, env>>
vars == <<production, workflow, swept, tickets, settings, faults, missed>>

Idle == [pc |-> "idle", tracker |-> NoTracker, issue |-> 0, drain |-> FALSE]
Drain(pc) == [Idle EXCEPT !.pc = pc, !.drain = TRUE]
Request == [Idle EXCEPT !.pc = "look"]
NoPass == [pc |-> "idle", anchor |-> NoBuild, at |-> 0, to |-> NoRow, from |-> NoRow]

\* The bucket has just formed, and ingest has spawned a drain task.
Init ==
    /\ build_traffic = {[build |-> FirstBuild, count |-> 1, at |-> 0]}
    /\ bug = {[build |-> FirstBuild, at |-> 0]}
    /\ now = 0 /\ batches = 1
    /\ triage = NoRow /\ status = NoRow /\ event = NoRow /\ sweep = NoPass
    /\ tester \in IsTester /\ tracker \in Trackers /\ env \in EnvTrackers
    /\ outbox = "due" /\ issues = <<>> /\ link = 0
    /\ \E d \in Tasks : filing = [t \in Tasks |-> IF t = d THEN Drain("spawned") ELSE Idle]
    /\ advance = NoRow /\ edits = 0 /\ faults = 0
    /\ missed = {}

Fault == faults < MaxFaults /\ faults' = faults + 1
Missed(hook) == missed' = missed \cup {hook}
\* What a drain missed; a recurrence makes up for it.
Unfiled == {"nothing to file", "unread"}

-----------------------------------------------------------------------------
(* Production. *)

count_traffic(b, at) ==
    LET old == {r \in build_traffic : r.build = b}
    IN  IF old = {} THEN build_traffic \cup {[build |-> b, count |-> 1, at |-> at]}
        ELSE (build_traffic \ old) \cup {[r EXCEPT !.count = @ + 1] : r \in old}

\* A task starts, unless as many are under way as the bound allows.
Start(f) ==
    \/ \E t \in Tasks : filing[t] = Idle /\ filing' = [filing EXCEPT ![t] = f]
    \/ (\A t \in Tasks : filing[t] # Idle) /\ UNCHANGED filing

\* A batch commits.
ingest(b, hit) ==
    /\ batches < MaxBatches
    /\ batches' = batches + 1
    /\ build_traffic' = count_traffic(b, now)
    /\ bug' = IF hit THEN bug \cup {[build |-> b, at |-> now]} ELSE bug
    /\ outbox' = IF hit /\ outbox = "none" THEN "due" ELSE outbox
    /\ missed' = IF hit THEN missed \ Unfiled ELSE missed
    /\ Start(Drain("spawned"))
    /\ UNCHANGED <<now, workflow, swept, issues, link, settings, faults>>

tick ==
    /\ now < MaxTime /\ now' = now + 1
    /\ UNCHANGED <<build_traffic, bug, batches, workflow, swept, tickets, settings,
                   faults, missed>>

\* Retention deletes occurrences by age; the traffic rows stay.
delete_expired_errors ==
    /\ \E o \in bug : o.at < now - Retention
    /\ bug' = {o \in bug : o.at >= now - Retention}
    /\ UNCHANGED <<build_traffic, now, batches, workflow, swept, tickets, settings,
                   faults, missed>>

-----------------------------------------------------------------------------
(* Triage. *)

\* The row as a person sets it: status and anchor are both replaced.
upsert_triage(to, anchor) == triage' = [status |-> to, anchor |-> anchor]

\* A person sets the status; the anchor is the build given with "fixed".
post_triage(to, build) ==
    /\ edits < MaxEdits /\ edits' = edits + 1
    /\ upsert_triage(to, IF to = "fixed" THEN build ELSE NoBuild)
    /\ UNCHANGED <<production, advance, swept, tickets, settings, faults, missed>>

\* A replay result that is no verified fix.  A reproduced tester capture
\* becomes a ticket now.
post_replay_results(result) ==
    /\ edits < MaxEdits /\ edits' = edits + 1
    /\ IF result = "reproduced" /\ tester /\ bug # {} THEN Start(Request)
                                                      ELSE UNCHANGED filing
    /\ UNCHANGED <<production, triage, advance, swept, outbox, issues, link, settings,
                   faults, missed>>

\* A verified fix (three clean runs) has been recorded; the rest follows.
post_verified_fix(build) ==
    /\ edits < MaxEdits /\ edits' = edits + 1 /\ advance = NoRow
    /\ advance' = build
    /\ UNCHANGED <<production, triage, swept, tickets, settings, faults, missed>>

\* Mutant: the upsert has no WHERE on the status.
advance_triage_unless_wontfix_Always ==
    /\ advance # NoRow
    /\ triage' = [status |-> "fixed", anchor |-> advance]
    /\ advance' = NoRow
    /\ UNCHANGED <<production, edits, swept, tickets, settings, faults, missed>>

\* The upsert: a new row, or one that is not wontfix.  An anchor is replaced
\* only when the fix it names has regressed.
advance_triage_unless_wontfix ==
    /\ advance # NoRow
    /\ triage' =
          IF triage = NoRow THEN [status |-> "fixed", anchor |-> advance]
          ELSE IF triage.status = "wontfix" THEN triage
          ELSE [status |-> "fixed",
                anchor |-> IF status = "regressed" \/ triage.anchor = NoBuild
                           THEN advance ELSE triage.anchor]
    /\ advance' = NoRow
    /\ UNCHANGED <<production, edits, swept, tickets, settings, faults, missed>>

\* The anchor write failed: logged, the request goes on.
advance_failed ==
    /\ Fault /\ advance # NoRow
    /\ advance' = NoRow
    /\ UNCHANGED <<production, triage, edits, swept, tickets, settings, missed>>

-----------------------------------------------------------------------------
(* The ticket. *)

\* The tracker configuration of the app is replaced or its token cleared (also
\* by a PUT whose read of the stored token failed).
put_integration(k) ==
    /\ edits < MaxEdits /\ edits' = edits + 1
    /\ tracker' = k
    /\ UNCHANGED <<production, triage, advance, swept, tickets, tester, env, faults, missed>>

\* The tracker a call finds: that of the row, or else that of the environment;
\* a read that fails is logged and counts as no row.
resolve_for(k) ==
    \/ k = (IF tracker # NoTracker THEN tracker ELSE env) /\ UNCHANGED faults
    \/ k = env /\ Fault

\* The bucket has a ticket.
ticket_for_bucket == link # 0

At(t, pc) == filing[t].pc = pc
Goto(t, pc) == filing' = [filing EXCEPT ![t].pc = pc]
End(t) == filing' = [filing EXCEPT ![t] = Idle]
\* A drain task looks for the link after it has tried to file.
Filed(t) == filing' = [filing EXCEPT ![t] = IF filing[t].drain THEN Drain("check") ELSE Idle]

\* Claiming hides the row for at least 15 seconds.
claim_integration_work(d) ==
    /\ At(d, "spawned")
    /\ IF outbox = "due" THEN outbox' = "leased" /\ Goto(d, "claimed")
                         ELSE UNCHANGED outbox /\ End(d)
    /\ UNCHANGED <<production, workflow, swept, issues, link, settings, faults, missed>>

lease_expires ==
    /\ outbox = "leased" /\ outbox' = "due"
    /\ UNCHANGED <<production, workflow, swept, filing, issues, link, settings, faults,
                   missed>>

\* Nothing to file: no tracker, no rows left, or a capture nobody confirmed.
Unfileable(k) == k = NoTracker \/ bug = {} \/ tester

drain_outbox(d) ==
    /\ At(d, "claimed")
    /\ \E k \in Trackers \cup {NoTracker} :
         /\ resolve_for(k)
         /\ IF Unfileable(k)
            THEN /\ outbox' = "none" /\ End(d)
                 /\ Missed(IF Unfileable(tracker) THEN "nothing to file" ELSE "unread")
            ELSE UNCHANGED <<outbox, missed>> /\ Goto(d, "look")
    /\ UNCHANGED <<production, workflow, swept, issues, link, settings>>

\* A database error ends the drain; the row stays leased.
drain_failed(d) ==
    /\ Fault /\ (At(d, "spawned") \/ At(d, "claimed") \/ At(d, "check"))
    /\ End(d)
    /\ UNCHANGED <<production, workflow, swept, outbox, issues, link, settings, missed>>

\* POST .../ticket: a person asks for the ticket of an unlinked bucket.
post_ticket ==
    /\ \E k \in Trackers : resolve_for(k)
    /\ ~ticket_for_bucket /\ bug # {}
    /\ edits < MaxEdits /\ edits' = edits + 1
    /\ Start(Request)
    /\ UNCHANGED <<production, triage, advance, swept, outbox, issues, link, settings, missed>>

\* file_issue_for_bucket, in three steps: no ticket yet, create it, link it, all
\* with the tracker it found first.
file_look(t) ==
    /\ At(t, "look")
    /\ \E k \in Trackers \cup {NoTracker} :
         /\ resolve_for(k)
         /\ IF k # NoTracker /\ ~ticket_for_bucket
            THEN filing' = [filing EXCEPT ![t].pc = "create", ![t].tracker = k]
            ELSE Filed(t)
    /\ UNCHANGED <<production, workflow, swept, outbox, issues, link, settings, missed>>

create_issue(t) ==
    /\ At(t, "create") /\ Len(issues) < MaxIssues
    /\ issues' = Append(issues, [tracker |-> filing[t].tracker, state |-> "open"])
    /\ filing' = [filing EXCEPT ![t].pc = "link", ![t].issue = Len(issues) + 1]
    /\ UNCHANGED <<production, workflow, swept, outbox, link, settings, faults, missed>>

link_ticket(t) ==
    /\ At(t, "link")
    /\ link' = filing[t].issue
    /\ Filed(t)
    /\ UNCHANGED <<production, workflow, swept, outbox, issues, settings, faults, missed>>

\* The lookup, the tracker, or the write of the link fails: logged, nothing is
\* undone.
file_failed(t) ==
    /\ Fault /\ (At(t, "look") \/ At(t, "create") \/ At(t, "link"))
    /\ Filed(t)
    /\ UNCHANGED <<production, workflow, swept, outbox, issues, link, settings, missed>>

\* Mutant: the row is done once filing was tried.
complete_integration_work_Tried(d) ==
    /\ At(d, "check")
    /\ outbox' = "none"
    /\ End(d)
    /\ UNCHANGED <<production, workflow, swept, issues, link, settings, faults, missed>>

complete_integration_work(d) ==
    /\ At(d, "check")
    /\ outbox' = IF ticket_for_bucket THEN "none" ELSE outbox
    /\ End(d)
    /\ UNCHANGED <<production, workflow, swept, issues, link, settings, faults, missed>>

-----------------------------------------------------------------------------
(* The sweep. *)

Pass(pc) == sweep.pc = pc

\* The buckets a pass looks at: those with an anchor.
anchored_buckets == triage # NoRow /\ triage.anchor # NoBuild

\* The pass lists the bucket with its anchor; now is the pass's.
sweep_tenant ==
    /\ Pass("idle") /\ anchored_buckets
    /\ sweep' = [NoPass EXCEPT !.pc = "evaluate", !.anchor = triage.anchor, !.at = now]
    /\ UNCHANGED <<production, workflow, status, event, tickets, settings, faults, missed>>

compute_for_bucket(anchor, at) ==
    evaluate(bug, first_seen_by_build(build_traffic), anchor,
             post_fix_build_traffic(build_traffic, anchor), at)

\* Mutant: only alerting statuses are events.
transition_Alerts(prev, current) ==
    prev # NoRow /\ prev # current /\ current \in {"resolved", "regressed"}

\* No event for the first status of a bucket, nor for one that stays.
transition(prev, current) == prev # NoRow /\ prev # current

sweep_evaluate ==
    /\ Pass("evaluate")
    /\ LET current == compute_for_bucket(sweep.anchor, sweep.at)
       IN  sweep' = [NoPass EXCEPT !.to = current, !.from = status,
                       !.pc = IF transition(status, current) THEN "record" ELSE "persist"]
    /\ UNCHANGED <<production, workflow, status, event, tickets, settings, faults, missed>>

record_resolution_event ==
    /\ Pass("record")
    /\ event' = [from |-> sweep.from, to |-> sweep.to]
    /\ sweep' = [sweep EXCEPT !.pc =
                    IF sweep.to \in {"resolved", "regressed"} THEN "ticket" ELSE "persist"]
    /\ UNCHANGED <<production, workflow, status, tickets, settings, faults, missed>>

\* The issue a hook's call reaches.  The link's external_id goes to whatever
\* tracker is configured now: in another one than the ticket's it names nothing,
\* or another issue.
Elsewhere(k) == link # 0 /\ k # NoTracker /\ issues[link].tracker # k
Named(k) ==
    IF Elsewhere(k) THEN {0} \cup {i \in 1 .. Len(issues) : issues[i].tracker = k}
    ELSE IF k # NoTracker THEN {link} ELSE {0}

\* Mutant: either hook sends the closing transition.
SetIssue_Close(k, state) ==
    \E i \in Named(k) :
       issues' = IF i = 0 THEN issues ELSE [issues EXCEPT ![i].state = "closed"]

SetIssue(k, state) ==
    \E i \in Named(k) :
       issues' = IF i = 0 THEN issues ELSE [issues EXCEPT ![i].state = state]

\* A call to another tracker does not reach the ticket.
Reached(k) == IF Elsewhere(k) THEN Missed("moved") ELSE UNCHANGED missed

\* Proof comment and close; the bucket may have no ticket.
close_ticket_on_fix ==
    /\ Pass("ticket") /\ sweep.to = "resolved"
    /\ \E k \in Trackers \cup {NoTracker} :
         resolve_for(k) /\ SetIssue(k, "closed") /\ Reached(k)
    /\ sweep' = [sweep EXCEPT !.pc = "persist"]
    /\ UNCHANGED <<production, workflow, status, event, outbox, filing, link, settings>>

reopen_ticket_on_regression ==
    /\ Pass("ticket") /\ sweep.to = "regressed"
    /\ \E k \in Trackers \cup {NoTracker} :
         /\ resolve_for(k) /\ SetIssue(k, "open")
         /\ IF k = NoTracker THEN Missed("reopen") ELSE Reached(k)
    /\ sweep' = [sweep EXCEPT !.pc = "persist"]
    /\ UNCHANGED <<production, workflow, status, event, outbox, filing, link, settings>>

\* A hook whose call fails is logged and not repeated.
hook_failed ==
    /\ Fault /\ Pass("ticket")
    /\ sweep' = [sweep EXCEPT !.pc = "persist"]
    /\ IF sweep.to = "regressed" THEN Missed("reopen") ELSE UNCHANGED missed
    /\ UNCHANGED <<production, workflow, status, event, tickets, settings>>

\* The status is the baseline of the next pass, written last.
upsert_resolution_status ==
    /\ Pass("persist")
    /\ status' = sweep.to
    /\ sweep' = NoPass
    /\ UNCHANGED <<production, workflow, event, tickets, settings, faults, missed>>

\* A database error ends the bucket's part of the pass.
sweep_failed ==
    /\ Fault /\ ~Pass("idle")
    /\ sweep' = NoPass
    /\ UNCHANGED <<production, workflow, status, event, tickets, settings, missed>>

\* The process stops: the sweep, the drains and the requests are gone.
crash ==
    /\ Fault
    /\ sweep' = NoPass /\ advance' = NoRow
    /\ filing' = [t \in Tasks |-> Idle]
    /\ UNCHANGED <<production, triage, edits, status, event, outbox, issues, link, settings,
                   missed>>

FileStep(t) ==
    \/ file_look(t) \/ create_issue(t) \/ link_ticket(t)
    \/ claim_integration_work(t) \/ drain_outbox(t) \/ complete_integration_work(t)
SweepStep ==
    \/ sweep_tenant \/ sweep_evaluate \/ record_resolution_event \/ close_ticket_on_fix
    \/ reopen_ticket_on_regression \/ upsert_resolution_status

Next ==
    \/ \E b \in Builds, hit \in BOOLEAN : ingest(b, hit)
    \/ tick \/ delete_expired_errors
    \/ \E to \in Posted, b \in Builds \cup {NoBuild} : post_triage(to, b)
    \/ \E r \in {"reproduced", "stale"} : post_replay_results(r)
    \/ \E b \in Builds \cup {NoBuild} : post_verified_fix(b)
    \/ advance_triage_unless_wontfix \/ advance_failed
    \/ \E k \in (Trackers \cup {NoTracker}) \ {tracker} : put_integration(k)
    \/ lease_expires
    \/ post_ticket
    \/ \E t \in Tasks : FileStep(t) \/ file_failed(t) \/ drain_failed(t)
    \/ SweepStep \/ hook_failed \/ sweep_failed \/ crash

Spec == Init /\ [][Next]_vars
-----------------------------------------------------------------------------
\* The baseline of the sweep changes only to a status the event log tells of:
\* whatever stops between the event and the baseline, no change is lost.
StatusChangesAreLogged ==
    [][status' # status /\ status # NoRow => event = [from |-> status, to |-> status']]_vars

\* A bucket that forms in a project with a tracker has a ticket or is still
\* owed one, whatever crashes or fails and however often the tracker is replaced.
\* Except since a drain found nothing to file, or did not find the tracker that
\* is configured because the read of it failed, until the bug recurs.
TicketOwed == missed \cap Unfiled # {} \/ link # 0 \/ outbox # "none"

\* No verdict stands against the ticket: while log and baseline say
\* "regressed" the linked ticket is open, also after crashes, repeated passes
\* and new links.  Except when a reopening failed or found no tracker, and when
\* the tracker was replaced and a hook called the new one with the old id.  (A
\* pass that stops after closing the ticket leaves them apart, and a recurrence
\* before the next pass is then no transition: log and ticket stay "resolved".)
RegressedTicketIsOpen ==
    /\ status = "regressed" /\ (event = NoRow \/ event.to = status)
    /\ link # 0 /\ Pass("idle") /\ missed \cap {"reopen", "moved"} = {}
    => issues[link].state = "open"

\* A person's "won't fix" outlasts every verified replay, also one that was
\* under way when it was set.
WontfixStands ==
    [][triage # NoRow /\ triage.status = "wontfix" /\ triage' # triage => edits' # edits]_vars
=============================================================================
