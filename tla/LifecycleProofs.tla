-------------------------- MODULE LifecycleProofs ---------------------------
(***************************************************************************)
(* Proofs about Lifecycle for any builds, any number of filing tasks and   *)
(* any bounds: the ticket a bucket is owed, the log of its status changes, *)
(* the ticket of a regression, and a person's "won't fix".                 *)
(***************************************************************************)
EXTENDS Lifecycle, SequenceTheorems, TLAPS

-----------------------------------------------------------------------------
(* The parts of the inductive invariant. *)

Tags == Builds \cup {NoBuild}
Verdicts == Resolutions \cup {NoRow}
Remotes == Trackers \cup {NoTracker}
FilingType == [pc : {"idle", "spawned", "claimed", "look", "create", "link", "check"},
               tracker : Remotes, issue : Nat, drain : BOOLEAN]
IssueType == [tracker : Remotes, state : {"open", "closed"}]
SweepType == [pc : {"idle", "evaluate", "record", "ticket", "persist"}, anchor : Tags,
              at : Nat, to : Verdicts, from : Verdicts]

TypesOK ==
    /\ now \in Nat /\ edits \in Nat /\ tracker \in Remotes /\ env \in Remotes
    /\ triage # NoRow => triage \in [status : Posted \cup {"fixed"}, anchor : Tags]
    /\ advance \in Tags \cup {NoRow}
    /\ status \in Verdicts
    /\ sweep \in SweepType
    /\ sweep.pc \in {"record", "ticket", "persist"} => sweep.to \in Resolutions
    /\ issues \in Seq(IssueType)
    /\ filing \in [Tasks -> FilingType]
    /\ link \in 0 .. Len(issues)

\* An issue that waits for its link is nobody else's and not linked, and it is
\* open unless a call with another ticket's id went to its tracker.
UnlinkedAreOpen ==
    \A t \in Tasks : filing[t].pc = "link" =>
        /\ filing[t].issue \in 1 .. Len(issues) /\ filing[t].issue # link
        /\ "moved" \notin missed => issues[filing[t].issue].state = "open"
        /\ \A d \in Tasks \ {t} :
              filing[d].pc = "link" => filing[d].issue # filing[t].issue

\* The latest event of the log.
Logged(e) == event = e
Transition == [from |-> status, to |-> sweep.to]

\* A pass records a change of the baseline it read, before it acts on it.
RecordIsChange ==
    Pass("record") => status # NoRow /\ sweep.from = status /\ sweep.to # status
TicketIsLogged ==
    Pass("ticket") => status # NoRow /\ sweep.to # status /\ Logged(Transition)
PersistIsLogged ==
    Pass("persist") => status = NoRow \/ sweep.to = status \/ Logged(Transition)

\* Tickets are closed by a change of the status only.
FreshAreOpen == status = NoRow => \A i \in 1 .. Len(issues) : issues[i].state = "open"

\* The linked ticket is closed, and no hook has failed to open it or reached
\* another one.
Shut == link # 0 /\ issues[link].state = "closed" /\ missed \cap {"reopen", "moved"} = {}

\* A closed ticket is never behind both the log and the baseline ...
ShutIsNoRegression ==
    Shut => \/ status # "regressed"
            \/ event # NoRow /\ event.to # "regressed"
\* ... nor behind a regression about to become the baseline.
ReopenedBeforePersist ==
    Pass("persist") /\ sweep.to = "regressed" /\ Shut => status = "regressed"

\* The inductive invariant.
LifecycleInv ==
    /\ TypesOK
    /\ TicketOwed /\ UnlinkedAreOpen
    /\ RecordIsChange /\ TicketIsLogged /\ PersistIsLogged
    /\ FreshAreOpen /\ ShutIsNoRegression /\ ReopenedBeforePersist

-----------------------------------------------------------------------------
(* Types. *)

\* A verdict is one of the four resolutions.
LEMMA VerdictType ==
    ASSUME NEW anchor, NEW at
    PROVE  compute_for_bucket(anchor, at) \in Resolutions
BY DEF compute_for_bucket, evaluate, Resolutions

\* The tables start empty and nothing is under way.
LEMMA InitTypes == Init => TypesOK
<1> SUFFICES ASSUME Init PROVE TypesOK
  OBVIOUS
<1>1. filing \in [Tasks -> FilingType]
  <2>1. Idle \in FilingType /\ Drain("spawned") \in FilingType
    BY DEF Idle, Drain, FilingType, Remotes
  <2> QED
    BY <2>1 DEF Init
<1>2. sweep \in SweepType /\ sweep.pc = "idle"
  BY DEF Init, NoPass, SweepType, Tags, Verdicts
<1>3. issues \in Seq(IssueType) /\ Len(issues) = 0
  BY EmptySeq DEF Init
<1>4. tracker \in Remotes /\ env \in Remotes
  BY LifecycleAssumption DEF Init, Remotes
<1> QED
  BY <1>1, <1>2, <1>3, <1>4 DEF Init, TypesOK, Verdicts

\* The tasks.
LEMMA FilingStep ==
    ASSUME TypesOK, [Next]_vars
    PROVE  filing' \in [Tasks -> FilingType]
<1>1. filing \in [Tasks -> FilingType] /\ issues \in Seq(IssueType)
  BY DEF TypesOK
<1>2. /\ Idle \in FilingType /\ Request \in FilingType
      /\ Drain("spawned") \in FilingType /\ Drain("check") \in FilingType
  BY DEF Idle, Request, Drain, FilingType, Remotes
<1>3. ASSUME NEW f \in FilingType, Start(f) PROVE filing' \in [Tasks -> FilingType]
  BY <1>1, <1>3 DEF Start
<1>4. ASSUME NEW t \in Tasks, End(t) \/ Filed(t) PROVE filing' \in [Tasks -> FilingType]
  BY <1>1, <1>2, <1>4 DEF End, Filed
<1>5. ASSUME NEW t \in Tasks, NEW pc \in {"claimed", "look"}, Goto(t, pc)
      PROVE  filing' \in [Tasks -> FilingType]
  <2>1. [filing[t] EXCEPT !.pc = pc] \in FilingType
    BY <1>1, <1>5 DEF FilingType
  <2> QED
    BY <1>1, <1>5, <2>1 DEF Goto
<1>6. ASSUME NEW t \in Tasks, create_issue(t) PROVE filing' \in [Tasks -> FilingType]
  <2>1. Len(issues) + 1 \in Nat
    BY <1>1, LenProperties
  <2>2. [filing[t] EXCEPT !.pc = "link", !.issue = Len(issues) + 1] \in FilingType
    BY <1>1, <2>1 DEF FilingType
  <2>3. filing' = [filing EXCEPT ![t] = [filing[t] EXCEPT !.pc = "link", !.issue = Len(issues) + 1]]
    BY <1>1, <1>6 DEF create_issue
  <2> QED
    BY <1>1, <2>2, <2>3
<1>12. ASSUME NEW t \in Tasks, file_look(t) PROVE filing' \in [Tasks -> FilingType]
  <2>1. CASE Filed(t)
    BY <1>4, <2>1
  <2>2. CASE \E k \in Remotes :
                filing' = [filing EXCEPT ![t].pc = "create", ![t].tracker = k]
    <3>1. PICK k \in Remotes :
             filing' = [filing EXCEPT ![t] = [filing[t] EXCEPT !.pc = "create", !.tracker = k]]
      BY <1>1, <2>2
    <3>2. [filing[t] EXCEPT !.pc = "create", !.tracker = k] \in FilingType
      BY <1>1 DEF FilingType
    <3> QED
      BY <1>1, <3>1, <3>2
  <2> QED
    BY <1>12, <2>1, <2>2 DEF file_look, Remotes
<1>7. CASE UNCHANGED filing
  BY <1>1, <1>7
<1>8. CASE crash
  BY <1>2, <1>8 DEF crash
<1>9. ASSUME NEW t \in Tasks, FileStep(t) \/ file_failed(t) \/ drain_failed(t)
      PROVE  filing' \in [Tasks -> FilingType]
  BY <1>4, <1>5, <1>6, <1>9, <1>12
     DEF FileStep, file_failed, link_ticket, claim_integration_work, drain_outbox, drain_failed,
         complete_integration_work
<1>10. ASSUME NEW b, NEW hit, ingest(b, hit) PROVE filing' \in [Tasks -> FilingType]
  BY <1>2, <1>3, <1>10 DEF ingest
<1>11. ASSUME NEW r, post_replay_results(r) \/ post_ticket PROVE filing' \in [Tasks -> FilingType]
  BY <1>2, <1>3, <1>7, <1>11 DEF post_replay_results, post_ticket
<1> QED
  BY <1>7, <1>8, <1>9, <1>10, <1>11
     DEF Next, vars, tickets, tick, delete_expired_errors, post_triage, post_verified_fix,
         advance_triage_unless_wontfix, advance_failed, put_integration, lease_expires, SweepStep,
         sweep_tenant, sweep_evaluate, record_resolution_event, close_ticket_on_fix,
         reopen_ticket_on_regression, upsert_resolution_status, hook_failed, sweep_failed

\* Only these change the tracker or the link.
LEMMA TicketCases ==
    ASSUME [Next]_vars
    PROVE  \/ UNCHANGED <<issues, link>>
           \/ \E t \in Tasks : create_issue(t) \/ link_ticket(t)
           \/ close_ticket_on_fix \/ reopen_ticket_on_regression
BY DEF Next, vars, tickets, tick, delete_expired_errors, post_triage, post_verified_fix,
       advance_triage_unless_wontfix, advance_failed, put_integration, lease_expires, SweepStep,
       sweep_tenant, sweep_evaluate, record_resolution_event, upsert_resolution_status,
       hook_failed, sweep_failed, crash, ingest, post_replay_results, post_ticket, FileStep,
       file_failed, file_look, claim_integration_work, drain_outbox, drain_failed,
       complete_integration_work

\* What a call to a tracker does: an issue it names gets the state, in the
\* tracker of the ticket the ticket's, and nothing else changes.
LEMMA SetIssueEffect ==
    ASSUME TypesOK, NEW k \in Remotes, NEW state \in {"open", "closed"}, SetIssue(k, state)
    PROVE  /\ issues' \in Seq(IssueType) /\ Len(issues') = Len(issues)
           /\ \A i \in 1 .. Len(issues) :
                 \/ issues'[i] = issues[i]
                 \/ issues'[i].state = state /\ (i = link \/ Elsewhere(k))
           /\ k # NoTracker /\ ~Elsewhere(k) /\ link # 0 => issues'[link].state = state
<1>1. issues \in Seq(IssueType) /\ link \in 0 .. Len(issues) /\ Len(issues) \in Nat
  BY LenProperties DEF TypesOK
<1>2. PICK i \in Named(k) :
         issues' = IF i = 0 THEN issues ELSE [issues EXCEPT ![i].state = state]
  BY DEF SetIssue
<1>3. /\ i \in 0 .. Len(issues) /\ (Elsewhere(k) \/ i \in {0, link})
      /\ k # NoTracker /\ ~Elsewhere(k) => i = link
  BY <1>1 DEF Named
<1>4. CASE i = 0
  BY <1>1, <1>2, <1>3, <1>4
<1>5. CASE i # 0
  <2>1. i \in 1 .. Len(issues) /\ issues[i] \in IssueType
    BY <1>1, <1>3, <1>5, ElementOfSeq
  <2> DEFINE f == [issues[i] EXCEPT !.state = state]
  <2>2. f \in IssueType /\ f.state = state
    BY <2>1 DEF IssueType
  <2>3. issues' = [issues EXCEPT ![i] = f]
    BY <1>2, <1>5
  <2> HIDE DEF f
  <2>4. /\ issues' \in Seq(IssueType) /\ Len(issues') = Len(issues)
        /\ \A j \in 1 .. Len(issues) :
              issues'[j] = IF j = i THEN f ELSE issues[j]
    BY <1>1, <2>1, <2>2, <2>3, ExceptSeq
  <2> QED
    BY <1>1, <1>3, <2>1, <2>2, <2>4
<1> QED
  BY <1>4, <1>5

\* A new issue is open and the others stay as they are.
LEMMA CreateEffect ==
    ASSUME TypesOK, NEW t \in Tasks, create_issue(t)
    PROVE  /\ issues' \in Seq(IssueType) /\ Len(issues') = Len(issues) + 1
           /\ \A i \in 1 .. Len(issues) : issues'[i] = issues[i]
           /\ issues'[Len(issues) + 1].state = "open"
           /\ link' = link /\ UNCHANGED <<swept, missed>>
           /\ filing' = [filing EXCEPT ![t] =
                 [filing[t] EXCEPT !.pc = "link", !.issue = Len(issues) + 1]]
<1>1. issues \in Seq(IssueType) /\ filing \in [Tasks -> FilingType]
  BY DEF TypesOK
<1> DEFINE new == [tracker |-> filing[t].tracker, state |-> "open"]
<1>2. issues' = Append(issues, new) /\ new \in IssueType /\ new.state = "open"
  BY <1>1 DEF create_issue, FilingType, IssueType
<1> HIDE DEF new
<1>3. /\ issues' \in Seq(IssueType) /\ Len(issues') = Len(issues) + 1
      /\ \A i \in 1 .. Len(issues) : issues'[i] = issues[i]
      /\ issues'[Len(issues) + 1].state = "open"
  BY <1>1, <1>2, AppendProperties
<1>4. filing' = [filing EXCEPT ![t] =
         [filing[t] EXCEPT !.pc = "link", !.issue = Len(issues) + 1]]
  BY <1>1 DEF create_issue
<1>5. link' = link /\ UNCHANGED <<swept, missed>>
  BY DEF create_issue
<1> QED
  BY <1>3, <1>4, <1>5

\* The tracker has issues only, and the link names one of them.
LEMMA IssuesStep ==
    ASSUME TypesOK, UnlinkedAreOpen, [Next]_vars
    PROVE  issues' \in Seq(IssueType) /\ link' \in 0 .. Len(issues')
<1>1. issues \in Seq(IssueType) /\ link \in 0 .. Len(issues) /\ Len(issues) \in Nat
  BY LenProperties DEF TypesOK
<1>2. CASE UNCHANGED <<issues, link>>
  BY <1>1, <1>2
<1>3. ASSUME NEW t \in Tasks, create_issue(t)
      PROVE  issues' \in Seq(IssueType) /\ link' \in 0 .. Len(issues')
  <2>1. issues' \in Seq(IssueType) /\ Len(issues') = Len(issues) + 1 /\ link' = link
    BY <1>3, CreateEffect
  <2> QED
    BY <1>1, <2>1
<1>4. ASSUME NEW t \in Tasks, link_ticket(t)
      PROVE  issues' \in Seq(IssueType) /\ link' \in 0 .. Len(issues')
  <2>1. filing[t].issue \in 1 .. Len(issues) /\ link' = filing[t].issue /\ issues' = issues
    BY <1>4 DEF UnlinkedAreOpen, link_ticket, At
  <2> QED
    BY <1>1, <2>1
<1>5. CASE close_ticket_on_fix \/ reopen_ticket_on_regression
  <2>1. PICK k \in Remotes, state \in {"open", "closed"} : SetIssue(k, state) /\ link' = link
    BY <1>5 DEF close_ticket_on_fix, reopen_ticket_on_regression, Remotes
  <2>2. issues' \in Seq(IssueType) /\ Len(issues') = Len(issues)
    BY <2>1, SetIssueEffect
  <2> QED
    BY <1>1, <2>1, <2>2
<1> QED
  BY <1>2, <1>3, <1>4, <1>5, TicketCases

\* Only these change the sweep, the baseline or the log.
LEMMA SweepCases ==
    ASSUME [Next]_vars
    PROVE  \/ UNCHANGED swept
           \/ SweepStep \/ hook_failed
           \/ sweep' = NoPass /\ UNCHANGED <<status, event, issues, link, missed>>
BY DEF Next, vars, swept, tickets, tick, delete_expired_errors, post_triage, post_verified_fix,
       advance_triage_unless_wontfix, advance_failed, put_integration, lease_expires,
       sweep_failed, crash, ingest, post_replay_results, post_ticket, FileStep, create_issue,
       link_ticket, file_failed, file_look, claim_integration_work, drain_outbox, drain_failed,
       complete_integration_work

\* The trackers: only a PUT changes the one of the row.
LEMMA TrackerStep ==
    ASSUME TypesOK, [Next]_vars
    PROVE  tracker' \in Remotes /\ env' \in Remotes
<1>1. tracker \in Remotes /\ env \in Remotes
  BY DEF TypesOK
<1>2. ASSUME NEW k \in Remotes, put_integration(k)
      PROVE  tracker' \in Remotes /\ env' \in Remotes
  BY <1>1, <1>2 DEF put_integration
<1>3. CASE UNCHANGED settings
  BY <1>1, <1>3 DEF settings
<1> QED
  BY <1>2, <1>3
     DEF Next, vars, Remotes, tick, delete_expired_errors, post_triage, post_verified_fix,
         advance_triage_unless_wontfix, advance_failed, lease_expires, SweepStep,
         sweep_tenant, sweep_evaluate, record_resolution_event, close_ticket_on_fix,
         reopen_ticket_on_regression, upsert_resolution_status, hook_failed, sweep_failed, crash,
         ingest, post_replay_results, post_ticket, FileStep, create_issue, link_ticket,
         file_failed, file_look, claim_integration_work, drain_outbox, drain_failed,
         complete_integration_work

\* The row of triage and the anchor under way.
LEMMA WorkflowStep ==
    ASSUME TypesOK, [Next]_vars
    PROVE  /\ now' \in Nat /\ edits' \in Nat
           /\ advance' \in Tags \cup {NoRow}
           /\ triage' # NoRow => triage' \in [status : Posted \cup {"fixed"}, anchor : Tags]
<1>1. /\ now \in Nat /\ edits \in Nat
      /\ advance \in Tags \cup {NoRow}
      /\ triage # NoRow => triage \in [status : Posted \cup {"fixed"}, anchor : Tags]
  BY DEF TypesOK
<1>2. ASSUME NEW to \in Posted, NEW b \in Tags, post_triage(to, b)
      PROVE  /\ triage' \in [status : Posted \cup {"fixed"}, anchor : Tags]
             /\ edits' \in Nat /\ UNCHANGED <<now, advance>>
  BY <1>1, <1>2 DEF post_triage, upsert_triage, Tags, production, settings
<1>3. ASSUME advance_triage_unless_wontfix
      PROVE  /\ triage' \in [status : Posted \cup {"fixed"}, anchor : Tags]
             /\ advance' = NoRow /\ UNCHANGED <<now, edits>>
  <2>1. advance \in Tags
    BY <1>1, <1>3 DEF advance_triage_unless_wontfix
  <2>2. CASE triage = NoRow
    BY <1>3, <2>1, <2>2 DEF advance_triage_unless_wontfix, production, settings
  <2>3. CASE triage # NoRow
    BY <1>1, <1>3, <2>1, <2>3 DEF advance_triage_unless_wontfix, production, settings
  <2> QED
    BY <2>2, <2>3
<1>4. CASE UNCHANGED <<triage, advance>>
           /\ now' \in {now, now + 1} /\ edits' \in {edits, edits + 1}
  BY <1>1, <1>4
<1>5. CASE UNCHANGED <<triage, now, edits>> /\ advance' = NoRow
  BY <1>1, <1>5
<1>6. ASSUME NEW b \in Tags, post_verified_fix(b)
      PROVE  advance' \in Tags /\ edits' \in Nat /\ UNCHANGED <<triage, now>>
  BY <1>1, <1>6 DEF post_verified_fix, production, settings
<1>7. \/ UNCHANGED <<triage, advance>>
         /\ now' \in {now, now + 1} /\ edits' \in {edits, edits + 1}
      \/ UNCHANGED <<triage, now, edits>> /\ advance' = NoRow
      \/ advance_triage_unless_wontfix
      \/ \E to \in Posted, b \in Tags : post_triage(to, b)
      \/ \E b \in Tags : post_verified_fix(b)
  BY DEF Next, vars, production, workflow, settings, Tags, tick, delete_expired_errors,
         advance_failed, put_integration, lease_expires, SweepStep, sweep_tenant, sweep_evaluate,
         record_resolution_event, close_ticket_on_fix, reopen_ticket_on_regression,
         upsert_resolution_status, hook_failed, sweep_failed, crash, ingest,
         post_replay_results, post_ticket, FileStep, create_issue, link_ticket, file_failed,
         file_look, claim_integration_work, drain_outbox, drain_failed,
         complete_integration_work
<1> QED
  BY <1>1, <1>2, <1>3, <1>4, <1>5, <1>6, <1>7

\* The pass, its baseline and the log.
Acting == {"record", "ticket", "persist"}
SweepTypes ==
    /\ sweep \in SweepType /\ (sweep.pc \in Acting => sweep.to \in Resolutions)
    /\ status \in Verdicts

\* The pass, the baseline and the log keep their types.
LEMMA SweepTypesStep ==
    ASSUME TypesOK, [Next]_vars
    PROVE  SweepTypes'
<1>1. SweepTypes /\ now \in Nat
  BY DEF TypesOK, SweepTypes, Acting
<1>2. NoPass \in SweepType /\ NoPass.pc = "idle"
  BY DEF NoPass, SweepType, Tags, Verdicts
<1>3. CASE UNCHANGED swept
  BY <1>1, <1>3 DEF swept, SweepTypes
<1>4. CASE sweep' = NoPass /\ UNCHANGED <<status, event, issues, link, missed>>
  BY <1>1, <1>2, <1>4 DEF SweepTypes, Acting
<1>5. CASE sweep_tenant
  <2>1. triage.anchor \in Tags
    BY <1>5 DEF TypesOK, sweep_tenant, anchored_buckets
  <2>2. sweep' \in SweepType /\ sweep'.pc = "evaluate"
    BY <1>1, <1>5, <2>1 DEF sweep_tenant, NoPass, SweepType, Verdicts
  <2> QED
    BY <1>1, <1>5, <2>2 DEF sweep_tenant, SweepTypes, Acting
<1>6. CASE sweep_evaluate
  <2> DEFINE current == compute_for_bucket(sweep.anchor, sweep.at)
  <2>1. current \in Resolutions /\ status \in Verdicts
    BY <1>1, VerdictType DEF SweepTypes
  <2>2. sweep' = [NoPass EXCEPT !.to = current, !.from = status,
                     !.pc = IF transition(status, current) THEN "record" ELSE "persist"]
    BY <1>6 DEF sweep_evaluate
  <2> HIDE DEF current
  <2>3. sweep' \in SweepType /\ sweep'.to = current
    BY <2>1, <2>2 DEF NoPass, SweepType, Verdicts, Tags
  <2> QED
    BY <1>1, <1>6, <2>1, <2>3 DEF sweep_evaluate, SweepTypes
<1>7. CASE record_resolution_event
  <2>1. sweep.to \in Resolutions /\ sweep.to \in Verdicts /\ sweep.from \in Verdicts
    BY <1>1, <1>7 DEF record_resolution_event, Pass, SweepTypes, Acting, SweepType, Verdicts
  <2>2. sweep' \in SweepType /\ sweep'.to = sweep.to
    BY <1>1, <1>7 DEF record_resolution_event, SweepTypes, SweepType
  <2> QED
    BY <1>1, <1>7, <2>1, <2>2 DEF record_resolution_event, SweepTypes
<1>8. CASE close_ticket_on_fix \/ reopen_ticket_on_regression \/ hook_failed
  <2>1. /\ sweep.pc = "ticket" /\ sweep' = [sweep EXCEPT !.pc = "persist"]
        /\ UNCHANGED <<status, event>>
    BY <1>8 DEF close_ticket_on_fix, reopen_ticket_on_regression, hook_failed, Pass
  <2>2. sweep' \in SweepType /\ sweep'.to = sweep.to
    BY <1>1, <2>1 DEF SweepTypes, SweepType
  <2> QED
    BY <1>1, <2>1, <2>2 DEF SweepTypes, Acting
<1>9. CASE upsert_resolution_status
  <2>1. sweep.to \in Verdicts /\ status' = sweep.to /\ sweep' = NoPass
    BY <1>1, <1>9 DEF upsert_resolution_status, Pass, SweepTypes, Acting, Verdicts
  <2> QED
    BY <1>1, <1>2, <2>1 DEF SweepTypes, Acting
<1> QED
  BY <1>3, <1>4, <1>5, <1>6, <1>7, <1>8, <1>9, SweepCases DEF SweepStep

\* Every step preserves the types.
LEMMA TypesStep ==
    ASSUME TypesOK, UnlinkedAreOpen, [Next]_vars
    PROVE  TypesOK'
BY FilingStep, IssuesStep, TrackerStep, WorkflowStep, SweepTypesStep DEF TypesOK, SweepTypes, Acting

-----------------------------------------------------------------------------
(* The ticket. *)

\* A bucket without a ticket keeps its row: it is removed by a drain that
\* found a ticket or nothing to file, and a link is never taken away.
LEMMA TicketOwedStep ==
    ASSUME TypesOK, UnlinkedAreOpen, TicketOwed, [Next]_vars
    PROVE  TicketOwed'
<1>1. CASE UNCHANGED <<outbox, link>> /\ missed \subseteq missed'
  BY <1>1 DEF TicketOwed
<1>2. ASSUME NEW b, NEW hit, ingest(b, hit) PROVE TicketOwed'
  BY <1>2 DEF ingest, TicketOwed
<1>3. CASE lease_expires
  BY <1>3 DEF lease_expires, TicketOwed
<1>4. ASSUME NEW t \in Tasks, link_ticket(t) PROVE TicketOwed'
  <2>1. filing[t].issue \in 1 .. Len(issues)
    BY <1>4 DEF UnlinkedAreOpen, link_ticket, At
  <2> QED
    BY <1>4, <2>1 DEF link_ticket, TicketOwed
<1>5. ASSUME NEW t \in Tasks,
             claim_integration_work(t) \/ drain_outbox(t) \/ complete_integration_work(t)
      PROVE  TicketOwed'
  BY <1>5 DEF claim_integration_work, drain_outbox, complete_integration_work,
              ticket_for_bucket, Missed, Unfiled, TicketOwed
<1>6. CASE close_ticket_on_fix \/ reopen_ticket_on_regression \/ hook_failed
  BY <1>6 DEF close_ticket_on_fix, reopen_ticket_on_regression, hook_failed, tickets, Missed,
              Reached, TicketOwed
<1> QED
  BY <1>1, <1>2, <1>3, <1>4, <1>5, <1>6
     DEF Next, vars, tickets, tick, delete_expired_errors, post_triage, post_verified_fix,
         advance_triage_unless_wontfix, advance_failed, put_integration, SweepStep, sweep_tenant,
         sweep_evaluate, record_resolution_event, upsert_resolution_status,
         sweep_failed, crash, post_replay_results, post_ticket, FileStep, create_issue,
         file_failed, file_look, drain_failed

\* Only creating an issue makes a task wait for its link.
LEMMA WaitingCases ==
    ASSUME TypesOK, [Next]_vars
    PROVE  \/ \E t \in Tasks : create_issue(t)
           \/ \A t \in Tasks : filing'[t].pc = "link" => filing'[t] = filing[t]
<1>1. filing \in [Tasks -> FilingType]
  BY DEF TypesOK
<1>2. ASSUME NEW t \in Tasks, NEW pc \in {"claimed", "look"}, Goto(t, pc)
      PROVE  \A d \in Tasks : filing'[d].pc = "link" => filing'[d] = filing[d]
  BY <1>1, <1>2 DEF Goto, FilingType
<1>3. ASSUME NEW t \in Tasks, End(t) \/ Filed(t)
      PROVE  \A d \in Tasks : filing'[d].pc = "link" => filing'[d] = filing[d]
  <2>1. Idle.pc # "link" /\ Drain("check").pc # "link"
    BY DEF Idle, Drain
  <2>2. PICK f \in {Idle, Drain("check")} : filing' = [filing EXCEPT ![t] = f]
    BY <1>3 DEF End, Filed
  <2> QED
    BY <1>1, <2>1, <2>2
<1>4. ASSUME NEW f \in {Drain("spawned"), Request}, Start(f)
      PROVE  \A d \in Tasks : filing'[d].pc = "link" => filing'[d] = filing[d]
  <2>1. f.pc # "link"
    BY <1>4 DEF Drain, Request, Idle
  <2> QED
    BY <1>1, <1>4, <2>1 DEF Start
<1>5. CASE UNCHANGED filing
  BY <1>5
<1>6. CASE crash
  BY <1>6 DEF crash, Idle
<1>9. ASSUME NEW t \in Tasks, file_look(t)
      PROVE  \A d \in Tasks : filing'[d].pc = "link" => filing'[d] = filing[d]
  <2>1. CASE Filed(t)
    BY <1>3, <2>1
  <2>2. CASE \E k \in Remotes :
                filing' = [filing EXCEPT ![t].pc = "create", ![t].tracker = k]
    <3>1. PICK k \in Remotes :
             filing' = [filing EXCEPT ![t] = [filing[t] EXCEPT !.pc = "create", !.tracker = k]]
      BY <1>1, <2>2
    <3>2. [filing[t] EXCEPT !.pc = "create", !.tracker = k].pc = "create"
      BY <1>1 DEF FilingType
    <3> QED
      BY <1>1, <3>1, <3>2
  <2> QED
    BY <1>9, <2>1, <2>2 DEF file_look, Remotes
<1>7. ASSUME NEW t \in Tasks, FileStep(t) \/ file_failed(t) \/ drain_failed(t), ~create_issue(t)
      PROVE  \A d \in Tasks : filing'[d].pc = "link" => filing'[d] = filing[d]
  BY <1>2, <1>3, <1>7, <1>9
     DEF FileStep, file_failed, link_ticket, claim_integration_work, drain_outbox, drain_failed,
         complete_integration_work
<1>8. ASSUME NEW r, NEW b, NEW hit, ingest(b, hit) \/ post_replay_results(r) \/ post_ticket
      PROVE  \A d \in Tasks : filing'[d].pc = "link" => filing'[d] = filing[d]
  BY <1>4, <1>5, <1>8 DEF ingest, post_replay_results, post_ticket
<1> QED
  BY <1>5, <1>6, <1>7, <1>8
     DEF Next, vars, tickets, tick, delete_expired_errors, post_triage, post_verified_fix,
         advance_triage_unless_wontfix, advance_failed, put_integration, lease_expires, SweepStep,
         sweep_tenant, sweep_evaluate, record_resolution_event, close_ticket_on_fix,
         reopen_ticket_on_regression, upsert_resolution_status, hook_failed, sweep_failed

\* A hook that did not reach the ticket stays on record.
LEMMA MissedStep ==
    ASSUME [Next]_vars, NEW hook \in {"reopen", "moved"}, hook \in missed
    PROVE  hook \in missed'
BY DEF Next, vars, tick, delete_expired_errors, post_triage, post_verified_fix,
       advance_triage_unless_wontfix, advance_failed, put_integration, lease_expires, SweepStep,
       sweep_tenant, sweep_evaluate, record_resolution_event, close_ticket_on_fix,
       reopen_ticket_on_regression, upsert_resolution_status, hook_failed, sweep_failed, crash,
       ingest, post_replay_results, post_ticket, FileStep, create_issue, link_ticket,
       file_failed, file_look, claim_integration_work, drain_outbox, drain_failed,
       complete_integration_work, Missed, Reached, Unfiled

\* Nobody but its task touches an issue that waits for its link.
LEMMA UnlinkedStep ==
    ASSUME TypesOK, UnlinkedAreOpen, [Next]_vars
    PROVE  UnlinkedAreOpen'
<1>1. /\ issues \in Seq(IssueType) /\ Len(issues) \in Nat
      /\ filing \in [Tasks -> FilingType] /\ link \in 0 .. Len(issues)
  BY LenProperties DEF TypesOK
<1>2. ASSUME NEW t \in Tasks, create_issue(t) PROVE UnlinkedAreOpen'
  <2>1. /\ Len(issues') = Len(issues) + 1
        /\ \A i \in 1 .. Len(issues) : issues'[i] = issues[i]
        /\ issues'[Len(issues) + 1].state = "open" /\ link' = link /\ missed' = missed
    BY <1>2, CreateEffect
  <2>2. /\ filing'[t].pc = "link" /\ filing'[t].issue = Len(issues) + 1
        /\ \A d \in Tasks \ {t} : filing'[d] = filing[d]
    <3> DEFINE f == [filing[t] EXCEPT !.pc = "link", !.issue = Len(issues) + 1]
    <3>1. f.pc = "link" /\ f.issue = Len(issues) + 1
      BY <1>1 DEF FilingType
    <3>2. filing' = [filing EXCEPT ![t] = f]
      BY <1>2, CreateEffect
    <3> HIDE DEF f
    <3> QED
      BY <1>1, <3>1, <3>2
  <2> SUFFICES ASSUME NEW d \in Tasks, filing'[d].pc = "link"
               PROVE  /\ filing'[d].issue \in 1 .. Len(issues')
                      /\ filing'[d].issue # link'
                      /\ "moved" \notin missed' => issues'[filing'[d].issue].state = "open"
                      /\ \A e \in Tasks \ {d} :
                            filing'[e].pc = "link" => filing'[e].issue # filing'[d].issue
    BY DEF UnlinkedAreOpen
  <2>3. CASE d = t
    <3>1. \A e \in Tasks \ {t} : filing'[e].pc = "link" => filing'[e].issue \in 1 .. Len(issues)
      BY <2>2 DEF UnlinkedAreOpen
    <3> QED
      BY <1>1, <2>1, <2>2, <2>3, <3>1
  <2>4. CASE d # t
    <3>1. /\ filing[d].issue \in 1 .. Len(issues) /\ filing'[d] = filing[d]
          /\ filing[d].issue # link
          /\ "moved" \notin missed => issues[filing[d].issue].state = "open"
          /\ \A e \in Tasks \ {d} : filing[e].pc = "link" => filing[e].issue # filing[d].issue
      BY <2>2, <2>4 DEF UnlinkedAreOpen
    <3> QED
      BY <1>1, <2>1, <2>2, <2>4, <3>1
  <2> QED
    BY <2>3, <2>4
<1>3. ASSUME \A t \in Tasks : filing'[t].pc = "link" => filing'[t] = filing[t],
             ~(\E t \in Tasks : create_issue(t))
      PROVE  UnlinkedAreOpen'
  <2> SUFFICES ASSUME NEW d \in Tasks, filing'[d].pc = "link"
               PROVE  /\ filing'[d].issue \in 1 .. Len(issues')
                      /\ filing'[d].issue # link'
                      /\ "moved" \notin missed' => issues'[filing'[d].issue].state = "open"
                      /\ \A e \in Tasks \ {d} :
                            filing'[e].pc = "link" => filing'[e].issue # filing'[d].issue
    BY DEF UnlinkedAreOpen
  <2>1. /\ filing[d].issue \in 1 .. Len(issues) /\ filing'[d] = filing[d]
        /\ filing[d].pc = "link"
        /\ filing[d].issue # link
        /\ "moved" \notin missed' => issues[filing[d].issue].state = "open"
        /\ \A e \in Tasks \ {d} : filing'[e].pc = "link" => filing'[e].issue # filing'[d].issue
    BY <1>3, MissedStep DEF UnlinkedAreOpen
  <2>2. CASE UNCHANGED <<issues, link>>
    BY <2>1, <2>2
  <2>3. ASSUME NEW t \in Tasks, link_ticket(t)
        PROVE  issues' = issues /\ filing[d].issue # link'
    <3>1. /\ issues' = issues /\ link' = filing[t].issue /\ filing[t].pc = "link"
          /\ filing'[t].pc # "link"
      BY <1>1, <2>3 DEF link_ticket, Filed, Drain, Idle, At
    <3>2. d # t
      BY <3>1
    <3> QED
      BY <2>1, <3>1, <3>2 DEF UnlinkedAreOpen
  <2>4. CASE close_ticket_on_fix \/ reopen_ticket_on_regression
    <3>1. PICK k \in Remotes, state \in {"open", "closed"} :
             SetIssue(k, state) /\ link' = link /\ (Elsewhere(k) => "moved" \in missed')
      BY <2>4 DEF close_ticket_on_fix, reopen_ticket_on_regression, Remotes, Reached, Missed,
                  Elsewhere
    <3>2. /\ Len(issues') = Len(issues)
          /\ Elsewhere(k) \/ issues'[filing[d].issue] = issues[filing[d].issue]
      BY <2>1, <3>1, SetIssueEffect
    <3> QED
      BY <2>1, <3>1, <3>2
  <2> QED
    BY <1>3, <2>1, <2>2, <2>3, <2>4, TicketCases
<1> QED
  BY <1>2, <1>3, WaitingCases

-----------------------------------------------------------------------------
(* The sweep: what a pass has logged before it writes the baseline. *)

\* The log has a new latest row.
LEMMA RecordEffect ==
    ASSUME TypesOK, record_resolution_event
    PROVE  /\ event' = [from |-> sweep.from, to |-> sweep.to]
           /\ sweep'.pc \in {"ticket", "persist"} /\ sweep'.to = sweep.to
           /\ UNCHANGED <<status, issues, link, missed>>
<1>1. sweep \in SweepType
  BY DEF TypesOK
<1>2. sweep'.pc \in {"ticket", "persist"} /\ sweep'.to = sweep.to
  BY <1>1 DEF record_resolution_event, SweepType
<1> QED
  BY <1>2 DEF record_resolution_event, tickets

\* A pass goes on with the verdict of what it evaluated.
LEMMA EvaluateEffect ==
    ASSUME sweep_evaluate
    PROVE  /\ sweep'.from = status /\ sweep'.to \in Resolutions
           /\ sweep'.pc = IF status # NoRow /\ sweep'.to # status THEN "record" ELSE "persist"
           /\ UNCHANGED <<status, event, issues, link, missed>>
<1> DEFINE current == compute_for_bucket(sweep.anchor, sweep.at)
<1>1. current \in Resolutions
  BY VerdictType
<1>2. sweep' = [NoPass EXCEPT !.to = current, !.from = status,
                   !.pc = IF transition(status, current) THEN "record" ELSE "persist"]
  BY DEF sweep_evaluate
<1> HIDE DEF current
<1> QED
  BY <1>1, <1>2 DEF NoPass, transition, sweep_evaluate, tickets

\* The hooks leave the verdict and the log as they are.
LEMMA HookEffect ==
    ASSUME TypesOK, close_ticket_on_fix \/ reopen_ticket_on_regression \/ hook_failed
    PROVE  /\ sweep.pc = "ticket" /\ sweep'.pc = "persist" /\ sweep'.to = sweep.to
           /\ UNCHANGED <<status, event, link>>
<1>1. sweep \in SweepType
  BY DEF TypesOK
<1> QED
  BY <1>1 DEF close_ticket_on_fix, reopen_ticket_on_regression, hook_failed, Pass, SweepType,
              tickets

LoggedInv == RecordIsChange /\ TicketIsLogged /\ PersistIsLogged

\* What a pass acts on is the last event of the log.
LEMMA LoggedStep ==
    ASSUME TypesOK, LoggedInv, [Next]_vars
    PROVE  LoggedInv'
<1> USE DEF LoggedInv, RecordIsChange, TicketIsLogged, PersistIsLogged, Logged, Transition, Pass
<1>1. CASE UNCHANGED swept
  BY <1>1 DEF swept
<1>2. CASE sweep' = NoPass
  BY <1>2 DEF NoPass
<1>3. CASE sweep_tenant
  <2>1. sweep'.pc = "evaluate"
    BY <1>3 DEF sweep_tenant, NoPass
  <2> QED
    BY <2>1
<1>4. CASE sweep_evaluate
  BY <1>4, EvaluateEffect
<1>5. CASE record_resolution_event
  <2>1. /\ sweep.pc = "record" /\ status # NoRow /\ sweep.from = status /\ sweep.to # status
    BY <1>5 DEF record_resolution_event
  <2> QED
    BY <1>5, <2>1, RecordEffect
<1>6. CASE close_ticket_on_fix \/ reopen_ticket_on_regression \/ hook_failed
  BY <1>6, HookEffect
<1>7. CASE upsert_resolution_status
  BY <1>2, <1>7 DEF upsert_resolution_status
<1> QED
  BY <1>1, <1>2, <1>3, <1>4, <1>5, <1>6, <1>7, SweepCases DEF SweepStep

-----------------------------------------------------------------------------
(* The ticket of a regression. *)

\* Only these change what decides whether the linked ticket is shut.
LEMMA ShutCases ==
    ASSUME TypesOK, UnlinkedAreOpen, [Next]_vars
    PROVE  \/ Shut' => Shut
           \/ close_ticket_on_fix
<1>1. issues \in Seq(IssueType) /\ link \in 0 .. Len(issues) /\ Len(issues) \in Nat
  BY LenProperties DEF TypesOK
<1>2. missed' \cap {"reopen", "moved"} = {} => missed \cap {"reopen", "moved"} = {}
  BY MissedStep
<1>3. CASE UNCHANGED <<issues, link>>
  BY <1>2, <1>3 DEF Shut
<1>4. ASSUME NEW t \in Tasks, create_issue(t) PROVE Shut' => Shut
  <2>1. link' = link /\ \A i \in 1 .. Len(issues) : issues'[i] = issues[i]
    BY <1>4, CreateEffect
  <2> QED
    BY <1>1, <1>2, <2>1 DEF Shut
<1>5. ASSUME NEW t \in Tasks, link_ticket(t) PROVE ~Shut'
  <2>1. /\ issues' = issues /\ link' = filing[t].issue /\ missed' = missed
        /\ "moved" \notin missed => issues[filing[t].issue].state = "open"
    BY <1>5 DEF UnlinkedAreOpen, link_ticket, At
  <2> QED
    BY <2>1 DEF Shut
<1>6. CASE reopen_ticket_on_regression
  <2>1. PICK k \in Remotes : SetIssue(k, "open") /\ link' = link
    BY <1>6 DEF reopen_ticket_on_regression, Remotes
  <2>2. \A i \in 1 .. Len(issues) : issues'[i] = issues[i] \/ issues'[i].state = "open"
    BY <2>1, SetIssueEffect
  <2> QED
    BY <1>1, <1>2, <2>1, <2>2 DEF Shut
<1> QED
  BY <1>3, <1>4, <1>5, <1>6, TicketCases

\* A regression that is told to the tracker leaves no ticket shut.
LEMMA ReopenEffect ==
    ASSUME TypesOK, reopen_ticket_on_regression
    PROVE  ~Shut'
<1>1. link \in 0 .. Len(issues) /\ Len(issues) \in Nat
  BY LenProperties DEF TypesOK
<1>2. PICK k \in Remotes :
         /\ SetIssue(k, "open") /\ link' = link
         /\ IF k = NoTracker THEN Missed("reopen") ELSE Reached(k)
  BY DEF reopen_ticket_on_regression, Remotes
<1>3. CASE k = NoTracker \/ Elsewhere(k)
  BY <1>2, <1>3 DEF Reached, Missed, Shut, Elsewhere
<1>4. CASE k # NoTracker /\ ~Elsewhere(k)
  <2>1. link # 0 => issues'[link].state = "open"
    BY <1>2, <1>4, SetIssueEffect
  <2> QED
    BY <1>2, <2>1 DEF Shut
<1> QED
  BY <1>3, <1>4

\* A ticket is shut by a pass that found a fix, and by nothing else.
LEMMA FreshStep ==
    ASSUME TypesOK, LoggedInv, FreshAreOpen, [Next]_vars
    PROVE  FreshAreOpen'
<1>1. issues \in Seq(IssueType) /\ Len(issues) \in Nat
  BY LenProperties DEF TypesOK
<1>2. status' = NoRow => status = NoRow
  <2>1. CASE upsert_resolution_status
    <3>1. status' \in Resolutions
      BY <2>1 DEF upsert_resolution_status, Pass, TypesOK
    <3> QED
      BY <3>1, LifecycleAssumption
  <2> QED
    BY <2>1, SweepCases, HookEffect
       DEF SweepStep, swept, sweep_tenant, sweep_evaluate, record_resolution_event
<1>3. CASE status = NoRow /\ UNCHANGED issues
  BY <1>3 DEF FreshAreOpen
<1>4. ASSUME status = NoRow, NEW t \in Tasks, create_issue(t) PROVE FreshAreOpen'
  <2>1. /\ Len(issues') = Len(issues) + 1
        /\ \A i \in 1 .. Len(issues) : issues'[i] = issues[i]
        /\ issues'[Len(issues) + 1].state = "open"
    BY <1>4, CreateEffect
  <2> QED
    BY <1>1, <1>4, <2>1 DEF FreshAreOpen
<1>5. CASE close_ticket_on_fix \/ reopen_ticket_on_regression
  BY <1>2, <1>5, HookEffect DEF LoggedInv, TicketIsLogged, FreshAreOpen, Pass
<1> QED
  BY <1>2, <1>3, <1>4, <1>5, TicketCases DEF FreshAreOpen, link_ticket

ShutInv == ShutIsNoRegression /\ ReopenedBeforePersist

\* A ticket that is shut is reopened before a regression becomes the baseline.
LEMMA ShutStep ==
    ASSUME TypesOK, UnlinkedAreOpen, LoggedInv, FreshAreOpen, ShutInv, [Next]_vars
    PROVE  ShutInv'
<1> USE DEF ShutInv, ShutIsNoRegression, ReopenedBeforePersist
<1>1. CASE UNCHANGED swept
  <2>1. ~close_ticket_on_fix
    BY <1>1, HookEffect DEF swept
  <2> QED
    BY <1>1, <2>1, ShutCases DEF swept, Pass
<1>2. CASE sweep' = NoPass /\ UNCHANGED <<status, event, issues, link, missed>>
  BY <1>2 DEF NoPass, Pass, Shut
<1>3. CASE sweep_tenant
  <2>1. sweep'.pc = "evaluate" /\ UNCHANGED <<status, event, issues, link, missed>>
    BY <1>3 DEF sweep_tenant, NoPass, tickets
  <2> QED
    BY <2>1 DEF Pass, Shut
<1>4. CASE sweep_evaluate
  <2>1. /\ sweep'.pc = IF status # NoRow /\ sweep'.to # status THEN "record" ELSE "persist"
        /\ UNCHANGED <<status, event, issues, link, missed>>
    BY <1>4, EvaluateEffect
  <2>2. status = NoRow => ~Shut
    BY LenProperties DEF FreshAreOpen, Shut, TypesOK
  <2> QED
    BY <2>1, <2>2 DEF Pass, Shut
<1>5. CASE record_resolution_event
  <2>1. sweep.pc = "record" /\ sweep.to # status
    BY <1>5 DEF record_resolution_event, LoggedInv, RecordIsChange, Pass
  <2>2. /\ event' # NoRow /\ event'.to = sweep.to
        /\ UNCHANGED <<status, issues, link, missed>>
    <3>1. sweep.from \in Resolutions /\ sweep.to \in Resolutions
      BY <1>5, <2>1 DEF record_resolution_event, LoggedInv, RecordIsChange, Pass, TypesOK, Verdicts
    <3> QED
      BY <1>5, <3>1, RecordEffect, LifecycleAssumption
  <2>3. sweep'.pc = "persist" => sweep'.to # "regressed"
    BY <1>5 DEF TypesOK, record_resolution_event, SweepType
  <2> QED
    BY <2>1, <2>2, <2>3 DEF Shut, Pass
<1>6. CASE close_ticket_on_fix
  <2>1. /\ sweep.pc = "ticket" /\ sweep.to = "resolved" /\ status # NoRow
        /\ event = [from |-> status, to |-> sweep.to]
    BY <1>6 DEF close_ticket_on_fix, LoggedInv, TicketIsLogged, Logged, Transition, Pass
  <2>3. event # NoRow /\ event.to = "resolved"
    BY <2>1, LifecycleAssumption DEF TypesOK, Verdicts, Resolutions
  <2>2. sweep'.to = "resolved" /\ UNCHANGED <<status, event>>
    BY <1>6, <2>1, HookEffect
  <2> QED
    BY <2>2, <2>3
<1>7. CASE reopen_ticket_on_regression
  BY <1>7, ReopenEffect
<1>8. CASE hook_failed
  <2>1. /\ sweep'.to = sweep.to /\ UNCHANGED <<status, event, link, issues>>
        /\ missed \subseteq missed' /\ (sweep.to = "regressed" => "reopen" \in missed')
    BY <1>8, HookEffect DEF hook_failed, Missed, tickets
  <2> QED
    BY <2>1 DEF Shut
<1>9. CASE upsert_resolution_status
  <2>1. /\ sweep.pc = "persist" /\ status' = sweep.to /\ sweep' = NoPass
        /\ UNCHANGED <<event, issues, link, missed>>
    BY <1>9 DEF upsert_resolution_status, Pass, tickets
  <2> QED
    BY <2>1 DEF Shut, Pass, NoPass
<1> QED
  BY <1>1, <1>2, <1>3, <1>4, <1>5, <1>6, <1>7, <1>8, <1>9, SweepCases DEF SweepStep

-----------------------------------------------------------------------------
(* The theorems. *)

\* The inductive invariant holds in every reachable state: what a sweep pass
\* has logged, what the tracker was told, and what is still owed.
THEOREM LifecycleInvariant == Spec => []LifecycleInv
<1>1. Init => LifecycleInv
  <2> SUFFICES ASSUME Init PROVE LifecycleInv
    OBVIOUS
  <2>1. TypesOK
    BY InitTypes
  <2>2. \A t \in Tasks : filing[t].pc # "link"
    BY DEF Init, Idle, Drain
  <2>3. UnlinkedAreOpen /\ TicketOwed
    BY <2>2 DEF Init, UnlinkedAreOpen, TicketOwed
  <2>4. sweep.pc = "idle"
    BY DEF Init, NoPass
  <2> QED
    BY <2>1, <2>3, <2>4, EmptySeq
       DEF Init, LifecycleInv, RecordIsChange, TicketIsLogged, PersistIsLogged, FreshAreOpen,
           Shut, ShutIsNoRegression, ReopenedBeforePersist, Pass
<1>2. LifecycleInv /\ [Next]_vars => LifecycleInv'
  BY TypesStep, TicketOwedStep, UnlinkedStep, LoggedStep, FreshStep, ShutStep
     DEF LifecycleInv, LoggedInv, ShutInv
<1> QED
  BY <1>1, <1>2, PTL DEF Spec

\* A bucket that forms in a project with a tracker has a ticket or its outbox
\* row, through every crash, failed call and change of the tracker, except since
\* a drain dropped the row: nothing was to be filed then, or the read of the
\* configuration failed and counted as none.
THEOREM TicketsAreOwed == Spec => []TicketOwed
<1>1. LifecycleInv => TicketOwed
  BY DEF LifecycleInv
<1> QED
  BY <1>1, LifecycleInvariant, PTL

\* While log and baseline both say "regressed", the linked ticket is open, except
\* once a reopening failed or found no tracker, or a call with the ticket's id
\* went to a tracker that replaced the ticket's.
THEOREM RegressedTicketsAreOpen == Spec => []RegressedTicketIsOpen
<1>1. LifecycleInv => RegressedTicketIsOpen
  <2> SUFFICES ASSUME LifecycleInv, status = "regressed",
                      event = NoRow \/ event.to = status,
                      link # 0, missed \cap {"reopen", "moved"} = {}
               PROVE  issues[link].state = "open"
    BY DEF RegressedTicketIsOpen
  <2>1. ~Shut
    BY DEF LifecycleInv, ShutIsNoRegression
  <2>2. issues[link].state \in {"open", "closed"}
    <3>1. issues \in Seq(IssueType) /\ link \in 1 .. Len(issues)
      BY LenProperties DEF LifecycleInv, TypesOK
    <3> QED
      <4>1. issues[link] \in IssueType
        BY <3>1, ElementOfSeq
      <4> QED
        BY <4>1 DEF IssueType
  <2> QED
    BY <2>1, <2>2 DEF Shut
<1> QED
  BY <1>1, LifecycleInvariant, PTL

\* The baseline changes only to what the last event of the log says: the
\* event is written before it, by the pass that changes it.
THEOREM BaselineChangesAreLogged == Spec => StatusChangesAreLogged
<1>1. LifecycleInv /\ [Next]_vars =>
         [status' # status /\ status # NoRow =>
             event = [from |-> status, to |-> status']]_vars
  <2> SUFFICES ASSUME LifecycleInv, [Next]_vars, status' # status, status # NoRow
               PROVE  event = [from |-> status, to |-> status']
    OBVIOUS
  <2>1. upsert_resolution_status
    BY SweepCases, HookEffect
       DEF SweepStep, swept, sweep_tenant, sweep_evaluate, record_resolution_event, LifecycleInv
  <2> QED
    BY <2>1 DEF upsert_resolution_status, LifecycleInv, PersistIsLogged, Logged, Transition
<1> QED
  BY <1>1, LifecycleInvariant, PTL DEF Spec, StatusChangesAreLogged

\* A verified replay never overrides a person's "won't fix": the row changes
\* only by a request of a person.
THEOREM WontfixIsFinal == Spec => WontfixStands
<1>1. LifecycleInv /\ [Next]_vars =>
         [triage # NoRow /\ triage.status = "wontfix" /\ triage' # triage => edits' # edits]_vars
  <2> SUFFICES ASSUME LifecycleInv, [Next]_vars, triage # NoRow, triage.status = "wontfix",
                      triage' # triage
               PROVE  edits' # edits
    OBVIOUS
  <2>1. \E to \in Posted, b \in Builds \cup {NoBuild} : post_triage(to, b)
    BY DEF Next, vars, workflow, tick, delete_expired_errors, post_verified_fix,
         advance_triage_unless_wontfix, advance_failed, put_integration, lease_expires, SweepStep,
         sweep_tenant, sweep_evaluate, record_resolution_event, close_ticket_on_fix,
         reopen_ticket_on_regression, upsert_resolution_status, hook_failed, sweep_failed, crash,
         ingest, post_replay_results, post_ticket, FileStep, create_issue, link_ticket,
         file_failed, file_look, claim_integration_work, drain_outbox, drain_failed,
         complete_integration_work
  <2>2. edits \in Nat
    BY DEF LifecycleInv, TypesOK
  <2> QED
    BY <2>1, <2>2 DEF post_triage
<1> QED
  BY <1>1, LifecycleInvariant, PTL DEF Spec, WontfixStands
=============================================================================
