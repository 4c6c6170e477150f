----------------------------- MODULE ShardQueue -----------------------------
(***************************************************************************)
(* The durable shard queue of jobs/worker.rs over db/tenant/jobs.rs: jobs  *)
(* and shards live in per-tenant databases, the routing hint               *)
(* (tenant_pending_shards) in the control plane, and nothing spans the two *)
(* in one transaction.  A variable below is a database column or the       *)
(* program counter of a handler; an action is one SQL statement (or one    *)
(* transaction) together with the code up to the next await.               *)
(*                                                                         *)
(* Embedded workers (spawn_embedded) write results straight to the         *)
(* database under "embedded-<i>", an id every server process uses again;   *)
(* remote workers post results over HTTP, where a post may be late or      *)
(* lost, under an id of their own or, when they send none, under one       *)
(* minted for each claim.                                                  *)
(***************************************************************************)
EXTENDS Naturals, FiniteSets

CONSTANTS
    Tenants, Jobs, Seeds, Workers,
    Remote,        \* the workers that poll over HTTP; the others are embedded
    Minted,        \* the remote workers that send no worker_id
    IdOf,          \* IdOf[w]: the stable worker_id of each other worker
    TenantOf,      \* TenantOf[j]: the tenant database job j is submitted to
    BackendOf,     \* BackendOf[j]: JobSpec.backend
    CapsOf,        \* CapsOf[w]: the backends worker w can serve
    LaneCap,       \* SchedulerConfig::lane_cap of a rationed deployment
    Outcomes,      \* the run outcomes a worker may report
    Faults,        \* "mark", "load", "drop", "crash", "panic": which failures happen
    MaxAttempts    \* bound: a shard of seed d is claimed MaxAttempts[d] times before its
                   \*   claims are no longer lost or late

\* Mutant: the worker's "timeout" is stored as it came.
map_status_Verbatim == [clean |-> "clean", finding |-> "finding",
                        timeout |-> "timeout", error |-> "error"]

\* ShardState of the outcome a worker reports (map_status, run_shard).
map_status == [clean |-> "clean", finding |-> "finding",
               timeout |-> "error", error |-> "error"]

\* The model parameters; LaneCap is positive because resolve() ignores a
\* non-positive REPROIT_SCHED_LANE_CAP.
ASSUME QueueAssumption ==
    /\ Remote \subseteq Workers /\ Minted \subseteq Remote
    /\ IdOf \in [Workers -> Workers]
    /\ TenantOf \in [Jobs -> Tenants]
    /\ LaneCap \in Nat \ {0}
    /\ MaxAttempts \in [Seeds -> Nat \ {0}]
    /\ Outcomes \subseteq DOMAIN map_status

VARIABLES
    job,       \* jobs row: "absent", "open", "finished" (finished_at set)
    state,     \* shards.state
    owner,     \* shards.claimed_by: {} for NULL, else one worker id
    attempts,  \* shards.attempts
    stale,     \* running shards whose heartbeat_at is past the threshold
    credited,  \* history: the attempt whose result was recorded, 0 before
    grants,    \* history: the attempts of a shard and the ids they were claimed under
    hint,      \* tenant_pending_shards
    marking,   \* submit_job handlers between insert_job and the hint mark
    requeued,  \* tenants whose requeue sweep has moved shards, not yet marked
    req,       \* req[w]: the claim request of worker w
    running,   \* claims some worker process is executing
    beating,   \* claims no longer executed whose heartbeat task goes on
    posts,     \* result posts of remote workers on the wire
    checking,  \* shards whose result handler is about to read job_incomplete
    writing    \* shards whose result handler is about to call finalize_job

shardVars == <<state, owner, attempts, stale, credited, grants>>
vars == <<job, state, owner, attempts, stale, credited, grants, hint, marking,
          requeued, req, running, beating, posts, checking, writing>>

Shards == Jobs \X Seeds
ShardsOf(j) == {j} \X Seeds
Terminal == {"clean", "finding", "error"}

\* A claim as its holder knows it: "<org>:<job>:<seed>:<worker>".
Claim == [worker : Workers, shard : Shards, attempt : Nat \ {0}]
Post == [worker : Workers, shard : Shards, attempt : Nat \ {0}, outcome : Outcomes]

\* claimed_by of the n-th claim of a shard when w makes it: the stable id, or
\* one minted afresh for the claim request.
WorkerId(w, n) == IF w \in Minted THEN <<w, n>> ELSE <<IdOf[w], 0>>
WorkerIds == Workers \X Nat

\* Stable ids that do not tell the claims of a shard apart: two processes use
\* them, or one that claims again while its own earlier post is on its way.
Lone(w) == \A v \in Workers \ (Minted \cup {w}) : IdOf[v] # IdOf[w]
SharedIds ==
    {<<IdOf[w], 0>> : w \in {v \in Workers \ Minted : v \in Remote \/ ~Lone(v)}}

PendingIn(t) == {s \in Shards : TenantOf[s[1]] = t /\ state[s] = "pending"}

\* scheduler::tier and may_claim: only the Mac tier is rationed.
tier(backend) == IF backend = "ios" THEN "Mac" ELSE "Elastic"
RunningIn(t, lane) ==
    {s \in Shards : /\ TenantOf[s[1]] = t
                    /\ tier(BackendOf[s[1]]) = lane
                    /\ state[s] = "running"}

\* Mutants: the gate off by one, either way.
may_claim_Loose(j, tenant_running) ==
    tier(BackendOf[j]) # "Mac" \/ tenant_running <= LaneCap
may_claim_Tight(j, tenant_running) ==
    tier(BackendOf[j]) # "Mac" \/ tenant_running + 1 < LaneCap

may_claim(j, tenant_running) ==
    tier(BackendOf[j]) # "Mac" \/ tenant_running < LaneCap

IdleReq == [pc |-> "idle", todo |-> {}, at |-> {}, found |-> {}, cands |-> {}]

Reading(tenants) ==
    [pc |-> "visit", todo |-> tenants, at |-> {}, found |-> {}, cands |-> {}]

Init ==
    /\ job = [j \in Jobs |-> "absent"]
    /\ state = [s \in Shards |-> "absent"]
    /\ owner = [s \in Shards |-> {}]
    /\ attempts = [s \in Shards |-> 0]
    /\ stale = {}
    /\ credited = [s \in Shards |-> 0] /\ grants = [s \in Shards |-> {}]
    /\ beating = {} /\ hint = {} /\ marking = {} /\ requeued = {}
    /\ req = [w \in Workers |-> IdleReq]
    /\ running = {} /\ posts = {} /\ checking = {} /\ writing = {}

-----------------------------------------------------------------------------
(* Submission: the job and its shards in one transaction, then the mark. *)

insert_job(j) ==
    /\ job[j] = "absent"
    /\ job' = [job EXCEPT ![j] = "open"]
    /\ state' = [s \in Shards |-> IF s \in ShardsOf(j) THEN "pending" ELSE state[s]]
    /\ marking' = marking \cup {j}
    /\ UNCHANGED <<owner, attempts, grants, stale, credited, hint, requeued, req,
                   running, beating, posts, checking, writing>>

\* A failed mark is logged and the submission still succeeds.
mark_tenant_pending(j) ==
    /\ j \in marking
    /\ marking' = marking \ {j}
    /\ \/ hint' = hint \cup {TenantOf[j]}
       \/ "mark" \in Faults /\ hint' = hint
    /\ UNCHANGED <<job, shardVars, requeued, req, running, beating, posts, checking, writing>>

-----------------------------------------------------------------------------
(* One claim request: read the hint, visit its tenants one by one, then try *)
(* the admitted candidates.  Which candidate is tried first is the business *)
(* of scheduler::claim_order and left open here.                            *)

IsFree(w) == \A c \in running : c.worker # w

tenants_with_pending(w) ==
    /\ req[w].pc = "idle" /\ IsFree(w)
    /\ req' = [req EXCEPT ![w] = Reading(hint)]
    /\ UNCHANGED <<job, shardVars, hint, marking, requeued, running, beating, posts,
                   checking, writing>>

JobsFor(w, t) ==
    {j \in Jobs : /\ TenantOf[j] = t /\ BackendOf[j] \in CapsOf[w]
                  /\ \E s \in ShardsOf(j) : state[s] = "pending"}

pending_jobs(w, t) ==
    /\ req[w].pc = "visit" /\ t \in req[w].todo
    /\ req' = [req EXCEPT ![w] =
                 [pc |-> IF JobsFor(w, t) = {} THEN "count" ELSE "load",
                  todo |-> req[w].todo \ {t}, at |-> {t}, found |-> JobsFor(w, t),
                  cands |-> req[w].cands]]
    /\ UNCHANGED <<job, shardVars, hint, marking, requeued, running, beating, posts,
                   checking, writing>>

\* The tenant does not resolve, or its database does not answer: skipped.
skip_tenant(w, t) ==
    /\ "drop" \in Faults
    /\ req[w].pc = "visit" /\ t \in req[w].todo
    /\ req' = [req EXCEPT ![w].todo = @ \ {t}]
    /\ UNCHANGED <<job, shardVars, hint, marking, requeued, running, beating, posts,
                   checking, writing>>

pending_shard_count(w) ==
    /\ req[w].pc = "count"
    /\ \/ req' = [req EXCEPT ![w].pc =
                    IF \A t \in req[w].at : PendingIn(t) = {} THEN "clear" ELSE "visit"]
       \/ "drop" \in Faults /\ req' = [req EXCEPT ![w].pc = "visit"]
    /\ UNCHANGED <<job, shardVars, hint, marking, requeued, running, beating, posts,
                   checking, writing>>

clear_tenant_pending(w) ==
    /\ req[w].pc = "clear"
    /\ req' = [req EXCEPT ![w].pc = "visit"]
    /\ \/ hint' = hint \ req[w].at
       \/ "mark" \in Faults /\ hint' = hint
    /\ UNCHANGED <<job, shardVars, marking, requeued, running, beating, posts, checking, writing>>

\* The tenant's load per tier, and the lane gate over it.  A failed read
\* counts as no load at all.
Admitted(w, failed) ==
    {j \in req[w].found :
        \A t \in req[w].at :
            may_claim(j, IF failed THEN 0
                         ELSE Cardinality(RunningIn(t, tier(BackendOf[j]))))}

running_by_backend(w) ==
    /\ req[w].pc = "load"
    /\ \E failed \in {f \in BOOLEAN : f => "load" \in Faults} :
         req' = [req EXCEPT ![w] =
                   [pc |-> "visit", todo |-> req[w].todo, at |-> req[w].at,
                    found |-> {}, cands |-> req[w].cands \cup Admitted(w, failed)]]
    /\ UNCHANGED <<job, shardVars, hint, marking, requeued, running, beating, posts,
                   checking, writing>>

Ordered(w) == req[w].pc = "visit" /\ req[w].todo = {}

\* UPDATE ... FOR UPDATE SKIP LOCKED: any pending shard of the job may be the
\* first unlocked one.
claim_shard(w, s) ==
    /\ Ordered(w) /\ s[1] \in req[w].cands
    /\ state[s] = "pending"
    /\ state' = [state EXCEPT ![s] = "running"]
    /\ attempts' = [attempts EXCEPT ![s] = @ + 1]
    /\ owner' = [owner EXCEPT ![s] = {WorkerId(w, attempts[s] + 1)}]
    /\ grants' = [grants EXCEPT ![s] =
                     @ \cup {<<attempts[s] + 1, WorkerId(w, attempts[s] + 1)>>}]
    /\ running' = running \cup
                    {[worker |-> w, shard |-> s, attempt |-> attempts[s] + 1]}
    /\ req' = [req EXCEPT ![w] = IdleReq]
    /\ UNCHANGED <<job, stale, credited, hint, marking, requeued, beating,
                   posts, checking, writing>>

\* claim_first falls through when a candidate is drained or its claim fails.
claim_missed(w, j) ==
    /\ Ordered(w) /\ j \in req[w].cands
    /\ \/ \A s \in ShardsOf(j) : state[s] # "pending"
       \/ "drop" \in Faults
    /\ req' = [req EXCEPT ![w].cands = @ \ {j}]
    /\ UNCHANGED <<job, shardVars, hint, marking, requeued, running, beating, posts,
                   checking, writing>>

claim_nothing(w) ==
    /\ Ordered(w) /\ req[w].cands = {}
    /\ req' = [req EXCEPT ![w] = IdleReq]
    /\ UNCHANGED <<job, shardVars, hint, marking, requeued, running, beating, posts,
                   checking, writing>>

-----------------------------------------------------------------------------
(* Execution and results. *)

\* Mutant: the row is only required to be running, whoever holds it.
Holds_AnyClaimant(c) == state[c.shard] = "running"

\* The fence of touch_shard and set_shard: claimed_by and state='running'.
Holds(c) ==
    /\ state[c.shard] = "running"
    /\ owner[c.shard] = {WorkerId(c.worker, c.attempt)}

touch_shard(c) ==
    /\ c \in running \cup beating /\ Holds(c) /\ c.shard \in stale
    /\ stale' = stale \ {c.shard}
    /\ UNCHANGED <<job, state, owner, attempts, grants, credited, hint, marking, requeued,
                   req, running, beating, posts, checking, writing>>

\* Mutant: the job is not looked at after a failed run.
set_shard_SkipsErrors(c, outcome) ==
    IF Holds(c)
    THEN /\ state' = [state EXCEPT ![c.shard] = map_status[outcome]]
         /\ stale' = stale \ {c.shard}
         /\ credited' = [credited EXCEPT ![c.shard] = c.attempt]
         /\ checking' = IF map_status[outcome] = "error" THEN checking
                        ELSE checking \cup {c.shard}
    ELSE UNCHANGED <<state, stale, credited, checking>>

\* set_shard to a terminal state, and the handler going on to maybe_finalize
\* when the row was still its claimant's; otherwise nothing (410, "reclaimed").
set_shard(c, outcome) ==
    IF Holds(c)
    THEN /\ state' = [state EXCEPT ![c.shard] = map_status[outcome]]
         /\ stale' = stale \ {c.shard}
         /\ credited' = [credited EXCEPT ![c.shard] = c.attempt]
         /\ checking' = checking \cup {c.shard}
    ELSE UNCHANGED <<state, stale, credited, checking>>

run_embedded_shard(c, outcome) ==
    /\ c \in running /\ c.worker \notin Remote
    /\ running' = running \ {c}
    /\ set_shard(c, outcome)
    /\ UNCHANGED <<job, owner, attempts, grants, hint, marking, requeued, req,
                   beating, posts, writing>>

post_result(c, outcome) ==
    /\ c \in running /\ c.worker \in Remote
    /\ running' = running \ {c}
    /\ posts' = posts \cup {[worker |-> c.worker, shard |-> c.shard,
                             attempt |-> c.attempt, outcome |-> outcome]}
    /\ UNCHANGED <<job, shardVars, hint, marking, requeued, req, beating,
                   checking, writing>>

result(m) ==
    /\ m \in posts
    /\ posts' = posts \ {m}
    /\ set_shard(m, m.outcome)
    /\ UNCHANGED <<job, owner, attempts, grants, hint, marking, requeued, req,
                   running, beating, writing>>

\* Mutant: a running shard does not count.
job_incomplete_PendingOnly(s) ==
    /\ s \in checking
    /\ checking' = checking \ {s}
    /\ writing' = IF \E r \in ShardsOf(s[1]) : state[r] = "pending"
                  THEN writing ELSE writing \cup {s}
    /\ UNCHANGED <<job, shardVars, hint, marking, requeued, req, running, beating, posts>>

job_incomplete(s) ==
    /\ s \in checking
    /\ checking' = checking \ {s}
    /\ writing' = IF \E r \in ShardsOf(s[1]) : state[r] \in {"pending", "running"}
                  THEN writing ELSE writing \cup {s}
    /\ UNCHANGED <<job, shardVars, hint, marking, requeued, req, running, beating, posts>>

finalize_job(s) ==
    /\ s \in writing
    /\ writing' = writing \ {s}
    /\ job' = [job EXCEPT ![s[1]] = "finished"]
    /\ UNCHANGED <<shardVars, hint, marking, requeued, req, running, beating, posts, checking>>

-----------------------------------------------------------------------------
(* Failures. *)

MayLose(s) == attempts[s] < MaxAttempts[s[2]]

\* A worker dies with its heartbeat, or the claim response never reaches it.
worker_lost(c) ==
    /\ "crash" \in Faults /\ c \in running
    /\ MayLose(c.shard)
    /\ running' = running \ {c}
    /\ UNCHANGED <<job, shardVars, hint, marking, requeued, req, beating,
                   posts, checking, writing>>

\* The run of a claim is gone and its heartbeat is not: the shard task panicked,
\* which its guard task catches, before hb.abort(), or the poll script was killed
\* and not the subshell it started.  The worker goes on polling.
run_panics(c) ==
    /\ "panic" \in Faults /\ c \in running
    /\ MayLose(c.shard)
    /\ running' = running \ {c}
    /\ beating' = beating \cup {c}
    /\ UNCHANGED <<job, shardVars, hint, marking, requeued, req, posts, checking, writing>>

\* Such a heartbeat ends when a touch finds the shard not its claimant's, or
\* with its process.
heartbeat_ends(c) ==
    /\ c \in beating
    /\ ~Holds(c) \/ "crash" \in Faults
    /\ beating' = beating \ {c}
    /\ UNCHANGED <<job, shardVars, hint, marking, requeued, req, running, posts,
                   checking, writing>>

post_lost(m) ==
    /\ "crash" \in Faults /\ m \in posts
    /\ MayLose(m.shard)
    /\ posts' = posts \ {m}
    /\ UNCHANGED <<job, shardVars, hint, marking, requeued, req, running, beating,
                   checking, writing>>

\* The handler of s's result ends before maybe_finalize is through.
finalize_lost(s) ==
    /\ "drop" \in Faults /\ s \in checking \cup writing
    /\ checking' = checking \ {s}
    /\ writing' = writing \ {s}
    /\ UNCHANGED <<job, shardVars, hint, marking, requeued, req, running, beating, posts>>

\* A claim request ends early (the control plane is unreachable, or its
\* server stops).
claim_request_lost(w) ==
    /\ "drop" \in Faults /\ req[w].pc # "idle"
    /\ req' = [req EXCEPT ![w] = IdleReq]
    /\ UNCHANGED <<job, shardVars, hint, marking, requeued, running, beating, posts,
                   checking, writing>>

\* Somebody renews the heartbeat of s, whether the claim is run or not, or its
\* result is on the way.
Orphaned(s) == \E c \in beating : c.shard = s /\ Holds(c)
Attended(s) == Orphaned(s) \/ \E c \in running \cup posts : c.shard = s /\ Holds(c)

\* A heartbeat is late by more than the threshold.  One nobody renews always
\* gets there; one that is renewed while the shard may be lost.
heartbeat_ages(s) ==
    /\ state[s] = "running" /\ s \notin stale
    /\ Attended(s) => MayLose(s)
    /\ stale' = stale \cup {s}
    /\ UNCHANGED <<job, state, owner, attempts, grants, credited, hint, marking, requeued,
                   req, running, beating, posts, checking, writing>>

Stranded(t) == {s \in Shards : TenantOf[s[1]] = t /\ state[s] = "running" /\ s \in stale}

\* Mutant: the claim is cleared and the state is left running.
requeue_stranded_KeepsState(t) ==
    /\ Stranded(t) # {}
    /\ owner' = [s \in Shards |-> IF s \in Stranded(t) THEN {} ELSE owner[s]]
    /\ stale' = stale \ Stranded(t)
    /\ requeued' = requeued \cup {t}
    /\ UNCHANGED <<job, state, attempts, grants, credited, hint, marking, req,
                   running, beating, posts,
                   checking, writing>>

\* The minutely sweep and the ops requeue command: one UPDATE, then the mark.
requeue_stranded(t) ==
    /\ Stranded(t) # {}
    /\ state' = [s \in Shards |-> IF s \in Stranded(t) THEN "pending" ELSE state[s]]
    /\ owner' = [s \in Shards |-> IF s \in Stranded(t) THEN {} ELSE owner[s]]
    /\ stale' = stale \ Stranded(t)
    /\ requeued' = requeued \cup {t}
    /\ UNCHANGED <<job, attempts, grants, credited, hint, marking, req,
                   running, beating, posts,
                   checking, writing>>

mark_requeued(t) ==
    /\ t \in requeued
    /\ requeued' = requeued \ {t}
    /\ \/ hint' = hint \cup {t}
       \/ "mark" \in Faults /\ hint' = hint
    /\ UNCHANGED <<job, shardVars, marking, req, running, beating, posts, checking, writing>>

-----------------------------------------------------------------------------
ClaimStep(w) ==
    \/ tenants_with_pending(w) \/ pending_shard_count(w) \/ clear_tenant_pending(w)
    \/ running_by_backend(w) \/ claim_nothing(w)
    \/ \E t \in Tenants : pending_jobs(w, t)
    \/ \E j \in Jobs : claim_missed(w, j)
    \/ \E s \in Shards : claim_shard(w, s)

RunStep(c) ==
    \E o \in Outcomes : run_embedded_shard(c, o) \/ post_result(c, o)

Next ==
    \/ \E j \in Jobs : insert_job(j) \/ mark_tenant_pending(j)
    \/ \E w \in Workers : ClaimStep(w) \/ claim_request_lost(w)
    \/ \E w \in Workers, t \in Tenants : skip_tenant(w, t)
    \/ \E c \in running : RunStep(c) \/ worker_lost(c) \/ run_panics(c)
    \/ \E c \in running \cup beating : touch_shard(c)
    \/ \E c \in beating : heartbeat_ends(c)
    \/ \E m \in posts : result(m) \/ post_lost(m)
    \/ \E s \in Shards : \/ job_incomplete(s) \/ finalize_job(s) \/ finalize_lost(s)
                         \/ heartbeat_ages(s)
    \/ \E t \in Tenants : requeue_stranded(t) \/ mark_requeued(t)

Spec == Init /\ [][Next]_vars

\* Fairness.  Pollers never stop polling, a run ends (SHARD_TIMEOUT) and its
\* result is posted, handlers and the minutely sweep run to their end, and a
\* heartbeat nobody renews grows old; one that outlived its run is renewed and
\* need not.  No failure is fair, nor the end of such a heartbeat.
Fairness ==
    /\ \A w \in Workers :
         /\ WF_vars(ClaimStep(w))
         /\ WF_vars(\E c \in running : c.worker = w /\ RunStep(c))
    /\ \A s \in Shards :
         /\ WF_vars(\E m \in posts : m.shard = s /\ result(m))
         /\ WF_vars(job_incomplete(s)) /\ WF_vars(finalize_job(s))
         /\ WF_vars(~Attended(s) /\ heartbeat_ages(s))
    /\ \A j \in Jobs : WF_vars(mark_tenant_pending(j))
    /\ \A t \in Tenants : WF_vars(requeue_stranded(t)) /\ WF_vars(mark_requeued(t))

FairSpec == Spec /\ Fairness

-----------------------------------------------------------------------------
ReqType ==
    [pc : {"idle", "visit", "count", "clear", "load"}, todo : SUBSET Tenants,
     at : SUBSET Tenants, found : SUBSET Jobs, cands : SUBSET Jobs]

\* Every variable has its type.
TypeOK ==
    /\ job \in [Jobs -> {"absent", "open", "finished"}]
    /\ state \in [Shards -> {"absent", "pending", "running"} \cup Terminal]
    /\ owner \in [Shards -> SUBSET WorkerIds]
    /\ attempts \in [Shards -> Nat] /\ credited \in [Shards -> Nat]
    /\ grants \in [Shards -> SUBSET (Nat \X WorkerIds)]
    /\ stale \subseteq Shards
    /\ hint \subseteq Tenants /\ requeued \subseteq Tenants
    /\ marking \subseteq Jobs
    /\ req \in [Workers -> ReqType]
    /\ running \subseteq Claim /\ beating \subseteq Claim /\ posts \subseteq Post
    /\ checking \subseteq Shards /\ writing \subseteq Shards

\* A job is reported finished (finalize_job) only when every one of its shards
\* has a terminal state, whatever was requeued or completed between the
\* job_incomplete read of a handler and its write.
FinishedJobComplete ==
    \A j \in Jobs : job[j] = "finished" => \A s \in ShardsOf(j) : state[s] \in Terminal

\* The result a shard keeps is the one of its latest claim: a claimant whose
\* shard was requeued and claimed again can not have its late result recorded
\* by set_shard.  Except that both claims were made under one stable id which two
\* processes use, or a remote worker: the fence is the id, and accepts either.
OnlyClaimantCredited ==
    \A s \in Shards : state[s] \in Terminal =>
        \/ credited[s] = attempts[s]
        \/ \E i \in SharedIds : {<<credited[s], i>>, <<attempts[s], i>>} \subseteq grants[s]

\* The lane gate of may_claim reads a count that claims of other workers make
\* stale, so the cap is not the hard ceiling scheduler.rs calls it.  What it does
\* guarantee, when the count can be read: a tenant runs fewer Mac shards than the
\* cap plus the number of workers.
LaneCapSlack ==
    \A t \in Tenants : Cardinality(RunningIn(t, "Mac")) < LaneCap + Cardinality(Workers)

\* A running shard leaves the running state: its run ends, or its heartbeat ages
\* and requeue_stranded returns it to the queue.  Unless a heartbeat that
\* outlived its run keeps it (run_panics): that one is never requeued.
StrandedRecovers ==
    \A s \in Shards : (state[s] = "running") ~> (state[s] # "running" \/ Orphaned(s))

\* When the handlers survive, a job all of whose shards are terminal is
\* finalized, also when the last two results race: maybe_finalize runs after
\* every recorded result.
CompleteJobsFinalize ==
    \A j \in Jobs : (\A s \in ShardsOf(j) : state[s] \in Terminal) ~> (job[j] = "finished")

\* A pending shard of a tenant that is in tenant_pending_shards is claimed,
\* unless the tenant is dropped from the hint first or a Mac lane of it is
\* occupied by a shard that an orphaned heartbeat keeps running: neither the lane
\* gate nor lost claim races starve it.
ServedOrUnhinted ==
    \A s \in Shards :
        (state[s] = "pending" /\ TenantOf[s[1]] \in hint)
            ~> \/ state[s] # "pending" \/ TenantOf[s[1]] \notin hint
               \/ \E r \in RunningIn(TenantOf[s[1]], "Mac") : Orphaned(r)

\* worker.rs: the hint "must never under-include (that would starve a tenant)".
PendingIsServed == \A s \in Shards : (state[s] = "pending") ~> (state[s] # "pending")

-----------------------------------------------------------------------------
(* The queue implements ShardLease: claimed rows are leases, attempts is the *)
(* epoch, and a terminal row is done.                                        *)

LeaseStatus ==
    [s \in Shards |->
        IF state[s] = "absent" THEN "absent"
        ELSE IF state[s] = "pending" THEN "todo"
        ELSE IF state[s] = "running" THEN "leased" ELSE "done"]

Lease == INSTANCE ShardLease
           WITH Shared <- SharedIds, grants <- grants,
                status <- LeaseStatus, epoch <- attempts, credited <- credited,
                finished <- {j \in Jobs : job[j] = "finished"}

\* The shard queue implements the lease discipline of ShardLease: a shard is
\* leased from pending only, completed once and by the holder of its current
\* lease, or by an earlier holder that presents the same shared id, and a job
\* finishes only when all its shards are done.
ImplementsLease == Lease!LeaseSpec
=============================================================================
