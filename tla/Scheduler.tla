----------------------------- MODULE Scheduler ------------------------------
(***************************************************************************)
(* The scheduling policy of jobs/scheduler.rs and the gathering of its     *)
(* input in jobs/worker.rs (gather_candidates), driven by submissions, the *)
(* passing of time, claims and completions.  A claim is one step here: how *)
(* claims interleave is the subject of ShardQueue.  Times are unix seconds *)
(* and the policy's constants are the code's.                              *)
(***************************************************************************)
EXTENDS Sorting, Functions

CONSTANTS
    Jobs,        \* job ids, ordered as naturals (ORDER BY started_at, job_id)
    SpecOf,      \* SpecOf[j]: [tenant, backend, seeds] of job j
    Clock,       \* bound: the instants at which something happens
    SelfHosted,  \* App.self_hosted
    LaneCap      \* REPROIT_SCHED_LANE_CAP, or DEFAULT_LANE_CAP

VARIABLES
    now,      \* chrono::Utc::now().timestamp()
    enqueue,  \* enqueue[j]: started_at of job j, -1 before it is submitted
    left,     \* left[j]: pending shards
    busy      \* busy[j]: running shards

vars == <<now, enqueue, left, busy>>

INTERACTIVE_SHARD_MAX == 4
MAX_JOB_SEEDS == 1024
INTERACTIVE_SLA_S == 600
BATCH_SLA_S == 21600
INTERACTIVE_BOOST == 3600
FAIRNESS_PENALTY == 30
Unlimited == 2147483647  \* stands for u32::MAX

ASSUME SchedulerAssumption ==
    /\ Jobs \subseteq Nat /\ IsFiniteSet(Jobs) /\ Clock \subseteq Nat /\ Clock # {}
    /\ SpecOf \in [Jobs -> [tenant : Nat, backend : {"web", "android", "ios"},
                            seeds : 1 .. MAX_JOB_SEEDS]]
    /\ SelfHosted \in BOOLEAN /\ LaneCap \in Nat \ {0}

-----------------------------------------------------------------------------
(* The pure policy. *)

tier(backend) == IF backend = "ios" THEN "Mac" ELSE "Elastic"

\* Queue jobs are all mode "fuzz", so the class follows the size.
class_for(seeds) == IF seeds <= INTERACTIVE_SHARD_MAX THEN "Interactive" ELSE "Batch"

\* Mutant: a batch job gets twice its SLA.
deadline_unix_Lax(enqueue_unix, class) ==
    enqueue_unix + (IF class = "Interactive" THEN INTERACTIVE_SLA_S ELSE 2 * BATCH_SLA_S)

deadline_unix(enqueue_unix, class) ==
    enqueue_unix + (IF class = "Interactive" THEN INTERACTIVE_SLA_S ELSE BATCH_SLA_S)

fair_share(tier_running_total, active_tenants) ==
    IF active_tenants = 0 THEN 0 ELSE tier_running_total \div active_tenants

lane_cap == IF SelfHosted THEN Unlimited ELSE LaneCap

may_claim(c) == c.tier # "Mac" \/ c.tenant_running < c.tenant_lane_cap

Over(c) == IF c.tenant_running > c.tenant_fair_share
           THEN c.tenant_running - c.tenant_fair_share ELSE 0

\* Mutant: load above the share makes a candidate more urgent.
claim_score_Inverted(c, at) ==
    (c.deadline_unix - at) - (IF c.class = "Interactive" THEN INTERACTIVE_BOOST ELSE 0)
        - FAIRNESS_PENALTY * Over(c)

claim_score(c, at) ==
    (c.deadline_unix - at) - (IF c.class = "Interactive" THEN INTERACTIVE_BOOST ELSE 0)
        + FAIRNESS_PENALTY * Over(c)

\* Mutant: equal scores are left in the order the rows came.
Precedes_ScoreOnly(a, b, at) == claim_score(a, at) < claim_score(b, at)

\* The comparator of claim_order: score, then deadline, then tenant name.
Precedes(a, b, at) ==
    \/ claim_score(a, at) < claim_score(b, at)
    \/ /\ claim_score(a, at) = claim_score(b, at)
       /\ \/ a.deadline_unix < b.deadline_unix
          \/ a.deadline_unix = b.deadline_unix /\ a.tenant < b.tenant



\* The sort is stable: indices that tie keep their order.
IndexOrder(cands, at) ==
    {w \in (DOMAIN cands) \X (DOMAIN cands) :
        \/ Precedes(cands[w[1]], cands[w[2]], at)
        \/ ~Precedes(cands[w[2]], cands[w[1]], at) /\ w[1] < w[2]}

Admissible(cands) == {i \in DOMAIN cands : may_claim(cands[i])}

claim_order(cands, at) == sort_by(Admissible(cands), IndexOrder(cands, at))

-----------------------------------------------------------------------------
(* gather_candidates for a worker with capabilities caps. *)

Claimable(caps) == {j \in Jobs : left[j] > 0 /\ SpecOf[j].backend \in caps}
Active(caps) == {SpecOf[j].tenant : j \in Claimable(caps)}

\* The running shards of a lane, numbered within their job.
Running(lane) ==
    UNION {{j} \X (1 .. busy[j]) : j \in {j \in Jobs : tier(SpecOf[j].backend) = lane}}

running(t, lane) == Cardinality({s \in Running(lane) : SpecOf[s[1]].tenant = t})

running_total(caps, lane) ==
    Cardinality({s \in Running(lane) : SpecOf[s[1]].tenant \in Active(caps)})

Candidate(j, caps) ==
    LET lane == tier(SpecOf[j].backend)
        class == class_for(SpecOf[j].seeds)
    IN [job |-> j, tenant |-> SpecOf[j].tenant, tier |-> lane, class |-> class,
        deadline_unix |-> deadline_unix(enqueue[j], class),
        tenant_running |-> running(SpecOf[j].tenant, lane),
        tenant_fair_share |-> fair_share(running_total(caps, lane),
                                         Cardinality(Active(caps))),
        tenant_lane_cap |-> lane_cap]

\* Tenant by tenant, the oldest job of a tenant first.
RowOrder ==
    {w \in Jobs \X Jobs :
        \/ SpecOf[w[1]].tenant < SpecOf[w[2]].tenant
        \/ /\ SpecOf[w[1]].tenant = SpecOf[w[2]].tenant
           /\ \/ enqueue[w[1]] < enqueue[w[2]]
              \/ enqueue[w[1]] = enqueue[w[2]] /\ w[1] < w[2]}

gather_candidates(caps) ==
    LET js == sort_by(Claimable(caps), RowOrder)
    IN [p \in DOMAIN js |-> Candidate(js[p], caps)]

-----------------------------------------------------------------------------
Init ==
    /\ now \in Clock
    /\ enqueue = [j \in Jobs |-> -1]
    /\ left = [j \in Jobs |-> 0]
    /\ busy = [j \in Jobs |-> 0]

submit_job(j) ==
    /\ enqueue[j] = -1
    /\ enqueue' = [enqueue EXCEPT ![j] = now]
    /\ left' = [left EXCEPT ![j] = SpecOf[j].seeds]
    /\ UNCHANGED <<now, busy>>

\* Mutant: the running shard stays pending.
claim_across_tenants_KeepsPending(caps) ==
    LET cands == gather_candidates(caps)
        order == claim_order(cands, now)
    IN /\ order # <<>>
       /\ busy' = [busy EXCEPT ![cands[order[1]].job] = @ + 1]
       /\ UNCHANGED <<now, enqueue, left>>

\* The candidate claim_order puts first is claimed.
claim_across_tenants(caps) ==
    LET cands == gather_candidates(caps)
        order == claim_order(cands, now)
    IN /\ order # <<>>
       /\ left' = [left EXCEPT ![cands[order[1]].job] = @ - 1]
       /\ busy' = [busy EXCEPT ![cands[order[1]].job] = @ + 1]
       /\ UNCHANGED <<now, enqueue>>

result(j) ==
    /\ busy[j] > 0
    /\ busy' = [busy EXCEPT ![j] = @ - 1]
    /\ UNCHANGED <<now, enqueue, left>>

Passes(t) == t > now /\ now' = t /\ UNCHANGED <<enqueue, left, busy>>

\* A Mac serves every backend, a Linux box the elastic ones.
Mac == {"web", "android", "ios"}
Linux == {"web", "android"}

Next ==
    \/ \E j \in Jobs : submit_job(j) \/ result(j)
    \/ \E caps \in {Mac, Linux} : claim_across_tenants(caps)
    \/ \E t \in Clock : Passes(t)

Spec == Init /\ [][Next]_vars

-----------------------------------------------------------------------------
\* The clock moves over the instants of the instance, and a job never has
\* more pending and running shards than it was submitted with.
TypeOK ==
    /\ now \in Clock
    /\ enqueue \in [Jobs -> Clock \cup {-1}]
    /\ \A j \in Jobs : left[j] \in Nat /\ busy[j] \in Nat
                       /\ left[j] + busy[j] <= SpecOf[j].seeds

Ranking(caps) ==
    LET cands == gather_candidates(caps)
    IN [p \in DOMAIN claim_order(cands, now) |-> cands[claim_order(cands, now)[p]]]

\* Nothing starves behind newer work: of two candidates of one claim, the one
\* submitted earlier is passed only by work submitted at most six hours and
\* fifty minutes after it, unless its own tenant runs above its fair share.
OvertakingIsBounded ==
    LET r == Ranking(Mac)
        slack == BATCH_SLA_S - INTERACTIVE_SLA_S + INTERACTIVE_BOOST
    IN \A p, q \in DOMAIN r : p < q =>
         enqueue[r[p].job] <= enqueue[r[q].job] + slack + FAIRNESS_PENALTY * Over(r[q])

\* "One tenant's huge campaign cannot starve another": of two jobs of one
\* class, tier and age, the one whose tenant runs above its share waits.
HogYields ==
    LET r == Ranking(Mac)
    IN \A p, q \in DOMAIN r :
         (/\ r[p].class = r[q].class /\ r[p].tier = r[q].tier
          /\ enqueue[r[p].job] = enqueue[r[q].job]
          /\ Over(r[p]) > 0 /\ Over(r[q]) = 0) => q < p

\* The ranking "is deterministic across workers and across DB row order": in
\* whatever order the candidates are gathered, claim_order ranks the same
\* scores, deadlines and tenants.
RowOrderIsIrrelevant ==
    LET cands == gather_candidates(Mac)
        key(c) == <<claim_score(c, now), c.deadline_unix, c.tenant>>
        keys(cs) == LET o == claim_order(cs, now) IN [p \in DOMAIN o |-> key(cs[o[p]])]
    IN \A f \in Bijection(DOMAIN cands, DOMAIN cands) :
         keys([p \in DOMAIN cands |-> cands[f[p]]]) = keys(cands)
=============================================================================
