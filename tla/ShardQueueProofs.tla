-------------------------- MODULE ShardQueueProofs --------------------------
(***************************************************************************)
(* Proofs about ShardQueue for any number of tenants, jobs, shards and     *)
(* workers and any combination of failures: type correctness, the safety   *)
(* invariants of the durable queue, the bound its lane gate keeps, and     *)
(* that it implements ShardLease.                                          *)
(***************************************************************************)
EXTENDS ShardQueue, FiniteSetTheorems, TLAPS

-----------------------------------------------------------------------------
(* The parts of the inductive invariant. *)

\* A worker process that is polling runs nothing.
PollersAreFree == \A w \in Workers : req[w].pc # "idle" => IsFree(w)

\* Only remote workers post.
PostsAreRemote == \A m \in posts : m.worker \in Remote

\* The id a claim was made under.
IdOfClaim(c) == WorkerId(c.worker, c.attempt)

\* Every token was granted, and every running row to its owner.
TokensAreGranted ==
    \A c \in running \cup posts : <<c.attempt, IdOfClaim(c)>> \in grants[c.shard]
OwnerIsGranted ==
    \A s \in Shards : state[s] = "running" =>
        \E i \in WorkerIds : owner[s] = {i} /\ <<attempts[s], i>> \in grants[s]

\* A token that passes the fence is the one of the latest claim, or bears an id
\* that does not tell claims apart.
FenceIsCurrent ==
    \A c \in running \cup posts :
        Holds(c) => c.attempt = attempts[c.shard] \/ IdOfClaim(c) \in SharedIds

Fence == TokensAreGranted /\ OwnerIsGranted /\ FenceIsCurrent

\* The shards of a job exist when and only when the job does.
ShardsWithJob ==
    \A s \in Shards : job[s[1]] = "absent" <=> state[s] = "absent"

\* Result handlers work for shards, and jobs, that are through.
CheckedAreTerminal == \A s \in checking : state[s] \in Terminal
WrittenAreComplete ==
    \A s \in writing : \A r \in ShardsOf(s[1]) : state[r] \in Terminal

\* The inductive invariant.
QueueInv ==
    /\ TypeOK
    /\ PollersAreFree
    /\ PostsAreRemote
    /\ Fence
    /\ ShardsWithJob
    /\ CheckedAreTerminal
    /\ WrittenAreComplete
    /\ FinishedJobComplete
    /\ OnlyClaimantCredited

-----------------------------------------------------------------------------
\* Every outcome a worker can report maps to a terminal shard state
\* (map_status).
LEMMA OutcomeIsTerminal ==
    ASSUME NEW o \in Outcomes
    PROVE  map_status[o] \in Terminal
BY QueueAssumption DEF QueueAssumption, map_status, Terminal

\* Pairs are equal componentwise (worker ids are pairs).
LEMMA PairEq ==
    ASSUME NEW a, NEW b, NEW c, NEW d, <<a, b>> = <<c, d>>
    PROVE  a = c /\ b = d
OBVIOUS

\* The identity of a claim (sanitize_worker_id, spawn_embedded) is a worker id.
LEMMA WorkerIdType ==
    ASSUME NEW w \in Workers, NEW n \in Nat
    PROVE  WorkerId(w, n) \in WorkerIds
BY QueueAssumption DEF QueueAssumption, WorkerId, WorkerIds

\* Two claims with one identity are one claim of a worker that gets a fresh id
\* each time, or both are made under the same stable id.
LEMMA SameWorkerId ==
    ASSUME NEW v \in Workers, NEW w \in Workers,
           NEW m \in Nat \ {0}, NEW n \in Nat \ {0},
           {WorkerId(v, m)} = {WorkerId(w, n)}
    PROVE  \/ v \in Minted /\ m = n
           \/ v \notin Minted /\ w \notin Minted /\ IdOf[v] = IdOf[w]
<1>1. WorkerId(v, m) = WorkerId(w, n)
  BY Zenon
<1>2. WorkerId(v, m) = IF v \in Minted THEN <<v, m>> ELSE <<IdOf[v], 0>>
  BY DEF WorkerId
<1>3. WorkerId(w, n) = IF w \in Minted THEN <<w, n>> ELSE <<IdOf[w], 0>>
  BY DEF WorkerId
<1>4. CASE v \in Minted
  <2>1. CASE w \in Minted
    <3>1. <<v, m>> = <<w, n>>
      BY <1>1, <1>2, <1>3, <1>4, <2>1, Zenon
    <3>2. m = n
      BY <3>1, PairEq, Zenon
    <3> QED BY <1>4, <3>2
  <2>2. CASE w \notin Minted
    <3>1. m = 0
      BY <1>1, <1>2, <1>3, <1>4, <2>2, PairEq, Zenon
    <3> QED BY <3>1
  <2> QED BY <2>1, <2>2
<1>5. CASE v \notin Minted
  <2>1. CASE w \in Minted
    <3>1. n = 0
      BY <1>1, <1>2, <1>3, <1>5, <2>1, PairEq, Zenon
    <3> QED BY <3>1
  <2>2. CASE w \notin Minted
    BY <1>1, <1>2, <1>3, <1>5, <2>2, PairEq, Zenon
  <2> QED BY <2>1, <2>2
<1> QED BY <1>4, <1>5

\* Claim requests (claim_across_tenants) change by one field at a time.
LEMMA ReqFields ==
    ASSUME req \in [Workers -> ReqType], NEW w \in Workers
    PROVE  /\ \A pc \in {"idle", "visit", "count", "clear", "load"} :
                 [req EXCEPT ![w].pc = pc] \in [Workers -> ReqType]
           /\ \A T \in SUBSET Tenants : [req EXCEPT ![w].todo = T] \in [Workers -> ReqType]
           /\ \A J \in SUBSET Jobs : [req EXCEPT ![w].cands = J] \in [Workers -> ReqType]
<1>1. \A pc \in {"idle", "visit", "count", "clear", "load"} :
         [req EXCEPT ![w].pc = pc] \in [Workers -> ReqType]
  BY DEF ReqType
<1>2. \A T \in SUBSET Tenants : [req EXCEPT ![w].todo = T] \in [Workers -> ReqType]
  BY DEF ReqType
<1>3. \A J \in SUBSET Jobs : [req EXCEPT ![w].cands = J] \in [Workers -> ReqType]
  BY DEF ReqType
<1> QED BY <1>1, <1>2, <1>3

\* A request that reads the hint (tenants_with_pending) is well typed.
LEMMA FreshReqType ==
    ASSUME NEW T \in SUBSET Tenants
    PROVE  Reading(T) \in ReqType
BY DEF Reading, ReqType

\* Every step of the queue preserves the types of its variables.
LEMMA TypeStep == TypeOK /\ [Next]_vars => TypeOK'
<1> SUFFICES ASSUME TypeOK, [Next]_vars PROVE TypeOK'
  OBVIOUS
<1> USE QueueAssumption DEF QueueAssumption
<1>0. req \in [Workers -> ReqType]
  BY DEF TypeOK
<1>1. ASSUME NEW j \in Jobs, insert_job(j) PROVE TypeOK'
  BY <1>1 DEF insert_job, TypeOK
<1>2. ASSUME NEW j \in Jobs, mark_tenant_pending(j) PROVE TypeOK'
  BY <1>2 DEF mark_tenant_pending, TypeOK, shardVars
<1>3. ASSUME NEW w \in Workers, tenants_with_pending(w) PROVE TypeOK'
  <2>1. req' \in [Workers -> ReqType]
    <3>1. hint \in SUBSET Tenants
      BY DEF TypeOK
    <3>2. req' = [req EXCEPT ![w] = Reading(hint)]
      BY <1>3 DEF tenants_with_pending
    <3> QED BY <1>0, <3>1, <3>2, FreshReqType
  <2> QED BY <1>3, <2>1 DEF tenants_with_pending, TypeOK, shardVars
<1>4. ASSUME NEW w \in Workers, pending_shard_count(w) PROVE TypeOK'
  <2>1. req' \in [Workers -> ReqType]
    <3>1. PICK pc \in {"visit", "clear"} : req' = [req EXCEPT ![w].pc = pc]
      BY <1>4 DEF pending_shard_count
    <3> QED BY <1>0, <3>1, ReqFields
  <2> QED BY <1>4, <2>1 DEF pending_shard_count, TypeOK, shardVars
<1>5. ASSUME NEW w \in Workers, clear_tenant_pending(w) PROVE TypeOK'
  <2>1. req' \in [Workers -> ReqType]
    BY <1>0, <1>5, ReqFields DEF clear_tenant_pending
  <2> QED BY <1>5, <2>1 DEF clear_tenant_pending, TypeOK, shardVars
<1>6. ASSUME NEW w \in Workers, running_by_backend(w) PROVE TypeOK'
  <2>1. \A failed \in BOOLEAN : Admitted(w, failed) \subseteq Jobs
    BY DEF Admitted, TypeOK, ReqType
  <2>2. req' \in [Workers -> ReqType]
    BY <1>6, <2>1 DEF running_by_backend, TypeOK, ReqType
  <2> QED BY <1>6, <2>2 DEF running_by_backend, TypeOK, shardVars
<1>7. ASSUME NEW w \in Workers, claim_nothing(w) PROVE TypeOK'
  <2>1. req' \in [Workers -> ReqType]
    BY <1>7 DEF claim_nothing, TypeOK, ReqType, IdleReq
  <2> QED BY <1>7, <2>1 DEF claim_nothing, TypeOK, shardVars
<1>8. ASSUME NEW w \in Workers, NEW t \in Tenants, pending_jobs(w, t) PROVE TypeOK'
  <2>1. JobsFor(w, t) \subseteq Jobs
    BY DEF JobsFor
  <2>2. req' \in [Workers -> ReqType]
    BY <1>8, <2>1 DEF pending_jobs, TypeOK, ReqType
  <2> QED BY <1>8, <2>2 DEF pending_jobs, TypeOK, shardVars
<1>9. ASSUME NEW w \in Workers, NEW j \in Jobs, claim_missed(w, j) PROVE TypeOK'
  <2>1. req' \in [Workers -> ReqType]
    <3>1. req[w].cands \ {j} \in SUBSET Jobs
      BY <1>0 DEF ReqType
    <3> QED BY <1>0, <1>9, <3>1, ReqFields DEF claim_missed
  <2> QED BY <1>9, <2>1 DEF claim_missed, TypeOK, shardVars
<1>10. ASSUME NEW w \in Workers, NEW s \in Shards, claim_shard(w, s) PROVE TypeOK'
  <2>1. attempts[s] + 1 \in Nat \ {0} /\ WorkerId(w, attempts[s] + 1) \in WorkerIds
    BY WorkerIdType DEF TypeOK
  <2>2. running' \subseteq Claim
    BY <1>10, <2>1 DEF claim_shard, TypeOK, Claim
  <2> QED BY <1>10, <2>1, <2>2 DEF claim_shard, TypeOK, ReqType, IdleReq
<1>11. ASSUME NEW w \in Workers, claim_request_lost(w) PROVE TypeOK'
  <2>1. req' \in [Workers -> ReqType]
    BY <1>11 DEF claim_request_lost, TypeOK, ReqType, IdleReq
  <2> QED BY <1>11, <2>1 DEF claim_request_lost, TypeOK, shardVars
<1>12. ASSUME NEW w \in Workers, NEW t \in Tenants, skip_tenant(w, t) PROVE TypeOK'
  <2>1. req' \in [Workers -> ReqType]
    <3>1. req[w].todo \ {t} \in SUBSET Tenants
      BY <1>0 DEF ReqType
    <3> QED BY <1>0, <1>12, <3>1, ReqFields DEF skip_tenant
  <2> QED BY <1>12, <2>1 DEF skip_tenant, TypeOK, shardVars
<1>13. ASSUME NEW c \in running, NEW o \in Outcomes, run_embedded_shard(c, o) PROVE TypeOK'
  BY <1>13, OutcomeIsTerminal DEF run_embedded_shard, set_shard, TypeOK, Claim
<1>14. ASSUME NEW c \in running, NEW o \in Outcomes, post_result(c, o) PROVE TypeOK'
  BY <1>14 DEF post_result, TypeOK, shardVars, Claim, Post
<1>15. ASSUME NEW c \in running \cup beating, touch_shard(c) PROVE TypeOK'
  BY <1>15 DEF touch_shard, TypeOK
<1>16. ASSUME NEW c \in running, worker_lost(c) PROVE TypeOK'
  BY <1>16 DEF worker_lost, TypeOK, shardVars
<1>17. ASSUME NEW m \in posts, result(m) PROVE TypeOK'
  <2>1. m.shard \in Shards /\ m.attempt \in Nat /\ m.outcome \in Outcomes
    BY DEF TypeOK, Post
  <2> QED BY <1>17, <2>1, OutcomeIsTerminal DEF result, set_shard, TypeOK
<1>18. ASSUME NEW m \in posts, post_lost(m) PROVE TypeOK'
  BY <1>18 DEF post_lost, TypeOK, shardVars
<1>19. ASSUME NEW s \in Shards, job_incomplete(s) PROVE TypeOK'
  BY <1>19 DEF job_incomplete, TypeOK, shardVars
<1>20. ASSUME NEW s \in Shards, finalize_job(s) PROVE TypeOK'
  BY <1>20 DEF finalize_job, TypeOK, shardVars, Shards
<1>21. ASSUME NEW s \in Shards, finalize_lost(s) PROVE TypeOK'
  BY <1>21 DEF finalize_lost, TypeOK, shardVars
<1>22. ASSUME NEW s \in Shards, heartbeat_ages(s) PROVE TypeOK'
  BY <1>22 DEF heartbeat_ages, TypeOK
<1>23. ASSUME NEW t \in Tenants, requeue_stranded(t) PROVE TypeOK'
  BY <1>23 DEF requeue_stranded, TypeOK
<1>24. ASSUME NEW t \in Tenants, mark_requeued(t) PROVE TypeOK'
  BY <1>24 DEF mark_requeued, TypeOK, shardVars
<1>25. ASSUME NEW c \in running, run_panics(c) PROVE TypeOK'
  BY <1>25 DEF run_panics, TypeOK, shardVars
<1>26. ASSUME NEW c \in beating, heartbeat_ends(c) PROVE TypeOK'
  BY <1>26 DEF heartbeat_ends, TypeOK, shardVars
<1>27. ASSUME UNCHANGED vars PROVE TypeOK'
  BY <1>27 DEF vars, TypeOK
<1> QED
  BY <1>1, <1>2, <1>3, <1>4, <1>5, <1>6, <1>7, <1>8, <1>9, <1>10, <1>11, <1>12,
     <1>13, <1>14, <1>15, <1>16, <1>17, <1>18, <1>19, <1>20, <1>21, <1>22, <1>23,
     <1>24, <1>25, <1>26, <1>27 DEF Next, ClaimStep, RunStep

\* Every column and handler variable of the queue keeps its type.
THEOREM TypeCorrect == Spec => []TypeOK
<1>1. Init => TypeOK
  BY DEF Init, TypeOK, IdleReq, ReqType
<1> QED BY <1>1, TypeStep, PTL DEF Spec

-----------------------------------------------------------------------------
\* The fence survives every step that claims nothing.
LEMMA FenceKept ==
    ASSUME TypeOK, Fence, UNCHANGED <<attempts, grants>>,
           \A s \in Shards :
               state'[s] = "running" => state[s] = "running" /\ owner'[s] = owner[s],
           \A d \in running' \cup posts' : \E c \in running \cup posts :
               d.worker = c.worker /\ d.shard = c.shard /\ d.attempt = c.attempt
    PROVE  Fence'
<1>1. OwnerIsGranted'
  BY DEF Fence, OwnerIsGranted
<1>2. ASSUME NEW d \in running' \cup posts'
      PROVE  /\ <<d.attempt, IdOfClaim(d)>> \in grants'[d.shard]
             /\ Holds(d)' => d.attempt = attempts'[d.shard] \/ IdOfClaim(d) \in SharedIds
  <2> PICK c \in running \cup posts :
              d.worker = c.worker /\ d.shard = c.shard /\ d.attempt = c.attempt
    OBVIOUS
  <2>1. c.shard \in Shards /\ IdOfClaim(d) = IdOfClaim(c)
    BY DEF TypeOK, Claim, Post, IdOfClaim
  <2>2. Holds(d)' => Holds(c)
    BY <2>1 DEF Holds
  <2> QED BY <2>1, <2>2 DEF Fence, TokensAreGranted, FenceIsCurrent
<1> QED BY <1>1, <1>2 DEF Fence, TokensAreGranted, FenceIsCurrent, IdOfClaim

\* The parts of QueueInv that read the shard rows survive every step that
\* leaves the rows, the tokens and the result handlers alone.
LEMMA RowsUntouched ==
    ASSUME QueueInv,
           UNCHANGED <<job, state, owner, attempts, grants, credited, running, posts,
                       checking, writing>>
    PROVE  /\ PostsAreRemote' /\ Fence' /\ ShardsWithJob'
           /\ CheckedAreTerminal' /\ WrittenAreComplete'
           /\ FinishedJobComplete' /\ OnlyClaimantCredited'
<1>1. Fence'
  BY FenceKept DEF QueueInv
<1> QED
  BY <1>1 DEF QueueInv, PostsAreRemote, ShardsWithJob, CheckedAreTerminal,
     WrittenAreComplete, FinishedJobComplete, OnlyClaimantCredited

\* Recording a result (set_shard) for a token c that is in running or in posts
\* keeps every part of QueueInv that reads the shard rows.
LEMMA ResultRecorded ==
    ASSUME QueueInv, NEW c \in running \cup posts, NEW o \in Outcomes,
           set_shard(c, o),
           running' \subseteq running, posts' \subseteq posts,
           UNCHANGED <<job, owner, attempts, grants, writing>>
    PROVE  /\ PostsAreRemote' /\ Fence' /\ ShardsWithJob'
           /\ CheckedAreTerminal' /\ WrittenAreComplete'
           /\ FinishedJobComplete' /\ OnlyClaimantCredited'
<1>0. c.shard \in Shards /\ c.attempt \in Nat /\ map_status[o] \in Terminal
  BY OutcomeIsTerminal DEF QueueInv, TypeOK, Claim, Post
<1>1. CASE Holds(c)
  <2>1. /\ state' = [state EXCEPT ![c.shard] = map_status[o]]
        /\ credited' = [credited EXCEPT ![c.shard] = c.attempt]
        /\ checking' = checking \cup {c.shard}
    BY <1>1 DEF set_shard
  <2>2. state \in [Shards -> {"absent", "pending", "running"} \cup Terminal]
        /\ credited \in [Shards -> Nat]
    BY DEF QueueInv, TypeOK
  <2>3. state[c.shard] = "running" /\ owner[c.shard] = {IdOfClaim(c)}
    BY <1>1 DEF Holds, IdOfClaim
  <2>4. \A s \in Shards : state[s] \in Terminal => state'[s] \in Terminal
    BY <1>0, <2>1, <2>2
  <2>5. PostsAreRemote'
    BY DEF QueueInv, PostsAreRemote
  <2>6. Fence'
    <3>1. \A s \in Shards : state'[s] = "running" => state[s] = "running"
      BY <1>0, <2>1, <2>2 DEF Terminal
    <3> QED BY <3>1, FenceKept DEF QueueInv
  <2>7. ShardsWithJob'
    BY <1>0, <2>1, <2>2, <2>3 DEF QueueInv, ShardsWithJob, Terminal
  <2>8. CheckedAreTerminal'
    BY <1>0, <2>1, <2>2, <2>4 DEF QueueInv, TypeOK, CheckedAreTerminal
  <2>9. WrittenAreComplete' /\ FinishedJobComplete'
    BY <2>4 DEF QueueInv, TypeOK, WrittenAreComplete, FinishedJobComplete, Shards, ShardsOf
  <2>10. \/ c.attempt = attempts[c.shard]
         \/ \E i \in SharedIds :
               {<<c.attempt, i>>, <<attempts[c.shard], i>>} \subseteq grants[c.shard]
    <3>1. <<c.attempt, IdOfClaim(c)>> \in grants[c.shard]
      BY DEF QueueInv, Fence, TokensAreGranted
    <3>2. <<attempts[c.shard], IdOfClaim(c)>> \in grants[c.shard]
      BY <1>0, <2>3 DEF QueueInv, Fence, OwnerIsGranted
    <3>3. c.attempt = attempts[c.shard] \/ IdOfClaim(c) \in SharedIds
      BY <1>1 DEF QueueInv, Fence, FenceIsCurrent
    <3> QED BY <3>1, <3>2, <3>3
  <2>11. OnlyClaimantCredited'
    BY <1>0, <2>1, <2>2, <2>10 DEF QueueInv, OnlyClaimantCredited
  <2> QED BY <2>5, <2>6, <2>7, <2>8, <2>9, <2>11
<1>2. CASE ~Holds(c)
  <2>1. Fence'
    BY <1>2, FenceKept DEF set_shard, QueueInv
  <2> QED
    BY <1>2, <2>1 DEF set_shard, QueueInv, PostsAreRemote, ShardsWithJob,
       CheckedAreTerminal, WrittenAreComplete, FinishedJobComplete, OnlyClaimantCredited
<1> QED BY <1>1, <1>2

\* Initially nothing is claimed, posted or reported.
LEMMA InvInit == Init => QueueInv
BY DEF Init, QueueInv, TypeOK, IdleReq, ReqType, PollersAreFree, IsFree, PostsAreRemote,
       Fence, TokensAreGranted, OwnerIsGranted, FenceIsCurrent, ShardsWithJob,
       CheckedAreTerminal, WrittenAreComplete, FinishedJobComplete,
       OnlyClaimantCredited, Shards, Terminal

\* Every step of the queue preserves QueueInv.
LEMMA InvStep == QueueInv /\ [Next]_vars => QueueInv'
<1> SUFFICES ASSUME QueueInv, [Next]_vars PROVE QueueInv'
  OBVIOUS
<1> DEFINE Rows == /\ PostsAreRemote /\ Fence /\ ShardsWithJob
                   /\ CheckedAreTerminal /\ WrittenAreComplete
                   /\ FinishedJobComplete /\ OnlyClaimantCredited
<1>0. TypeOK /\ TypeOK'
  BY TypeStep DEF QueueInv
<1> SUFFICES PollersAreFree' /\ Rows'
  BY <1>0 DEF QueueInv
<1>1. ASSUME NEW j \in Jobs, insert_job(j) PROVE PollersAreFree' /\ Rows'
  <2>1. \A s \in Shards : state'[s] = IF s \in ShardsOf(j) THEN "pending" ELSE state[s]
    BY <1>1 DEF insert_job
  <2>2. \A s \in ShardsOf(j) : state[s] = "absent" /\ s \in Shards /\ s[1] = j
    BY <1>1 DEF insert_job, ShardsOf, Shards, QueueInv, ShardsWithJob
  <2>3. \A s \in Shards : state[s] \in Terminal => state'[s] = state[s]
    BY <2>1, <2>2 DEF Terminal
  <2>4. PollersAreFree' /\ PostsAreRemote'
    BY <1>1 DEF insert_job, QueueInv, PollersAreFree, PostsAreRemote, IsFree
  <2>5. Fence'
    <3>1. \A s \in Shards : state'[s] = "running" => state[s] = "running"
      BY <2>1
    <3> QED BY <1>1, <3>1, FenceKept DEF insert_job, QueueInv
  <2>6. ShardsWithJob'
    <3> SUFFICES ASSUME NEW s \in Shards
                 PROVE  job'[s[1]] = "absent" <=> state'[s] = "absent"
      BY DEF ShardsWithJob
    <3>1. s[1] \in Jobs /\ (s \in ShardsOf(j) <=> s[1] = j)
      BY DEF Shards, ShardsOf
    <3> QED BY <1>0, <1>1, <2>1, <3>1 DEF insert_job, TypeOK, QueueInv, ShardsWithJob
  <2>7. CheckedAreTerminal' /\ WrittenAreComplete' /\ FinishedJobComplete'
        /\ OnlyClaimantCredited'
    <3>1. job' = [job EXCEPT ![j] = "open"]
          /\ UNCHANGED <<checking, writing, credited, attempts, grants>>
      BY <1>1 DEF insert_job
    <3>2. CheckedAreTerminal'
      BY <1>0, <2>3, <3>1 DEF QueueInv, TypeOK, CheckedAreTerminal
    <3>3. WrittenAreComplete'
      BY <1>0, <2>3, <3>1 DEF QueueInv, TypeOK, WrittenAreComplete, Shards, ShardsOf
    <3>4. FinishedJobComplete'
      BY <1>0, <2>3, <3>1 DEF QueueInv, TypeOK, FinishedJobComplete, Shards, ShardsOf
    <3>5. OnlyClaimantCredited'
      <4>1. \A s \in Shards : state'[s] \in Terminal => state[s] \in Terminal
        BY <2>1 DEF Terminal
      <4> QED BY <3>1, <4>1 DEF QueueInv, OnlyClaimantCredited
    <3> QED BY <3>2, <3>3, <3>4, <3>5
  <2> QED BY <2>4, <2>5, <2>6, <2>7
<1>2. ASSUME NEW w \in Workers, NEW s \in Shards, claim_shard(w, s)
      PROVE  PollersAreFree' /\ Rows'
  <2> DEFINE n == attempts[s] + 1
             new == [worker |-> w, shard |-> s, attempt |-> n]
  <2>1. /\ state[s] = "pending" /\ n \in Nat \ {0}
        /\ state' = [state EXCEPT ![s] = "running"]
        /\ attempts' = [attempts EXCEPT ![s] = n]
        /\ owner' = [owner EXCEPT ![s] = {WorkerId(w, n)}]
        /\ grants' = [grants EXCEPT ![s] = @ \cup {<<n, WorkerId(w, n)>>}]
        /\ running' = running \cup {new}
        /\ req' = [req EXCEPT ![w] = IdleReq]
        /\ UNCHANGED <<job, credited, posts, checking, writing>>
    BY <1>0, <1>2 DEF claim_shard, TypeOK
  <2>2. IsFree(w)
    BY <1>2 DEF claim_shard, Ordered, QueueInv, PollersAreFree
  <2>3. PollersAreFree'
    BY <1>0, <2>1 DEF QueueInv, TypeOK, PollersAreFree, IsFree, IdleReq
  <2>4. PostsAreRemote'
    BY <2>1 DEF QueueInv, PostsAreRemote
  <2>5. TokensAreGranted' /\ OwnerIsGranted'
    <3>1. \A r \in Shards : grants[r] \subseteq grants'[r]
      BY <1>0, <2>1 DEF TypeOK
    <3>2. ASSUME NEW d \in running' \cup posts'
          PROVE  <<d.attempt, IdOfClaim(d)>> \in grants'[d.shard]
      <4>1. CASE d = new
        BY <1>0, <2>1, <4>1 DEF TypeOK, IdOfClaim
      <4>2. CASE d # new
        <5>1. d \in running \cup posts /\ d.shard \in Shards
          BY <1>0, <2>1, <4>2 DEF TypeOK, Claim, Post
        <5> QED BY <3>1, <5>1 DEF QueueInv, Fence, TokensAreGranted
      <4> QED BY <4>1, <4>2
    <3>3. ASSUME NEW r \in Shards, state'[r] = "running"
          PROVE  \E i \in WorkerIds : owner'[r] = {i} /\ <<attempts'[r], i>> \in grants'[r]
      <4>1. CASE r = s
        <5>1. /\ owner'[s] = {WorkerId(w, n)} /\ attempts'[s] = n
              /\ <<n, WorkerId(w, n)>> \in grants'[s]
          BY <1>0, <2>1 DEF TypeOK
        <5> QED BY <4>1, <5>1, <2>1, WorkerIdType
      <4>2. CASE r # s
        BY <1>0, <2>1, <3>3, <4>2 DEF TypeOK, QueueInv, Fence, OwnerIsGranted
      <4> QED BY <4>1, <4>2
    <3> QED BY <3>2, <3>3 DEF TokensAreGranted, OwnerIsGranted, IdOfClaim
  <2>10. FenceIsCurrent'
    <3> SUFFICES ASSUME NEW d \in running' \cup posts', Holds(d)'
                 PROVE  d.attempt = attempts'[d.shard] \/ IdOfClaim(d) \in SharedIds
      BY DEF FenceIsCurrent, IdOfClaim
    <3>1. CASE d = new
      BY <1>0, <2>1, <3>1 DEF TypeOK
    <3>2. CASE d # new /\ d.shard # s
      <4>1. d \in running \cup posts /\ d.shard \in Shards
        BY <1>0, <2>1, <3>2 DEF TypeOK, Claim, Post
      <4>2. Holds(d) /\ attempts'[d.shard] = attempts[d.shard]
        BY <1>0, <2>1, <3>2, <4>1 DEF Holds, TypeOK
      <4> QED BY <4>1, <4>2 DEF QueueInv, Fence, FenceIsCurrent
    <3>3. CASE d # new /\ d.shard = s
      <4>1. d \in running \cup posts /\ d.worker \in Workers /\ d.attempt \in Nat \ {0}
        BY <1>0, <2>1, <3>3 DEF TypeOK, Claim, Post
      <4>2. {WorkerId(d.worker, d.attempt)} = {WorkerId(w, n)}
        BY <1>0, <2>1, <3>3 DEF Holds, TypeOK
      <4>3. CASE d.worker \in Minted /\ d.attempt = n
        BY <1>0, <2>1, <3>3, <4>3 DEF TypeOK
      <4>4. CASE d.worker \notin Minted /\ w \notin Minted /\ IdOf[d.worker] = IdOf[w]
        <5>1. d.worker \in Remote \/ ~Lone(d.worker)
          <6> SUFFICES ASSUME d.worker \notin Remote, Lone(d.worker) PROVE FALSE
            OBVIOUS
          <6>1. d.worker = w
            BY <4>1, <4>4 DEF Lone
          <6>2. d \in running
            BY <4>1 DEF QueueInv, PostsAreRemote
          <6> QED BY <2>2, <6>1, <6>2 DEF IsFree
        <5>2. IdOfClaim(d) = <<IdOf[d.worker], 0>>
          BY <4>4 DEF IdOfClaim, WorkerId
        <5> QED BY <4>1, <4>4, <5>1, <5>2 DEF SharedIds
      <4> QED BY <2>1, <4>1, <4>2, <4>3, <4>4, SameWorkerId
    <3> QED BY <3>1, <3>2, <3>3
  <2>6. ShardsWithJob'
    BY <1>0, <2>1 DEF QueueInv, TypeOK, ShardsWithJob
  <2>7. \A r \in Shards : state[r] \in Terminal =>
                  /\ state'[r] = state[r] /\ attempts'[r] = attempts[r]
                  /\ grants'[r] = grants[r]
    BY <1>0, <2>1 DEF TypeOK, Terminal
  <2>8. CheckedAreTerminal' /\ WrittenAreComplete' /\ FinishedJobComplete'
    BY <1>0, <2>1, <2>7 DEF QueueInv, TypeOK, CheckedAreTerminal, WrittenAreComplete,
                            FinishedJobComplete, Shards, ShardsOf
  <2>9. OnlyClaimantCredited'
    BY <1>0, <2>1, <2>7 DEF QueueInv, TypeOK, OnlyClaimantCredited, Terminal
  <2> QED BY <2>3, <2>4, <2>5, <2>6, <2>8, <2>9, <2>10 DEF Fence
<1>3. ASSUME NEW t \in Tenants, requeue_stranded(t) PROVE PollersAreFree' /\ Rows'
  <2>1. \A s \in Shards : \/ state'[s] = state[s] /\ owner'[s] = owner[s]
                          \/ state'[s] = "pending" /\ state[s] = "running"
    <3> SUFFICES ASSUME NEW s \in Shards
                 PROVE  \/ state'[s] = state[s] /\ owner'[s] = owner[s]
                        \/ state'[s] = "pending" /\ state[s] = "running"
      OBVIOUS
    <3>1. CASE s \in Stranded(t)
      BY <1>3, <3>1 DEF requeue_stranded, Stranded
    <3>2. CASE s \notin Stranded(t)
      BY <1>3, <3>2 DEF requeue_stranded
    <3> QED BY <3>1, <3>2
  <2>3. UNCHANGED <<job, attempts, grants, credited, req, running, posts, checking, writing>>
    BY <1>3 DEF requeue_stranded
  <2>4. PollersAreFree' /\ PostsAreRemote'
    BY <2>3 DEF QueueInv, PollersAreFree, PostsAreRemote, IsFree
  <2>5. Fence'
    <3>1. \A s \in Shards :
             state'[s] = "running" => state[s] = "running" /\ owner'[s] = owner[s]
      BY <2>1
    <3> QED BY <2>3, <3>1, FenceKept DEF QueueInv
  <2>6. ShardsWithJob'
    BY <2>1, <2>3 DEF QueueInv, ShardsWithJob
  <2>7. \A r \in Shards : /\ state[r] \in Terminal => state'[r] = state[r]
                          /\ state'[r] \in Terminal => state'[r] = state[r]
    BY <2>1 DEF Terminal
  <2>8. CheckedAreTerminal' /\ WrittenAreComplete' /\ FinishedJobComplete'
    BY <1>0, <2>3, <2>7 DEF QueueInv, TypeOK, CheckedAreTerminal, WrittenAreComplete,
                            FinishedJobComplete, Shards, ShardsOf
  <2>9. OnlyClaimantCredited'
    BY <2>3, <2>7 DEF QueueInv, OnlyClaimantCredited
  <2> QED BY <2>4, <2>5, <2>6, <2>8, <2>9
<1>4. ASSUME NEW c \in running, NEW o \in Outcomes, run_embedded_shard(c, o)
      PROVE  PollersAreFree' /\ Rows'
  <2>1. PollersAreFree'
    BY <1>4 DEF run_embedded_shard, QueueInv, PollersAreFree, IsFree
  <2> QED BY <1>4, <2>1, ResultRecorded DEF run_embedded_shard
<1>5. ASSUME NEW m \in posts, result(m) PROVE PollersAreFree' /\ Rows'
  <2>1. PollersAreFree'
    BY <1>5 DEF result, QueueInv, PollersAreFree, IsFree
  <2>2. m.outcome \in Outcomes
    BY <1>0 DEF TypeOK, Post
  <2> QED BY <1>5, <2>1, <2>2, ResultRecorded DEF result
<1>6. ASSUME NEW c \in running, NEW o \in Outcomes, post_result(c, o)
      PROVE  PollersAreFree' /\ Rows'
  <2> DEFINE m == [worker |-> c.worker, shard |-> c.shard, attempt |-> c.attempt,
                   outcome |-> o]
  <2>1. c.worker \in Remote /\ running' \subseteq running /\ posts' = posts \cup {m}
        /\ UNCHANGED <<job, state, owner, attempts, grants, credited, req, checking, writing>>
    BY <1>6 DEF post_result, shardVars
  <2>2. PollersAreFree' /\ PostsAreRemote'
    BY <2>1 DEF QueueInv, PollersAreFree, PostsAreRemote, IsFree
  <2>3. Fence'
    BY <2>1, FenceKept DEF QueueInv
  <2> QED BY <2>1, <2>2, <2>3 DEF QueueInv, ShardsWithJob, CheckedAreTerminal,
             WrittenAreComplete, FinishedJobComplete, OnlyClaimantCredited
<1>7. ASSUME NEW s \in Shards, job_incomplete(s) PROVE PollersAreFree' /\ Rows'
  <2>1. s \in checking /\ checking' \subseteq checking
        /\ UNCHANGED <<job, state, owner, attempts, grants, credited, req, running, posts>>
    BY <1>7 DEF job_incomplete, shardVars
  <2>4. Fence'
    BY <2>1, FenceKept DEF QueueInv
  <2>2. CASE \E r \in ShardsOf(s[1]) : state[r] \in {"pending", "running"}
    BY <1>7, <2>1, <2>2, <2>4 DEF job_incomplete, QueueInv, PollersAreFree, IsFree,
       PostsAreRemote, ShardsWithJob, CheckedAreTerminal,
       WrittenAreComplete, FinishedJobComplete, OnlyClaimantCredited
  <2>3. CASE \A r \in ShardsOf(s[1]) : state[r] \notin {"pending", "running"}
    <3>1. writing' = writing \cup {s}
      BY <1>7, <2>3 DEF job_incomplete
    <3>2. \A r \in ShardsOf(s[1]) : r \in Shards /\ r[1] = s[1]
      BY DEF Shards, ShardsOf
    <3>3. job[s[1]] # "absent"
      BY <2>1 DEF QueueInv, CheckedAreTerminal, ShardsWithJob, Terminal
    <3>4. \A r \in ShardsOf(s[1]) : state[r] \in Terminal
      BY <1>0, <2>3, <3>2, <3>3 DEF TypeOK, QueueInv, ShardsWithJob
    <3>5. WrittenAreComplete'
      BY <2>1, <3>1, <3>4 DEF QueueInv, WrittenAreComplete
    <3> QED BY <2>1, <2>4, <3>5 DEF QueueInv, PollersAreFree, IsFree, PostsAreRemote,
               ShardsWithJob, CheckedAreTerminal, FinishedJobComplete,
               OnlyClaimantCredited
  <2> QED BY <2>2, <2>3
<1>8. ASSUME NEW s \in Shards, finalize_job(s) PROVE PollersAreFree' /\ Rows'
  <2>1. /\ s \in writing /\ writing' \subseteq writing /\ s[1] \in Jobs
        /\ job' = [job EXCEPT ![s[1]] = "finished"]
        /\ UNCHANGED <<state, owner, attempts, grants, credited, req, running, posts, checking>>
    BY <1>8 DEF finalize_job, shardVars, Shards
  <2>2. \A r \in ShardsOf(s[1]) : state[r] \in Terminal
    BY <2>1 DEF QueueInv, WrittenAreComplete
  <2>3. FinishedJobComplete'
    BY <1>0, <2>1, <2>2 DEF TypeOK, QueueInv, FinishedJobComplete
  <2>4. ShardsWithJob'
    <3> SUFFICES ASSUME NEW r \in Shards
                 PROVE  job'[r[1]] = "absent" <=> state[r] = "absent"
      BY <2>1 DEF ShardsWithJob
    <3>1. r[1] \in Jobs /\ (r[1] = s[1] => r \in ShardsOf(s[1]))
      BY DEF Shards, ShardsOf
    <3> QED BY <1>0, <2>1, <2>2, <3>1 DEF TypeOK, QueueInv, ShardsWithJob, Terminal
  <2>5. Fence'
    BY <2>1, FenceKept DEF QueueInv
  <2> QED BY <2>1, <2>3, <2>4, <2>5 DEF QueueInv, PollersAreFree, IsFree,
             PostsAreRemote, CheckedAreTerminal, WrittenAreComplete,
             OnlyClaimantCredited
<1>9. ASSUME \/ \E s \in Shards : finalize_lost(s)
             \/ \E c \in running : worker_lost(c) \/ run_panics(c)
             \/ \E m \in posts : post_lost(m)
      PROVE  PollersAreFree' /\ Rows'
  <2>1. /\ running' \subseteq running /\ posts' \subseteq posts
        /\ checking' \subseteq checking /\ writing' \subseteq writing
        /\ UNCHANGED <<job, state, owner, attempts, grants, credited, req>>
    BY <1>9 DEF finalize_lost, worker_lost, run_panics, post_lost, shardVars
  <2>2. Fence'
    BY <2>1, FenceKept DEF QueueInv
  <2> QED
    BY <2>1, <2>2 DEF QueueInv, PollersAreFree, IsFree, PostsAreRemote, ShardsWithJob,
       CheckedAreTerminal, WrittenAreComplete, FinishedJobComplete, OnlyClaimantCredited
<1>12. ASSUME NEW w \in Workers, tenants_with_pending(w) PROVE PollersAreFree' /\ Rows'
  <2>1. PollersAreFree'
    BY <1>0, <1>12 DEF tenants_with_pending, TypeOK, QueueInv, PollersAreFree, IsFree
  <2> QED BY <1>12, <2>1, RowsUntouched DEF tenants_with_pending, shardVars
<1>13. ASSUME NEW w \in Workers,
              \/ pending_shard_count(w) \/ clear_tenant_pending(w)
              \/ running_by_backend(w) \/ claim_nothing(w) \/ claim_request_lost(w)
              \/ \E t \in Tenants : pending_jobs(w, t) \/ skip_tenant(w, t)
              \/ \E j \in Jobs : claim_missed(w, j)
       PROVE  PollersAreFree' /\ Rows'
  <2>1. /\ req[w].pc # "idle"
        /\ \A v \in Workers \ {w} : req'[v] = req[v]
        /\ UNCHANGED <<job, state, owner, attempts, grants, credited, running, posts, checking,
                       writing>>
    BY <1>0, <1>13 DEF pending_shard_count, clear_tenant_pending, running_by_backend,
       claim_nothing, claim_request_lost, pending_jobs, skip_tenant, claim_missed,
       Ordered, shardVars, TypeOK
  <2>2. PollersAreFree'
    BY <2>1 DEF QueueInv, PollersAreFree, IsFree
  <2> QED BY <2>1, <2>2, RowsUntouched
<1>14. ASSUME \/ \E j \in Jobs : mark_tenant_pending(j)
              \/ \E c \in running \cup beating : touch_shard(c)
              \/ \E c \in beating : heartbeat_ends(c)
              \/ \E s \in Shards : heartbeat_ages(s)
              \/ \E t \in Tenants : mark_requeued(t)
              \/ UNCHANGED vars
       PROVE  PollersAreFree' /\ Rows'
  <2>1. UNCHANGED <<job, state, owner, attempts, grants, credited, req, running, posts, checking,
                    writing>>
    BY <1>14 DEF mark_tenant_pending, touch_shard, heartbeat_ends, heartbeat_ages,
       mark_requeued, vars, shardVars
  <2>2. PollersAreFree'
    BY <2>1 DEF QueueInv, PollersAreFree, IsFree
  <2> QED BY <2>1, <2>2, RowsUntouched
<1> QED
  BY <1>1, <1>2, <1>3, <1>4, <1>5, <1>6, <1>7, <1>8, <1>9, <1>12, <1>13, <1>14
  DEF Next, ClaimStep, RunStep

\* The inductive invariant of the queue holds in every reachable state.
THEOREM QueueInvariant == Spec => []QueueInv
BY InvInit, InvStep, PTL DEF Spec

\* A finished job has only terminal shards (maybe_finalize), for every number
\* of shards, workers and failures.
THEOREM FinishedJobsAreComplete == Spec => []FinishedJobComplete
<1>1. QueueInv => FinishedJobComplete
  BY DEF QueueInv
<1> QED BY <1>1, QueueInvariant, PTL

\* The recorded result of a shard is that of its latest claim (the claimed_by
\* fence of set_shard), or of an earlier one under the same shared id, for every
\* number of shards, workers, ids and failures.
THEOREM CreditsAreCurrent == Spec => []OnlyClaimantCredited
<1>1. QueueInv => OnlyClaimantCredited
  BY DEF QueueInv
<1> QED BY <1>1, QueueInvariant, PTL

-----------------------------------------------------------------------------
(* Refinement of ShardLease. *)

\* The mapped status of a shard, unfolded.
LEMMA StatusOf ==
    ASSUME NEW s \in Shards
    PROVE  /\ LeaseStatus[s] = "absent" <=> state[s] = "absent"
           /\ state[s] = "pending" => LeaseStatus[s] = "todo"
           /\ state[s] = "running" => LeaseStatus[s] = "leased"
           /\ state[s] \in Terminal => LeaseStatus[s] = "done"
BY DEF LeaseStatus, Terminal

\* Recording a result completes the current lease, as its holder or as an earlier
\* one under the same shared id, or, when the fence refuses it, changes nothing
\* the lease can see.
LEMMA ResultIsComplete ==
    ASSUME QueueInv, NEW c \in running \cup posts, NEW o \in Outcomes,
           set_shard(c, o), UNCHANGED <<job, attempts, grants>>
    PROVE  \/ c.shard \in Shards /\ \E g \in grants[c.shard] : Lease!Complete(c.shard, g)
           \/ UNCHANGED Lease!leaseVars
<1>0. c.shard \in Shards /\ map_status[o] \in Terminal
  BY OutcomeIsTerminal DEF QueueInv, TypeOK, Claim, Post
<1>1. CASE Holds(c)
  <2>1. /\ state' = [state EXCEPT ![c.shard] = map_status[o]]
        /\ credited' = [credited EXCEPT ![c.shard] = c.attempt]
        /\ state[c.shard] = "running"
    BY <1>1 DEF set_shard, Holds
  <2> DEFINE g == <<c.attempt, IdOfClaim(c)>>
  <2>2. /\ g \in grants[c.shard]
        /\ g[1] = attempts[c.shard] \/ g[2] \in SharedIds
    BY <1>1 DEF QueueInv, Fence, TokensAreGranted, FenceIsCurrent
  <2>5. <<attempts[c.shard], g[2]>> \in grants[c.shard]
    BY <1>0, <1>1 DEF Holds, IdOfClaim, QueueInv, Fence, OwnerIsGranted
  <2>3. LeaseStatus[c.shard] = "leased"
    BY <1>0, <2>1, StatusOf
  <2>4. LeaseStatus' = [LeaseStatus EXCEPT ![c.shard] = "done"]
    BY <1>0, <2>1 DEF LeaseStatus, QueueInv, TypeOK, Terminal
  <2>6. Lease!Complete(c.shard, g)
    BY <2>1, <2>2, <2>3, <2>4, <2>5 DEF Lease!Complete
  <2> QED BY <1>0, <2>2, <2>6
<1>2. CASE ~Holds(c)
  BY <1>2 DEF set_shard, Lease!leaseVars, LeaseStatus
<1> QED BY <1>1, <1>2

\* Every step of the queue is a step of the lease discipline or is invisible
\* to it.
LEMMA LeaseStep ==
    ASSUME QueueInv, [Next]_vars
    PROVE  [Lease!LeaseNext]_(Lease!leaseVars)
<1>0. TypeOK
  BY DEF QueueInv
<1>1. ASSUME NEW j \in Jobs, insert_job(j) PROVE Lease!Enqueue(j)
  <2>1. \A s \in Lease!ShardsOf(j) : s \in Shards /\ s[1] = j
    BY DEF Lease!ShardsOf, Shards
  <2>2. \A s \in Lease!ShardsOf(j) : LeaseStatus[s] = "absent"
    BY <1>1, <2>1, StatusOf DEF insert_job, QueueInv, ShardsWithJob
  <2>3. LeaseStatus' = [s \in Shards |-> IF s \in ShardsOf(j) THEN "todo" ELSE LeaseStatus[s]]
    BY <1>1 DEF insert_job, LeaseStatus
  <2>4. {k \in Jobs : job'[k] = "finished"} = {k \in Jobs : job[k] = "finished"}
    BY <1>0, <1>1 DEF insert_job, TypeOK
  <2> QED BY <1>1, <2>2, <2>3, <2>4
          DEF insert_job, Lease!Enqueue, Lease!Shards, Lease!ShardsOf, Shards, ShardsOf
<1>2. ASSUME NEW w \in Workers, NEW s \in Shards, claim_shard(w, s) PROVE Lease!Lease(s)
  <2>1. LeaseStatus' = [LeaseStatus EXCEPT ![s] = "leased"]
    BY <1>0, <1>2 DEF claim_shard, LeaseStatus, TypeOK
  <2>2. LeaseStatus[s] = "todo"
    BY <1>2, StatusOf DEF claim_shard
  <2> DEFINE g == <<attempts[s] + 1, WorkerId(w, attempts[s] + 1)>>
  <2>3. grants' = [grants EXCEPT ![s] = @ \cup {g}] /\ g \in grants'[s]
    BY <1>0, <1>2 DEF claim_shard, TypeOK
  <2> QED BY <1>2, <2>1, <2>2, <2>3 DEF claim_shard, Lease!Lease
<1>3. ASSUME NEW t \in Tenants, requeue_stranded(t) PROVE Lease!Expire(Stranded(t))
  <2>1. \A s \in Stranded(t) : s \in Shards /\ state[s] = "running"
    BY DEF Stranded
  <2>2. \A s \in Stranded(t) : LeaseStatus[s] = "leased"
    BY <2>1, StatusOf
  <2>3. LeaseStatus' = [s \in Shards |-> IF s \in Stranded(t) THEN "todo" ELSE LeaseStatus[s]]
    BY <1>3 DEF requeue_stranded, LeaseStatus
  <2> QED BY <1>3, <2>2, <2>3 DEF requeue_stranded, Lease!Expire, Lease!Shards, Shards
<1>4. ASSUME NEW s \in Shards, finalize_job(s) PROVE Lease!Finish(s[1]) /\ s[1] \in Jobs
  <2>1. s[1] \in Jobs
    BY DEF Shards
  <2>2. \A r \in ShardsOf(s[1]) : r \in Shards /\ state[r] \in Terminal
    BY <1>4, <2>1 DEF finalize_job, QueueInv, WrittenAreComplete, Shards, ShardsOf
  <2>3. \A r \in Lease!ShardsOf(s[1]) : LeaseStatus[r] = "done"
    BY <2>2, StatusOf DEF Lease!ShardsOf, ShardsOf
  <2>4. {k \in Jobs : job'[k] = "finished"} = {k \in Jobs : job[k] = "finished"} \cup {s[1]}
    BY <1>0, <1>4, <2>1 DEF finalize_job, TypeOK
  <2> QED BY <1>4, <2>1, <2>3, <2>4 DEF finalize_job, shardVars, LeaseStatus, Lease!Finish
<1>5. ASSUME NEW c \in running, NEW o \in Outcomes, run_embedded_shard(c, o)
      PROVE  \/ c.shard \in Shards /\ \E g \in grants[c.shard] : Lease!Complete(c.shard, g)
             \/ UNCHANGED Lease!leaseVars
  BY <1>5, ResultIsComplete DEF run_embedded_shard
<1>6. ASSUME NEW m \in posts, result(m)
      PROVE  \/ m.shard \in Shards /\ \E g \in grants[m.shard] : Lease!Complete(m.shard, g)
             \/ UNCHANGED Lease!leaseVars
  <2>1. m.outcome \in Outcomes
    BY <1>0 DEF TypeOK, Post
  <2> QED BY <1>6, <2>1, ResultIsComplete DEF result
<1>7. ASSUME UNCHANGED <<job, state, attempts, grants, credited>> PROVE UNCHANGED Lease!leaseVars
  BY <1>7 DEF Lease!leaseVars, LeaseStatus
<1>8. \/ UNCHANGED <<job, state, attempts, grants, credited>>
      \/ \E j \in Jobs : insert_job(j)
      \/ \E w \in Workers, s \in Shards : claim_shard(w, s)
      \/ \E t \in Tenants : requeue_stranded(t)
      \/ \E s \in Shards : finalize_job(s)
      \/ \E c \in running, o \in Outcomes : run_embedded_shard(c, o)
      \/ \E m \in posts : result(m)
  BY DEF Next, ClaimStep, RunStep, vars, shardVars, mark_tenant_pending,
     tenants_with_pending, pending_shard_count, clear_tenant_pending, running_by_backend,
     claim_nothing, pending_jobs, claim_missed, claim_request_lost, skip_tenant,
     post_result, touch_shard, worker_lost, run_panics, heartbeat_ends, post_lost,
     job_incomplete, finalize_lost, heartbeat_ages, mark_requeued
<1>9. \A t \in Tenants : Stranded(t) \in SUBSET Shards
  BY DEF Stranded
<1> QED
  BY <1>1, <1>2, <1>3, <1>4, <1>5, <1>6, <1>7, <1>8, <1>9
     DEF Lease!LeaseNext, Lease!Shards, Shards

\* The queue implements the lease discipline of ShardLease for every number of
\* tenants, jobs, shards and workers and every failure the model has.
THEOREM QueueImplementsLease == Spec => ImplementsLease
<1>1. Init => Lease!LeaseInit
  BY DEF Init, Lease!LeaseInit, LeaseStatus, Lease!Shards, Shards
<1>2. QueueInv /\ [Next]_vars => [Lease!LeaseNext]_(Lease!leaseVars)
  BY LeaseStep
<1> QED BY <1>1, <1>2, QueueInvariant, PTL DEF Spec, ImplementsLease, Lease!LeaseSpec

-----------------------------------------------------------------------------
(* The lane gate.  The load a claim request read (running_by_backend) is    *)
(* stale when it claims, but a request that was admitted claims at most one *)
(* shard: the running Mac shards of a tenant and the requests admitted for  *)
(* them together stay below the cap plus the number of workers.             *)

MacJobs(t) == {j \in Jobs : TenantOf[j] = t /\ tier(BackendOf[j]) = "Mac"}
AdmittedFor(t) == {w \in Workers : req[w].cands \cap MacJobs(t) # {}}

\* What a request found is of the tenant it visits.
FoundAtTenant ==
    \A w \in Workers : \A j \in req[w].found : req[w].at = {TenantOf[j]}

\* Admissions are paid for.
LaneBudget(t) ==
    /\ IsFiniteSet(RunningIn(t, "Mac"))
    /\ Cardinality(RunningIn(t, "Mac")) + Cardinality(AdmittedFor(t))
         < LaneCap + Cardinality(Workers)

\* The inductive invariant of the lane gate.
LaneInv ==
    /\ TypeOK
    /\ FoundAtTenant
    /\ \A t \in Tenants : LaneBudget(t)

\* A part of a finite set is finite and no larger.
LEMMA SmallerSet ==
    ASSUME NEW S, NEW T, IsFiniteSet(S), T \subseteq S
    PROVE  /\ IsFiniteSet(T)
           /\ Cardinality(T) \in Nat /\ Cardinality(S) \in Nat
           /\ Cardinality(T) <= Cardinality(S)
<1>1. IsFiniteSet(T) /\ Cardinality(T) <= Cardinality(S)
  BY FS_Subset
<1> QED BY <1>1, FS_CardinalityType

\* A step that starts no Mac shard of a tenant and admits nobody for one keeps
\* the tenant's budget.
LEMMA BudgetKept ==
    ASSUME NEW t, IsFiniteSet(Workers), LaneBudget(t),
           RunningIn(t, "Mac")' \subseteq RunningIn(t, "Mac"),
           AdmittedFor(t)' \subseteq AdmittedFor(t)
    PROVE  LaneBudget(t)'
<1> DEFINE R == RunningIn(t, "Mac")
           A == AdmittedFor(t)
<1>1. IsFiniteSet(A) /\ Cardinality(A) \in Nat /\ Cardinality(Workers) \in Nat
  BY SmallerSet DEF AdmittedFor
<1>2. /\ IsFiniteSet(R') /\ Cardinality(R') <= Cardinality(R)
      /\ Cardinality(R') \in Nat /\ Cardinality(R) \in Nat
  BY SmallerSet DEF LaneBudget
<1>3. Cardinality(A') <= Cardinality(A) /\ Cardinality(A') \in Nat
  BY <1>1, SmallerSet
<1>4. Cardinality(R) + Cardinality(A) < LaneCap + Cardinality(Workers)
  BY DEF LaneBudget
<1> HIDE DEF R, A
<1>5. Cardinality(R') + Cardinality(A') < LaneCap + Cardinality(Workers)
  BY <1>1, <1>2, <1>3, <1>4, QueueAssumption DEF QueueAssumption
<1> QED BY <1>2, <1>5 DEF LaneBudget, R, A

\* A step that starts no shard and gives no request a new candidate keeps every
\* budget.
LEMMA LaneKept ==
    ASSUME IsFiniteSet(Workers), LaneInv,
           \A s \in Shards : state'[s] = "running" => state[s] = "running",
           \A w \in Workers : req'[w].cands \subseteq req[w].cands
    PROVE  \A t \in Tenants : LaneBudget(t)'
<1> TAKE t \in Tenants
<1>1. RunningIn(t, "Mac")' \subseteq RunningIn(t, "Mac")
  BY DEF RunningIn
<1>2. AdmittedFor(t)' \subseteq AdmittedFor(t)
  BY DEF AdmittedFor, MacJobs
<1> QED BY <1>1, <1>2, BudgetKept DEF LaneInv

\* claim_shard pays for the shard it starts with its own admission.
LEMMA LaneClaim ==
    ASSUME IsFiniteSet(Workers), LaneInv,
           NEW w \in Workers, NEW s \in Shards, claim_shard(w, s), NEW t \in Tenants
    PROVE  LaneBudget(t)'
<1> DEFINE R == RunningIn(t, "Mac")
           A == AdmittedFor(t)
<1>0. /\ state' = [state EXCEPT ![s] = "running"] /\ state[s] = "pending"
      /\ req' = [req EXCEPT ![w] = IdleReq] /\ s[1] \in req[w].cands
      /\ state \in [Shards -> {"absent", "pending", "running"} \cup Terminal]
      /\ req \in [Workers -> ReqType]
  BY DEF claim_shard, LaneInv, TypeOK
<1>1. A' = A \ {w}
  <2>1. req'[w].cands = {} /\ \A v \in Workers \ {w} : req'[v] = req[v]
    BY <1>0 DEF IdleReq
  <2> QED BY <2>1 DEF AdmittedFor
<1>2. CASE s[1] \in MacJobs(t)
  <2>1. w \in A
    BY <1>0, <1>2 DEF AdmittedFor
  <2>2. R' = R \cup {s} /\ s \notin R
    BY <1>0, <1>2 DEF RunningIn, MacJobs
  <2>3. IsFiniteSet(A) /\ Cardinality(A) \in Nat /\ IsFiniteSet(R) /\ Cardinality(R) \in Nat
    BY SmallerSet DEF AdmittedFor, LaneBudget, LaneInv
  <2>4. Cardinality(A') = Cardinality(A) - 1
    BY <1>1, <2>1, <2>3, FS_RemoveElement
  <2>5. IsFiniteSet(R') /\ Cardinality(R') = Cardinality(R) + 1
    BY <2>2, <2>3, FS_AddElement
  <2>6. Cardinality(R) + Cardinality(A) < LaneCap + Cardinality(Workers)
    BY DEF LaneBudget, LaneInv
  <2> HIDE DEF R, A
  <2>7. Cardinality(R') + Cardinality(A') = Cardinality(R) + Cardinality(A)
    BY <2>3, <2>4, <2>5
  <2>8. Cardinality(R') + Cardinality(A') < LaneCap + Cardinality(Workers)
    BY <2>6, <2>7
  <2> QED BY <2>5, <2>8 DEF LaneBudget, R, A
<1>3. CASE s[1] \notin MacJobs(t)
  <2>1. R' \subseteq R
    BY <1>0, <1>3 DEF RunningIn, MacJobs, Shards
  <2> QED BY <1>1, <2>1, BudgetKept DEF LaneInv
<1> QED BY <1>2, <1>3

\* running_by_backend admits a request for a tenant only below the cap, when
\* there is room for one shard of every worker.
LEMMA LaneAdmission ==
    ASSUME IsFiniteSet(Workers), "load" \notin Faults, LaneInv,
           NEW w \in Workers, running_by_backend(w), NEW t \in Tenants
    PROVE  LaneBudget(t)'
<1> DEFINE R == RunningIn(t, "Mac")
           A == AdmittedFor(t)
<1>0. /\ R' = R
      /\ req \in [Workers -> ReqType]
      /\ req' = [req EXCEPT ![w] =
                   [pc |-> "visit", todo |-> req[w].todo, at |-> req[w].at,
                    found |-> {}, cands |-> req[w].cands \cup Admitted(w, FALSE)]]
  BY DEF running_by_backend, RunningIn, shardVars, LaneInv, TypeOK
<1>1. /\ req'[w].cands = req[w].cands \cup Admitted(w, FALSE)
      /\ \A v \in Workers \ {w} : req'[v] = req[v]
  BY <1>0
<1>2. CASE Admitted(w, FALSE) \cap MacJobs(t) = {}
  <2>1. A' \subseteq A
    BY <1>1, <1>2 DEF AdmittedFor, MacJobs
  <2> QED BY <1>0, <2>1, BudgetKept DEF LaneInv
<1>3. CASE Admitted(w, FALSE) \cap MacJobs(t) # {}
  <2> PICK j \in Admitted(w, FALSE) : j \in MacJobs(t)
    BY <1>3
  <2>1. j \in req[w].found /\ req[w].at = {t} /\ tier(BackendOf[j]) = "Mac"
    BY DEF Admitted, MacJobs, LaneInv, FoundAtTenant
  <2>2. may_claim(j, Cardinality(RunningIn(t, tier(BackendOf[j]))))
    BY <2>1 DEF Admitted
  <2>3. Cardinality(R) < LaneCap
    BY <2>1, <2>2 DEF may_claim
  <2>4. IsFiniteSet(R) /\ Cardinality(R) \in Nat
    BY FS_CardinalityType DEF LaneBudget, LaneInv
  <2>5. Cardinality(A') \in Nat /\ Cardinality(A') <= Cardinality(Workers)
        /\ Cardinality(Workers) \in Nat
    BY SmallerSet DEF AdmittedFor
  <2> HIDE DEF R, A
  <2>6. Cardinality(R) + Cardinality(A') < LaneCap + Cardinality(Workers)
    BY <2>3, <2>4, <2>5, QueueAssumption DEF QueueAssumption
  <2> QED BY <1>0, <2>4, <2>6 DEF LaneBudget, R, A
<1> QED BY <1>2, <1>3

\* A request that has just read the hint (tenants_with_pending) has found nothing
\* and has no candidates.
LEMMA FreshReq == Reading(hint).found = {} /\ Reading(hint).cands = {}
BY DEF Reading

\* What a request found stays of the tenant it visits.
LEMMA FoundStep == TypeOK /\ FoundAtTenant /\ [Next]_vars => FoundAtTenant'
<1> SUFFICES ASSUME TypeOK, FoundAtTenant, [Next]_vars
             PROVE  FoundAtTenant'
  OBVIOUS
<1>0. req \in [Workers -> ReqType]
  BY DEF TypeOK
<1>1. ASSUME UNCHANGED req PROVE FoundAtTenant'
  BY <1>1 DEF FoundAtTenant
<1>2. ASSUME NEW w \in Workers, \A v \in Workers \ {w} : req'[v] = req[v],
             \A j \in req'[w].found : req'[w].at = {TenantOf[j]}
      PROVE  FoundAtTenant'
  BY <1>2 DEF FoundAtTenant
<1>3. ASSUME NEW w \in Workers, ClaimStep(w) PROVE FoundAtTenant'
  <2>1. CASE tenants_with_pending(w) \/ claim_nothing(w) \/ \E s \in Shards : claim_shard(w, s)
    <3>1. req'[w].found = {} /\ \A v \in Workers \ {w} : req'[v] = req[v]
      BY <1>0, <2>1, FreshReq DEF tenants_with_pending, claim_nothing, claim_shard, IdleReq
    <3> QED BY <1>2, <3>1
  <2>2. CASE running_by_backend(w)
    <3>1. req'[w].found = {} /\ \A v \in Workers \ {w} : req'[v] = req[v]
      BY <1>0, <2>2 DEF running_by_backend
    <3> QED BY <1>2, <3>1
  <2>3. ASSUME NEW t \in Tenants, pending_jobs(w, t) PROVE FoundAtTenant'
    <3>1. /\ req'[w].found = JobsFor(w, t) /\ req'[w].at = {t}
          /\ \A v \in Workers \ {w} : req'[v] = req[v]
      BY <1>0, <2>3 DEF pending_jobs
    <3> QED BY <1>2, <3>1 DEF JobsFor
  <2>4. CASE pending_shard_count(w) \/ clear_tenant_pending(w)
    BY <1>0, <2>4 DEF pending_shard_count, clear_tenant_pending, FoundAtTenant, ReqType
  <2>5. ASSUME NEW j \in Jobs, claim_missed(w, j) PROVE FoundAtTenant'
    BY <1>0, <2>5 DEF claim_missed, FoundAtTenant, ReqType
  <2> QED BY <1>3, <2>1, <2>2, <2>3, <2>4, <2>5 DEF ClaimStep
<1>4. ASSUME NEW w \in Workers, claim_request_lost(w) PROVE FoundAtTenant'
  <2>1. req'[w].found = {} /\ \A v \in Workers \ {w} : req'[v] = req[v]
    BY <1>0, <1>4 DEF claim_request_lost, IdleReq
  <2> QED BY <1>2, <2>1
<1>5. ASSUME NEW w \in Workers, NEW t \in Tenants, skip_tenant(w, t) PROVE FoundAtTenant'
  BY <1>0, <1>5 DEF skip_tenant, FoundAtTenant, ReqType
<1>6. CASE UNCHANGED req
  BY <1>1, <1>6
<1> QED
  BY <1>3, <1>4, <1>5, <1>6
  DEF Next, vars, RunStep, insert_job, mark_tenant_pending, run_embedded_shard,
      post_result, touch_shard, worker_lost, run_panics, heartbeat_ends, result, post_lost, job_incomplete,
      finalize_job, finalize_lost, heartbeat_ages, requeue_stranded, mark_requeued

\* Every step keeps the inductive invariant of the lane gate.
LEMMA LaneStep ==
    ASSUME IsFiniteSet(Workers), "load" \notin Faults
    PROVE  LaneInv /\ [Next]_vars => LaneInv'
<1> SUFFICES ASSUME LaneInv, [Next]_vars PROVE \A t \in Tenants : LaneBudget(t)'
  BY TypeStep, FoundStep DEF LaneInv
<1>0. /\ req \in [Workers -> ReqType]
      /\ state \in [Shards -> {"absent", "pending", "running"} \cup Terminal]
  BY DEF LaneInv, TypeOK
<1> DEFINE NoneStarted == \A s \in Shards : state'[s] = "running" => state[s] = "running"
           NoneAdmitted == \A v \in Workers : req'[v].cands \subseteq req[v].cands
<1>1. ASSUME NEW w \in Workers, ClaimStep(w) PROVE \A t \in Tenants : LaneBudget(t)'
  <2>1. CASE running_by_backend(w)
    BY <2>1, LaneAdmission
  <2>2. ASSUME NEW s \in Shards, claim_shard(w, s) PROVE \A t \in Tenants : LaneBudget(t)'
    BY <2>2, LaneClaim
  <2>3. CASE tenants_with_pending(w) \/ claim_nothing(w)
    <3>1. req'[w].cands = {} /\ \A v \in Workers \ {w} : req'[v] = req[v]
      BY <1>0, <2>3, FreshReq DEF tenants_with_pending, claim_nothing, IdleReq
    <3>2. NoneStarted /\ NoneAdmitted
      BY <2>3, <3>1 DEF tenants_with_pending, claim_nothing, shardVars
    <3> QED BY <3>2, LaneKept
  <2>4. CASE pending_shard_count(w) \/ clear_tenant_pending(w)
    <3>1. NoneStarted /\ NoneAdmitted
      BY <1>0, <2>4 DEF pending_shard_count, clear_tenant_pending, shardVars, ReqType
    <3> QED BY <3>1, LaneKept
  <2>5. ASSUME NEW t \in Tenants, pending_jobs(w, t)
        PROVE  \A u \in Tenants : LaneBudget(u)'
    <3>1. NoneStarted /\ NoneAdmitted
      BY <1>0, <2>5 DEF pending_jobs, shardVars, ReqType
    <3> QED BY <3>1, LaneKept
  <2>6. ASSUME NEW j \in Jobs, claim_missed(w, j) PROVE \A t \in Tenants : LaneBudget(t)'
    <3>1. NoneStarted /\ NoneAdmitted
      BY <1>0, <2>6 DEF claim_missed, shardVars, ReqType
    <3> QED BY <3>1, LaneKept
  <2> QED BY <1>1, <2>1, <2>2, <2>3, <2>4, <2>5, <2>6 DEF ClaimStep
<1>2. ASSUME NEW w \in Workers, claim_request_lost(w)
      PROVE  \A t \in Tenants : LaneBudget(t)'
  <2>1. req'[w].cands = {} /\ \A v \in Workers \ {w} : req'[v] = req[v]
    BY <1>0, <1>2 DEF claim_request_lost, IdleReq
  <2>2. NoneStarted /\ NoneAdmitted
    BY <1>2, <2>1 DEF claim_request_lost, shardVars
  <2> QED BY <2>2, LaneKept
<1>3. ASSUME NEW w \in Workers, NEW t \in Tenants, skip_tenant(w, t)
      PROVE  \A u \in Tenants : LaneBudget(u)'
  <2>1. NoneStarted /\ NoneAdmitted
    BY <1>0, <1>3 DEF skip_tenant, shardVars, ReqType
  <2> QED BY <2>1, LaneKept
<1>4. ASSUME UNCHANGED req, NoneStarted PROVE \A t \in Tenants : LaneBudget(t)'
  BY <1>4, LaneKept
<1>5. ASSUME NEW c \in running \cup posts, NEW o \in Outcomes, set_shard(c, o) PROVE NoneStarted
  <2>1. map_status[o] # "running"
    BY OutcomeIsTerminal DEF Terminal
  <2> QED BY <1>0, <1>5, <2>1 DEF set_shard
<1>6. ASSUME NEW c \in running, RunStep(c) PROVE \A t \in Tenants : LaneBudget(t)'
  BY <1>4, <1>5, <1>6 DEF RunStep, run_embedded_shard, post_result, shardVars
<1>7. ASSUME NEW m \in posts, result(m) PROVE \A t \in Tenants : LaneBudget(t)'
  <2>1. m.outcome \in Outcomes
    BY DEF LaneInv, TypeOK, Post
  <2> QED BY <1>4, <1>5, <1>7, <2>1 DEF result
<1>8. CASE /\ UNCHANGED req
           /\ \/ UNCHANGED state
              \/ \E j \in Jobs : insert_job(j)
              \/ \E t \in Tenants : requeue_stranded(t)
  BY <1>0, <1>4, <1>8 DEF insert_job, requeue_stranded
<1> QED
  BY <1>1, <1>2, <1>3, <1>6, <1>7, <1>8
  DEF Next, vars, shardVars, insert_job, mark_tenant_pending, touch_shard, worker_lost,
      run_panics, heartbeat_ends,
      post_lost, job_incomplete, finalize_job, finalize_lost, heartbeat_ages,
      requeue_stranded, mark_requeued

\* The lane gate's bound, whatever the interleaving of claims: when the load can
\* be read, a tenant runs fewer Mac shards than the cap plus the number of
\* workers (may_claim, running_by_backend, claim_shard).
THEOREM LaneIsBounded ==
    ASSUME IsFiniteSet(Workers), "load" \notin Faults
    PROVE  Spec => []LaneCapSlack
<1>1. Init => LaneInv
  <2> SUFFICES ASSUME Init PROVE LaneInv
    OBVIOUS
  <2>1. TypeOK /\ FoundAtTenant
    BY InvInit DEF QueueInv, Init, FoundAtTenant, IdleReq
  <2>2. ASSUME NEW t \in Tenants PROVE LaneBudget(t)
    <3>1. RunningIn(t, "Mac") = {} /\ AdmittedFor(t) = {}
      BY DEF Init, RunningIn, AdmittedFor, IdleReq
    <3>2. Cardinality(Workers) \in Nat
      BY FS_CardinalityType
    <3>3. LaneCap \in Nat \ {0}
      BY QueueAssumption DEF QueueAssumption
    <3> QED BY <3>1, <3>2, <3>3, FS_EmptySet DEF LaneBudget
  <2> QED BY <2>1, <2>2 DEF LaneInv
<1>2. LaneInv => LaneCapSlack
  <2> SUFFICES ASSUME LaneInv, NEW t \in Tenants
               PROVE  Cardinality(RunningIn(t, "Mac")) < LaneCap + Cardinality(Workers)
    BY DEF LaneCapSlack
  <2>1. Cardinality(RunningIn(t, "Mac")) + Cardinality(AdmittedFor(t))
          < LaneCap + Cardinality(Workers)
    BY DEF LaneInv, LaneBudget
  <2>2. /\ Cardinality(RunningIn(t, "Mac")) \in Nat
        /\ Cardinality(AdmittedFor(t)) \in Nat /\ Cardinality(Workers) \in Nat
    BY SmallerSet, FS_CardinalityType DEF LaneInv, LaneBudget, AdmittedFor
  <2>3. LaneCap \in Nat
    BY QueueAssumption DEF QueueAssumption
  <2> QED BY <2>1, <2>2, <2>3
<1> QED BY <1>1, <1>2, LaneStep, PTL DEF Spec
=============================================================================
