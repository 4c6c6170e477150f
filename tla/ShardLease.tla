----------------------------- MODULE ShardLease -----------------------------
(***************************************************************************)
(* What the durable shard queue promises its callers, with no workers, no  *)
(* messages and no routing hint: every shard of a submitted job is leased  *)
(* to one holder at a time; a lease may expire and be handed out again     *)
(* under a higher epoch; a shard is completed once, by the holder of the   *)
(* current epoch, or by an earlier holder known under the same shared id;  *)
(* a job is finished only when all its shards are done.                    *)
(* ShardQueue implements it.                                               *)
(***************************************************************************)
EXTENDS Naturals

CONSTANTS
    Jobs, Seeds,
    Shared     \* the holder ids that more than one holder may present

VARIABLES
    status,    \* status[s]: "absent", "todo", "leased" or "done"
    epoch,     \* epoch[s]: how many leases of s were granted
    credited,  \* credited[s]: the epoch whose holder completed s, 0 before
    grants,    \* grants[s]: <<epoch, id>> for every lease of s that was granted
    finished   \* the jobs reported finished

Shards == Jobs \X Seeds
ShardsOf(j) == {j} \X Seeds

leaseVars == <<status, epoch, credited, grants, finished>>

LeaseInit ==
    /\ status = [s \in Shards |-> "absent"]
    /\ epoch = [s \in Shards |-> 0]
    /\ credited = [s \in Shards |-> 0]
    /\ grants = [s \in Shards |-> {}]
    /\ finished = {}

Enqueue(j) ==
    /\ \A s \in ShardsOf(j) : status[s] = "absent"
    /\ status' = [s \in Shards |-> IF s \in ShardsOf(j) THEN "todo" ELSE status[s]]
    /\ UNCHANGED <<epoch, credited, grants, finished>>

\* Under the next epoch, to whatever holder.
Lease(s) ==
    /\ status[s] = "todo"
    /\ status' = [status EXCEPT ![s] = "leased"]
    /\ epoch' = [epoch EXCEPT ![s] = @ + 1]
    /\ \E g \in grants'[s] : /\ g[1] = epoch[s] + 1
                             /\ grants' = [grants EXCEPT ![s] = @ \cup {g}]
    /\ UNCHANGED <<credited, finished>>

Expire(S) ==
    /\ \A s \in S : status[s] = "leased"
    /\ status' = [s \in Shards |-> IF s \in S THEN "todo" ELSE status[s]]
    /\ UNCHANGED <<epoch, credited, grants, finished>>

\* The holder of g completes s: g is the current lease, or was granted earlier
\* under the shared id that the current one is held under too.
Complete(s, g) ==
    /\ status[s] = "leased"
    /\ g \in grants[s] /\ <<epoch[s], g[2]>> \in grants[s]
    /\ g[1] = epoch[s] \/ g[2] \in Shared
    /\ status' = [status EXCEPT ![s] = "done"]
    /\ credited' = [credited EXCEPT ![s] = g[1]]
    /\ UNCHANGED <<epoch, grants, finished>>

Finish(j) ==
    /\ \A s \in ShardsOf(j) : status[s] = "done"
    /\ finished' = finished \cup {j}
    /\ UNCHANGED <<status, epoch, credited, grants>>

LeaseNext ==
    \/ \E j \in Jobs : Enqueue(j) \/ Finish(j)
    \/ \E s \in Shards : Lease(s) \/ \E g \in grants[s] : Complete(s, g)
    \/ \E S \in SUBSET Shards : Expire(S)

LeaseSpec == LeaseInit /\ [][LeaseNext]_leaseVars
=============================================================================
