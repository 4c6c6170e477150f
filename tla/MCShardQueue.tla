---------------------------- MODULE MCShardQueue ----------------------------
(* Small instances of ShardQueue for TLC. *)
EXTENDS ShardQueue, TLC

CONSTANTS t1, t2, j1, j2, e1, e2, r1, r2

\* One tenant whose jobs need a Mac, or one Mac job and one web job.
MCOneTenant == [j \in Jobs |-> t1]
MCTwoTenants == [j \in Jobs |-> IF j = j1 THEN t1 ELSE t2]
MCAllIos == [j \in Jobs |-> "ios"]
MCMixed == [j \in Jobs |-> IF j = j1 THEN "ios" ELSE "web"]
\* spawn_embedded gives every worker all the capabilities.
MCAllCaps == [w \in Workers |-> {"web", "android", "ios"}]
\* Every stable id is used by one worker; or two servers run an "embedded-0".
MCOwnIds == [w \in Workers |-> w]
MCServers == [w \in Workers |-> IF w = e2 THEN e1 ELSE w]
\* Losses: of every shard once, of the shards of one seed once, or none.
Lossy == CHOOSE d \in Seeds : TRUE
MCEachOnce == [d \in Seeds |-> 2]
MCOneOnce == [d \in Seeds |-> IF d = Lossy THEN 2 ELSE 1]
MCNever == [d \in Seeds |-> 1]
\* The other seeds of a job are interchangeable.
SeedSymmetry == Permutations(Seeds \ {Lossy})
=============================================================================
