---------------------------- MODULE MCScheduler -----------------------------
(* Three tenants: an iOS job of three shards, one of a single shard, and a *)
(* web campaign.                                                           *)
EXTENDS Scheduler

MCSpecOf ==
    [j \in Jobs |->
        CASE j = 1 -> [tenant |-> 7, backend |-> "ios", seeds |-> 3]
          [] j = 2 -> [tenant |-> 9, backend |-> "ios", seeds |-> 1]
          [] OTHER -> [tenant |-> 8, backend |-> "web", seeds |-> 5]]
=============================================================================
