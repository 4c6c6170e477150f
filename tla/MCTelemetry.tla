---------------------------- MODULE MCTelemetry -----------------------------
(* Instances of Telemetry for TLC. *)
EXTENDS Telemetry

ctx(build, sample) ==
    [commit |-> build, version |-> NoBuild, locale |-> "tr", sample |-> sample]
finding(b, c) == [kind |-> "finding", identity |-> b, ctx |-> c]
edge == [kind |-> "edge"]
other == [kind |-> "observation"]

\* Bucket 1 is a bug on the old build that recurs on the build that claims to
\* fix it; bucket 2 is sample data.  "stray" reports a build in its contexts
\* and none as its deployment.
MCFrames ==
    ("crash" :> <<edge, finding(1, ctx("old", FALSE))>>) @@
    ("recur" :> <<finding(1, ctx("new", FALSE)), finding(2, ctx("new", TRUE))>>) @@
    ("clean" :> <<edge, edge>>) @@
    ("stray" :> <<finding(2, [ctx("new", TRUE) EXCEPT !.version = "old"])>>) @@
    ("empty" :> <<other>>)
MCDeployment ==
    ("crash" :> "old") @@ ("recur" :> "new") @@ ("clean" :> "new") @@
    ("stray" :> NoBuild) @@ ("empty" :> "new")
MCGraphs ==
    [b \in DOMAIN MCFrames |->
        IF b = "clean" THEN {[run |-> "run", root |-> "n2", nodes |-> {"n1", "n2"}]} ELSE {}]
\* The retried batch is the one that recurs.
MCSends == [b \in DOMAIN MCFrames |-> IF b = "recur" THEN 2 ELSE 1]
legacy(b) == [identity |-> b, bucket_id |-> NoBucket, ctx |-> ctx("old", FALSE), at |-> 0]
TwoLegacy == <<legacy(1), legacy(1)>>
NoLegacy == <<>>
MCSeverity == <<30, 100>>
MCFixed == <<"new", NoBuild>>

\* An interrupted migration is followed to its end and no further: nothing is
\* claimed of the read models after it.
NotCut == ~(cut /\ migration = "done")
=============================================================================
