------------------------------ MODULE Telemetry ------------------------------
(***************************************************************************)
(* Event ingest and the read models it keeps (ingest/mod.rs,               *)
(* db/tenant/telemetry.rs, db/schema.rs): the idempotent batch             *)
(* transaction, the delete trigger that maintains the rollups, retention,  *)
(* the deletion of sample data, the schema migration with its backfill,    *)
(* and the dashboard reads computed from the rollups.                      *)
(*                                                                         *)
(* One app.  A count table is a total function, 0 standing for no row.     *)
(* Requests and passes start when the migration is done: a server that     *)
(* still writes while another process migrates is not modelled.            *)
(***************************************************************************)
EXTENDS Resolution, Sorting, SequencesExt

CONSTANTS
    Buckets,          \* bucket ids, numbers because the list breaks ties on them
    Builds, Locales,
    Batches,          \* batch ids the SDK sends
    frames,           \* the event frames of a batch, a sequence
    deployment,       \* its deployment key, or NoBuild
    graphs,           \* its evidence graphs: sets of [run, root, nodes]
    Legacy,           \* contexts of rows older than the read models, a sequence
    severity,         \* weight of a bucket's severity class, percent
    fixed_in_build,   \* the claimed fix of a bucket, NoBuild if there is none
    Triaged,          \* buckets that have a triage row
    Pending,          \* tester captures nobody has reproduced
    NoRow,
    Hour, Day,        \* ticks in an hour, and in 24 hours
    Retention,        \* ticks an error is kept
    RetryHorizon,     \* ticks a batch id is remembered (48 h)
    K_ANON,
    MaxTime,          \* bounds: the clock,
    MaxSends,         \* the requests made of each batch,
    MaxInflight       \* and the transactions open at a time



VARIABLES
    migration,        \* tenant_schema_migrations: "todo", "backfill" or "done"
    errors, next_id,  \* the rows of errors by id, and the next serial
    processed,        \* processed_batches: records [batch, at]
    build_traffic,    \* rows [build, count, at] with at = first_seen
    edges,            \* sum of the edge counts
    artifact_nodes, artifact_roots,
    outbox,           \* buckets with a file-issue row
    models,           \* the four read models
    inflight,         \* open transactions: [batch, at], at = now() of the BEGIN
    sent,             \* requests made per batch
    clearing,         \* ids a sample deletion has read: [bucket, ids], or NoRow
    project,          \* the project row exists
    now,
    landed,           \* history: when a batch's last effective transaction began
    cut               \* history: a migration was interrupted in its backfill

vars == <<migration, errors, next_id, processed, build_traffic, edges, artifact_nodes,
          artifact_roots, outbox, models, inflight, sent, clearing, project,
          now, landed, cut>>

Contexts == [commit : Builds \cup {NoBuild}, version : Builds \cup {NoBuild},
             locale : Locales, sample : BOOLEAN]
NoBucket == 0
Hours == 0 .. (MaxTime \div Hour)
hour(at) == at \div Hour

\* The build coordinate of an occurrence: the commit, else the version.
build_version(ctx) == IF ctx.commit # NoBuild THEN ctx.commit ELSE ctx.version

\* The cohort dimensions of a context.  Here the build is its version first.
dimension_values(ctx) ==
    {<<"locale", ctx.locale>>} \cup
    {<<"build", v>> : v \in
        (IF ctx.version # NoBuild THEN {ctx.version} ELSE {ctx.commit}) \ {NoBuild}}

Dimensions == {<<"locale", l>> : l \in Locales} \cup {<<"build", b>> : b \in Builds}

\* One bucket per structural identity: the hash is injective here.
bucket_id(e) == e.identity

\* The frames of a batch that persist: edges are counted, findings kept.
aggregate_events(b) ==
    [edges |-> Len(SelectSeq(frames[b], LAMBDA f : f.kind = "edge")),
     errors |-> SelectSeq(frames[b], LAMBDA f : f.kind = "finding")]

Findings == [kind : {"finding"}, identity : Buckets, ctx : Contexts]

\* A row older than the read models has no bucket yet.
LegacyRows == [identity : Buckets, bucket_id : {NoBucket}, ctx : Contexts, at : 0 .. MaxTime]

Summaries == [count : Nat, first : Nat, last : Nat, first_seen : Nat, last_seen : Nat]

\* The weights of crash, leak, operability, unclassified and jank, percent.
Severities == {100, 80, 55, 50, 30}

ASSUME TelemetryAssumption ==
    /\ RetryHorizon \in Nat /\ Hour \in Nat \ {0} /\ Day \in Nat \ {0} /\ MaxTime \in Nat
    /\ Buckets \subseteq Nat \ {NoBucket} /\ NoRow \notin Summaries
    /\ IsFiniteSet(Buckets) /\ IsFiniteSet(Builds) /\ severity \in [Buckets -> Severities]
    /\ Legacy \in Seq(LegacyRows)
    /\ \A b \in Batches : aggregate_events(b).errors \in Seq(Findings)

-----------------------------------------------------------------------------
(* What the read models hold: the aggregate of a set of error rows. *)

Count(S) == Cardinality(S)

summary_of(tbl, ids) ==
    IF ids = {} THEN NoRow
    ELSE [count |-> Count(ids), first |-> Min(ids), last |-> Max(ids),
          first_seen |-> Min({tbl[i].at : i \in ids}),
          last_seen |-> Max({tbl[i].at : i \in ids})]

In(tbl, b) == {i \in DOMAIN tbl : tbl[i].bucket_id = b}

\* The hourly windows, window[i] being the build a row counts for.
windows_of(tbl, window) ==
    [k \in Buckets \X Hours \X (Builds \cup {NoBuild}) |->
        Count({i \in In(tbl, k[1]) : hour(tbl[i].at) = k[2] /\ window[i] = k[3]})]

\* The aggregate of a table of errors: the backfill statements of the schema,
\* and the upserts of one batch.
aggregate(tbl, window) ==
    [bucket_summaries |-> [b \in Buckets |-> summary_of(tbl, In(tbl, b))],
     bucket_windows |-> windows_of(tbl, window),
     app_context_counts |-> [d \in Dimensions |->
        Count({i \in DOMAIN tbl : d \in dimension_values(tbl[i].ctx)})],
     bucket_context_counts |-> [k \in Buckets \X Dimensions |->
        Count({i \in In(tbl, k[1]) : k[2] \in dimension_values(tbl[i].ctx)})]]

\* The backfill counts a row for the build its context names.
BuildOf(tbl) == [i \in DOMAIN tbl |-> build_version(tbl[i].ctx)]
Built(tbl) == aggregate(tbl, BuildOf(tbl))

Empty == Built(<<>>)

\* Mutant: the id ends of an existing summary are overwritten, not widened.
upsert_summary_Overwrite(s, t) ==
    IF s = NoRow THEN t
    ELSE IF t = NoRow THEN s
    ELSE [t EXCEPT !.count = @ + s.count]

\* ON CONFLICT DO UPDATE of a summary: counts add up, the ends widen.
upsert_summary(s, t) ==
    IF s = NoRow THEN t
    ELSE IF t = NoRow THEN s
    ELSE [count |-> s.count + t.count,
          first |-> Min({s.first, t.first}), last |-> Max({s.last, t.last}),
          first_seen |-> Min({s.first_seen, t.first_seen}),
          last_seen |-> Max({s.last_seen, t.last_seen})]

Add(f, g) == [k \in DOMAIN f |-> f[k] + g[k]]

upsert(m, n) ==
    [bucket_summaries |-> [b \in Buckets |->
        upsert_summary(m.bucket_summaries[b], n.bucket_summaries[b])],
     bucket_windows |-> Add(m.bucket_windows, n.bucket_windows),
     app_context_counts |-> Add(m.app_context_counts, n.app_context_counts),
     bucket_context_counts |-> Add(m.bucket_context_counts, n.bucket_context_counts)]

\* ON CONFLICT DO NOTHING: a row that exists keeps its value.
Keep(f, g) == [k \in DOMAIN f |-> IF f[k] = 0 THEN g[k] ELSE f[k]]

insert_missing(m, n) ==
    [bucket_summaries |-> [b \in Buckets |->
        IF m.bucket_summaries[b] = NoRow THEN n.bucket_summaries[b]
                                         ELSE m.bucket_summaries[b]],
     bucket_windows |-> Keep(m.bucket_windows, n.bucket_windows),
     app_context_counts |-> Keep(m.app_context_counts, n.app_context_counts),
     bucket_context_counts |-> Keep(m.bucket_context_counts, n.bucket_context_counts)]

-----------------------------------------------------------------------------
(* The trigger remove_error_from_read_models: AFTER DELETE FOR EACH ROW, so *)
(* it runs once per deleted row and sees none of the deleted rows.          *)

Less(f, keys) == [k \in DOMAIN f |-> IF k \in keys /\ f[k] > 0 THEN f[k] - 1 ELSE f[k]]

\* The summary after one row is gone, left being the ids that remain.
less_summary(s, id, left) ==
    IF s = NoRow \/ s.count <= 1 THEN NoRow
    ELSE IF id \in {s.first, s.last} /\ left # {}
         THEN [summary_of(errors, left) EXCEPT !.count = s.count - 1]
         ELSE [s EXCEPT !.count = @ - 1]

\* first_error_id and last_error_id are NOT NULL: an end recomputed over no
\* rows at all aborts the statement.
null_end(s, id, left) ==
    s # NoRow /\ s.count > 1 /\ id \in {s.first, s.last} /\ left = {}

\* Mutant: the window of a row is found by the hour of the deletion.
remove_error_from_read_models_Now(acc, id, ids) ==
    LET e == errors[id]
        b == e.bucket_id
        s == acc.m.bucket_summaries[b]
        left == In(errors, b) \ ids
    IN  [ok |-> acc.ok /\ ~null_end(s, id, left),
         m |-> [acc.m EXCEPT
                    !.bucket_summaries[b] = less_summary(s, id, left),
                    !.bucket_windows =
                        Less(@, {<<b, hour(now), build_version(e.ctx)>>}),
                    !.app_context_counts = Less(@, dimension_values(e.ctx)),
                    !.bucket_context_counts = Less(@, {b} \X dimension_values(e.ctx))]]

remove_error_from_read_models(acc, id, ids) ==
    LET e == errors[id]
        b == e.bucket_id
        s == acc.m.bucket_summaries[b]
        left == In(errors, b) \ ids
    IN  [ok |-> acc.ok /\ ~null_end(s, id, left),
         m |-> [bucket_summaries |->
                    [acc.m.bucket_summaries EXCEPT ![b] = less_summary(s, id, left)],
                bucket_windows |->
                    Less(acc.m.bucket_windows, {<<b, hour(e.at), build_version(e.ctx)>>}),
                app_context_counts |->
                    Less(acc.m.app_context_counts, dimension_values(e.ctx)),
                bucket_context_counts |->
                    Less(acc.m.bucket_context_counts, {b} \X dimension_values(e.ctx))]]

\* A DELETE of the rows ids: its outcome, and the read models after it.
\* after[n] is where it stands once the rows up to n have had their turn.
deletion(ids) ==
    LET after[n \in Nat] ==
            IF n = 0 THEN [ok |-> TRUE, m |-> models]
            ELSE IF n \in ids THEN remove_error_from_read_models(after[n - 1], n, ids)
            ELSE after[n - 1]
    IN  after[next_id - 1]
-----------------------------------------------------------------------------
Init ==
    /\ migration = "todo"
    /\ errors = [i \in 1 .. Len(Legacy) |-> Legacy[i]]
    /\ next_id = Len(Legacy) + 1
    /\ processed = {} /\ build_traffic = {} /\ edges = 0
    /\ artifact_nodes = {} /\ artifact_roots = {} /\ outbox = {}
    /\ models = Empty
    /\ inflight = {} /\ sent = [b \in Batches |-> 0]
    /\ clearing = NoRow /\ project = TRUE /\ now = 0
    /\ landed = [b \in Batches |-> -1] /\ cut = FALSE

data == <<processed, edges, artifact_nodes, artifact_roots, outbox>>
requests == <<inflight, sent, clearing, project, now, landed>>

\* The schema script: tables, and the backfills that only add missing rows.
traffic_of(tbl) ==
    LET ids(b) == {i \in DOMAIN tbl : build_version(tbl[i].ctx) = b}
    IN  {[build |-> b, count |-> Count(ids(b)), at |-> Min({tbl[i].at : i \in ids(b)})] :
            b \in {build_version(tbl[i].ctx) : i \in DOMAIN tbl} \ {NoBuild}}

schema_script ==
    /\ models' = insert_missing(models, Built(errors))
    /\ build_traffic' = build_traffic \cup
            {r \in traffic_of(errors) : \A q \in build_traffic : q.build # r.build}

apply_first_pass ==
    /\ migration = "todo"
    /\ schema_script
    /\ migration' = "backfill"
    /\ UNCHANGED <<errors, next_id, cut, data, requests>>

Unbucketed == {i \in DOMAIN errors : errors[i].bucket_id = NoBucket}

\* One UPDATE of the loop in backfill_missing_bucket_ids.
backfill_missing_bucket_ids ==
    /\ migration = "backfill" /\ Unbucketed # {}
    /\ errors' = [errors EXCEPT ![Min(Unbucketed)].bucket_id = bucket_id(errors[Min(Unbucketed)])]
    /\ UNCHANGED <<migration, next_id, build_traffic, models, cut, data, requests>>

\* The process stops before the version is recorded; the next start retries.
apply_interrupted ==
    /\ migration = "backfill"
    /\ migration' = "todo"
    /\ cut' = (cut \/ Unbucketed \notin {{}, DOMAIN errors})
    /\ UNCHANGED <<errors, next_id, build_traffic, models, data, requests>>

apply_second_pass ==
    /\ migration = "backfill" /\ Unbucketed = {}
    /\ schema_script
    /\ migration' = "done"
    /\ UNCHANGED <<errors, next_id, cut, data, requests>>

-----------------------------------------------------------------------------
(* Ingest. *)

\* Nothing that ingest_batch would write: it returns before its transaction.
NothingToWrite(b) ==
    aggregate_events(b) = [edges |-> 0, errors |-> <<>>] /\ graphs[b] = {}

\* A request, first or repeated, is validated and its transaction begins.
post_events(b) ==
    /\ migration = "done" /\ project /\ sent[b] < MaxSends[b]
    /\ Cardinality(inflight) < MaxInflight
    /\ sent' = [sent EXCEPT ![b] = @ + 1]
    /\ inflight' = IF NothingToWrite(b) THEN inflight
                   ELSE inflight \cup {[batch |-> b, n |-> sent[b], at |-> now]}
    /\ UNCHANGED <<migration, errors, next_id, build_traffic, models, cut, data,
                   clearing, project, now, landed>>

Done(r) == inflight' = inflight \ {r}

\* The batch id was consumed before: everything is rolled back.
ingest_deduped(r) ==
    /\ \E p \in processed : p.batch = r.batch
    /\ Done(r)
    /\ UNCHANGED <<migration, errors, next_id, build_traffic, models, cut, data,
                   sent, clearing, project, now, landed>>

ingest_failed(r) ==
    /\ Done(r)
    /\ UNCHANGED <<migration, errors, next_id, build_traffic, models, cut, data,
                   sent, clearing, project, now, landed>>

count_traffic(r) ==
    LET b == deployment[r.batch]
        old == {q \in build_traffic : q.build = b}
    IN  IF b = NoBuild THEN build_traffic
        ELSE IF old = {} THEN build_traffic \cup {[build |-> b, count |-> 1, at |-> r.at]}
        ELSE (build_traffic \ old) \cup {[q EXCEPT !.count = @ + 1] : q \in old}

\* Content-addressed nodes and roots, inserted once.
store_graphs(gs) ==
    /\ artifact_nodes' = artifact_nodes \cup UNION {g.nodes : g \in gs}
    /\ artifact_roots' = artifact_roots \cup {<<g.run, g.root>> : g \in gs}

\* The transaction commits: every row of the batch, or none.
ingest_batch(r) ==
    LET agg == aggregate_events(r.batch)
        new == [i \in next_id .. next_id + Len(agg.errors) - 1 |->
                  LET f == agg.errors[i - next_id + 1]
                  IN  [identity |-> f.identity, bucket_id |-> bucket_id(f),
                       ctx |-> f.ctx, at |-> r.at]]
    IN  /\ \A p \in processed : p.batch # r.batch
        /\ processed' = processed \cup {[batch |-> r.batch, at |-> r.at]}
        /\ build_traffic' = count_traffic(r)
        /\ edges' = edges + agg.edges
        /\ errors' = [i \in DOMAIN errors \cup DOMAIN new |->
                        IF i \in DOMAIN errors THEN errors[i] ELSE new[i]]
        /\ next_id' = next_id + Len(agg.errors)
        /\ models' = upsert(models, aggregate(new, [i \in DOMAIN new |-> deployment[r.batch]]))
        /\ outbox' = outbox \cup {new[i].bucket_id : i \in DOMAIN new}
        /\ store_graphs(graphs[r.batch])
        /\ landed' = [landed EXCEPT ![r.batch] = r.at]
        /\ Done(r)
        /\ UNCHANGED <<migration, sent, clearing, project, now, cut>>
-----------------------------------------------------------------------------
(* Deletions, and the clock. *)

Expired == {i \in DOMAIN errors : errors[i].at < now - Retention}

\* The error rows of a retention pass, one statement: an abort deletes nothing
\* and is logged, so the pass ends where it began.
delete_expired_errors ==
    /\ migration = "done" /\ Expired # {}
    /\ LET d == deletion(Expired)
       IN  d.ok /\ models' = d.m
    /\ errors' = Restrict(errors, DOMAIN errors \ Expired)
    /\ UNCHANGED <<migration, next_id, build_traffic, cut, data, requests>>

\* Mutant: the retention of errors decides, not the retry horizon.
prune_processed_batches_Early ==
    /\ migration = "done" /\ \E p \in processed : p.at < now
    /\ processed' = {p \in processed : p.at >= now}
    /\ UNCHANGED <<migration, errors, next_id, build_traffic, edges, artifact_nodes,
                   artifact_roots, outbox, models, cut, requests>>

prune_processed_batches ==
    /\ migration = "done" /\ \E p \in processed : p.at < now - RetryHorizon
    /\ processed' = {p \in processed : p.at >= now - RetryHorizon}
    /\ UNCHANGED <<migration, errors, next_id, build_traffic, edges, artifact_nodes,
                   artifact_roots, outbox, models, cut, requests>>

\* The handler reads a bucket and goes on only if all of it is sample data.
delete_sample_bucket(b) ==
    /\ migration = "done" /\ project /\ clearing = NoRow /\ In(errors, b) # {}
    /\ \A i \in In(errors, b) : errors[i].ctx.sample
    /\ clearing' = [bucket |-> b, ids |-> In(errors, b)]
    /\ UNCHANGED <<migration, errors, next_id, build_traffic, models, cut, data,
                   inflight, sent, project, now, landed>>

\* A bucket without rows loses its own read models.
forget(m, b) ==
    [bucket_summaries |-> [m.bucket_summaries EXCEPT ![b] = NoRow],
     bucket_windows |-> [k \in DOMAIN m.bucket_windows |->
        IF k[1] = b THEN 0 ELSE m.bucket_windows[k]],
     app_context_counts |-> m.app_context_counts,
     bucket_context_counts |-> [k \in DOMAIN m.bucket_context_counts |->
        IF k[1] = b THEN 0 ELSE m.bucket_context_counts[k]]]

\* Its transaction: the rows that were read, and the derived rows of a bucket
\* that is empty then.  The trigger may abort it.
delete_sample_bucket_data ==
    /\ clearing # NoRow
    /\ LET ids == clearing.ids \cap DOMAIN errors
           d == deletion(ids)
       IN  IF ~d.ok THEN UNCHANGED <<errors, models>>
           ELSE /\ errors' = Restrict(errors, DOMAIN errors \ ids)
                /\ models' = IF In(errors', clearing.bucket) = {}
                             THEN forget(d.m, clearing.bucket) ELSE d.m
    /\ clearing' = NoRow
    /\ UNCHANGED <<migration, next_id, build_traffic, cut, data,
                   inflight, sent, project, now, landed>>

\* Read models first, then the errors: the trigger finds nothing to update.
delete_project_by_app ==
    /\ migration = "done" /\ project
    /\ project' = FALSE
    /\ errors' = <<>> /\ models' = Empty
    /\ processed' = {} /\ build_traffic' = {} /\ edges' = 0
    /\ artifact_nodes' = {} /\ artifact_roots' = {} /\ outbox' = {}
    /\ UNCHANGED <<migration, next_id, cut, inflight, sent, clearing, now, landed>>

tick ==
    /\ migration = "done" /\ now < MaxTime
    /\ now' = now + 1
    /\ UNCHANGED <<migration, errors, next_id, build_traffic, models, cut, data,
                   inflight, sent, clearing, project, landed>>

Next ==
    \/ apply_first_pass \/ backfill_missing_bucket_ids \/ apply_interrupted
    \/ apply_second_pass
    \/ \E b \in Batches : post_events(b)
    \/ \E r \in inflight : ingest_batch(r) \/ ingest_deduped(r) \/ ingest_failed(r)
    \/ delete_expired_errors \/ prune_processed_batches
    \/ \E b \in Buckets : delete_sample_bucket(b)
    \/ delete_sample_bucket_data \/ delete_project_by_app \/ tick

\* The hourly pass of the retention loop, and the clock.
Fairness == WF_vars(delete_expired_errors) /\ WF_vars(tick)

Spec == Init /\ [][Next]_vars
FairSpec == Spec /\ Fairness

-----------------------------------------------------------------------------
(* The dashboard reads. *)

\* bucket_rollups joins a summary with the rows at its two ends.
bucket_rollups ==
    {b \in Buckets : /\ models.bucket_summaries[b] # NoRow
                     /\ models.bucket_summaries[b].first \in DOMAIN errors
                     /\ models.bucket_summaries[b].last \in DOMAIN errors}

rollup_count(b) == models.bucket_summaries[b].count
baseline_n == MapThenSumSet(rollup_count, bucket_rollups)

\* What the counters say of a dimension, in the bucket and in the app.
context_count_maps(b, d) ==
    [cohort |-> models.bucket_context_counts[<<b, d>>], base |-> models.app_context_counts[d]]

\* Mutant: only the cohort is held to K_ANON, not the members of the value.
discriminators_from_counts_Cohort(b) ==
    LET n == rollup_count(b)
    IN  {d \in Dimensions :
            LET c == context_count_maps(b, d).cohort
                base == context_count_maps(b, d).base
            IN  /\ n >= K_ANON /\ c > 0
                /\ 2 * c >= n
                /\ 2 * c * Max({baseline_n, 1}) >= 3 * base * n}

\* Over-represented dimensions: at least half of the cohort, one and a half
\* times the baseline share, and held by K_ANON members.
discriminators_from_counts(b) ==
    LET n == rollup_count(b)
    IN  {d \in Dimensions :
            LET c == context_count_maps(b, d).cohort
                base == context_count_maps(b, d).base
            IN  /\ n >= K_ANON /\ c >= K_ANON
                /\ 2 * c >= n
                /\ 2 * c * Max({baseline_n, 1}) >= 3 * base * n}

\* The rows bucket_window_counts returns for a bucket.
WindowRows(b) == {k \in {b} \X Hours \X (Builds \cup {NoBuild}) : models.bucket_windows[k] > 0}
\* Mutant: the windows are read without their build.
bucket_window_counts_NoBuild(b) == {[at |-> k[2] * Hour, build |-> NoBuild] : k \in WindowRows(b)}
bucket_window_counts(b) == {[at |-> k[2] * Hour, build |-> k[3]] : k \in WindowRows(b)}

Sum(f, S) == MapThenSumSet(LAMBDA x : f[x], S)

\* The total series of timeline_weighted: the hits of each hour that has any.
timeline_total(b) ==
    [h \in {k[2] : k \in WindowRows(b)} |->
        Sum(models.bucket_windows, {k \in WindowRows(b) : k[2] = h})]

\* The factors of the impact score, in percent.

\* ln(1 + n) / ln(501), at most 1, in steps of five percent: the counts that
\* reach each step.
BlastSteps == <<1, 1, 2, 3, 4, 6, 8, 12, 16, 22, 30, 41, 56, 77, 105, 144, 197, 269, 367, 500>>
blast_factor(n) == 5 * Count({p \in DOMAIN BlastSteps : n >= BlastSteps[p]})

frequency_factor(hits) ==
    Min({100, 2 * Sum(hits, {h \in DOMAIN hits : h * Hour >= now - Day})})

\* The share of the newer half of the hours in the hits.
trend_factor(hits) ==
    LET hours == DOMAIN hits
        mid == Count(hours) \div 2
        half == {h \in hours : Count({g \in hours : g < h}) < mid}
        older == Sum(hits, half)
        newer == Sum(hits, hours \ half)
    IN  IF Count(hours) < 2 \/ older + newer = 0 THEN 50
        ELSE (100 * newer) \div (older + newer)

\* Half of it goes every 24 hours; whole half-lives only.
recency_factor(last_seen) ==
    LET halved == <<100, 50, 25, 12, 6, 3, 1>>
        gap == (now - last_seen) \div Day
    IN  IF now <= last_seen THEN 100
        ELSE IF gap < 7 THEN halved[gap + 1] ELSE 0

W_SEVERITY == 40
W_BLAST == 25
W_FREQUENCY == 15
W_TREND == 20
W_RECENCY == 15
BOOST_NEW == 12
\* Mutant: a regression weighs no more than a new bucket.
BOOST_REGRESSED_Small == 12
BOOST_REGRESSED == 120

\* The sort key, in hundredths.
impact_score(b, status) ==
    LET hits == timeline_total(b)
    IN  W_SEVERITY * severity[b]
        + W_BLAST * blast_factor(rollup_count(b))
        + W_FREQUENCY * frequency_factor(hits)
        + W_TREND * trend_factor(hits)
        + W_RECENCY * recency_factor(models.bucket_summaries[b].last_seen)
        + (IF b \notin Triaged THEN 100 * BOOST_NEW ELSE 0)
        + (IF status = "regressed" THEN 100 * BOOST_REGRESSED ELSE 0)

\* The list evaluates the fix on the hourly windows of the bucket.
list_status(b) ==
    LET f == fixed_in_build[b]
    IN  evaluate(bucket_window_counts(b), first_seen_by_build(build_traffic), f,
                 post_fix_build_traffic(build_traffic, f), now)

\* An item of the bucket list, and the order of the list: by impact, ties by
\* bucket id.
Item(b) == [bucket |-> b, status |-> list_status(b), score |-> impact_score(b, list_status(b)),
            discriminators |-> discriminators_from_counts(b)]

ListOrder(items) ==
    {w \in items \X items :
        \/ w[1].score > w[2].score
        \/ w[1].score = w[2].score /\ w[1].bucket < w[2].bucket}

\* The bucket list: the confirmed buckets.
bucket_list ==
    LET items == {Item(b) : b \in bucket_rollups \ Pending}
    IN  sort_by(items, ListOrder(items))

\* The detail view evaluates it on the occurrences themselves, and without
\* traffic rows on the errors of the app.
occurrence(i) == [id |-> i, at |-> errors[i].at, build |-> build_version(errors[i].ctx)]

compute_resolution(b) ==
    LET f == fixed_in_build[b]
        stream == {occurrence(i) : i \in DOMAIN errors}
        none == build_traffic = {}
    IN  evaluate({occurrence(i) : i \in In(errors, b)},
                 first_seen_by_build(IF none THEN stream ELSE build_traffic), f,
                 IF none THEN post_fix_traffic(stream, f)
                 ELSE post_fix_build_traffic(build_traffic, f), now)
-----------------------------------------------------------------------------
\* The migration is complete and was never interrupted in the backfill loop.
\* (A restart begins with a first pass that summarises the rows bucketed so far;
\* the second pass then finds summaries and will not correct them, so they count
\* too little for good.)
Migrated == migration = "done" /\ ~cut

\* Ids follow commit order and times follow the start of a transaction, so
\* the oldest row need not have the least id.  The trigger recomputes the two
\* times only with an end by id: until then they span more than the rows do.
SummaryExact(s, t) ==
    IF t = NoRow \/ s = NoRow THEN s = t
    ELSE /\ s.count = t.count /\ s.first = t.first /\ s.last = t.last
         /\ s.first_seen <= t.first_seen /\ t.last_seen <= s.last_seen

\* Summaries and context counts, maintained by increments and by the delete
\* trigger, are what a scan of the errors table would compute: after repeated
\* and failed batches, retention, sample deletion and a backfill.  Except after
\* a migration that was interrupted in its backfill loop.
ReadModelsExact ==
    Migrated =>
        LET scan == Built(errors)
        IN  /\ \A b \in Buckets :
                  SummaryExact(models.bucket_summaries[b], scan.bucket_summaries[b])
            /\ models.app_context_counts = scan.app_context_counts
            /\ models.bucket_context_counts = scan.bucket_context_counts

\* Every batch that landed names the build its findings name.
Coherent(b) ==
    LET fs == aggregate_events(b).errors
    IN  \A i \in DOMAIN fs : build_version(fs[i].ctx) = deployment[b]
CoherentData == \A b \in Batches : landed[b] # -1 => Coherent(b)

\* The hourly windows are exact as long as deployment and context agree.
\* Ingest counts a window under the first and the trigger takes it back
\* under the second, so they drift apart otherwise.
WindowsExact ==
    Migrated /\ CoherentData =>
        models.bucket_windows = windows_of(errors, BuildOf(errors))

\* A batch takes effect at most once within the time its id is remembered,
\* however often and however late its requests commit.  (The deletion of the
\* project forgets the ids, and a request admitted before it still lands.)
OncePerHorizon ==
    [][\A b \in Batches :
          /\ project
          /\ \E r \in inflight \ inflight' : r.batch = b /\ processed' # processed
          => landed[b] = -1 \/ now - landed[b] > RetryHorizon]_vars

\* Every dimension the list shows for a bucket is shared by K_ANON stored
\* occurrences of it, although it is computed from counters.
SurfacedAreGroups ==
    Migrated => \A b \in bucket_rollups : \A d \in discriminators_from_counts(b) :
        Count({i \in In(errors, b) : d \in dimension_values(errors[i].ctx)}) >= K_ANON

\* A regressed bucket precedes every other one on the list, whatever the
\* severity, volume and novelty of the others: the boost exceeds what a new
\* bucket can collect more.
RegressedFirst ==
    LET list == bucket_list
    IN  \A i, j \in DOMAIN list :
            i < j /\ list[j].status = "regressed" => list[i].status = "regressed"

\* List and detail view, one engine on two inputs, agree on the truth about a
\* fix, except that the list, which dates an occurrence by the start of its hour,
\* misses a recurrence in the hour in which the fix first appeared, and after an
\* interrupted backfill or batches that name two builds.
ListAgreesWithDetail ==
    Migrated /\ CoherentData => \A b \in bucket_rollups :
        \/ list_status(b) = compute_resolution(b)
        \/ /\ compute_resolution(b) = "regressed"
           /\ LET seen == first_seen_by_build(build_traffic)
              IN  \A o \in recurrences({occurrence(i) : i \in In(errors, b)},
                                       seen, fixed_in_build[b]) :
                     hour(o.at) = hour(seen[fixed_in_build[b]])

\* Retention: an error past the retention is gone after some later pass.
\* When every remaining error of a bucket with two or more expires in the
\* same pass, the trigger recomputes an end over no rows and aborts it.
ExpiredErrorsGo ==
    \A i \in 1 .. Len(Legacy) : (i \in Expired) ~> (i \notin DOMAIN errors)
=============================================================================
