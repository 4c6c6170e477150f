----------------------------- MODULE Resolution -----------------------------
(***************************************************************************)
(* The production-truth decision of triage/resolution.rs: what the stream  *)
(* of occurrences says about a claimed fix.  Pure operators; the clock and *)
(* the epochs are natural numbers, an occurrence is a record with fields   *)
(* at and build, NoBuild standing for an occurrence without a build tag.   *)
(***************************************************************************)
EXTENDS Integers, FiniteSetsExt

CONSTANTS NoBuild,            \* None, where the code has Option<build>
          ResolveQuiet,       \* Thresholds.resolve_quiet_secs
          MinPostFixTraffic   \* Thresholds.min_post_fix_traffic

ASSUME ThresholdsAssumption == ResolveQuiet \in Nat /\ MinPostFixTraffic \in Nat

Resolutions == {"active", "resolving", "resolved", "regressed"}

\* The earliest epoch of every build in a stream of occurrences.
first_seen_by_build(stream) ==
    [b \in {o.build : o \in stream} \ {NoBuild} |->
        Min({o.at : o \in {p \in stream : p.build = b}})]

\* A build is at or after the fix when it appeared no earlier than the fix did.
on_or_after(seen, fixed, b) ==
    \/ b = fixed
    \/ b \in DOMAIN seen /\ seen[b] >= seen[fixed]

\* Errors seen on builds at or after the fix: the denominator of tenants that
\* have no build_traffic rows.
post_fix_traffic(stream, fixed) ==
    LET seen == first_seen_by_build(stream)
    IN  IF fixed \notin DOMAIN seen THEN 0
        ELSE Cardinality({o \in stream : /\ o.build # NoBuild
                                         /\ on_or_after(seen, fixed, o.build)
                                         /\ o.at >= seen[fixed]})

\* Accepted batches on builds at or after the fix; a row carries its count.
post_fix_build_traffic(rows, fixed) ==
    LET seen == first_seen_by_build(rows)
    IN  IF fixed \notin DOMAIN seen THEN 0
        ELSE MapThenSumSet(LAMBDA r : r.count,
                {r \in rows : /\ on_or_after(seen, fixed, r.build)
                              /\ r.at >= seen[fixed]})

\* The bug's own occurrences on builds at or after the fix, dated after it.
recurrences(bug, seen, fixed) ==
    {o \in bug : /\ o.build # NoBuild
                 /\ on_or_after(seen, fixed, o.build)
                 /\ o.at >= seen[fixed]}

\* The verdict.  seen is the app-wide first_seen_by_build, traffic the
\* denominator.  A fix whose build nobody has run yet stays resolving.
evaluate(bug, seen, fixed, traffic, now) ==
    IF fixed = NoBuild THEN "active"
    ELSE IF fixed \notin DOMAIN seen THEN "resolving"
    ELSE IF recurrences(bug, seen, fixed) # {} THEN "regressed"
    ELSE IF now - seen[fixed] >= ResolveQuiet /\ traffic >= MinPostFixTraffic
         THEN "resolved"
         ELSE "resolving"
=============================================================================
