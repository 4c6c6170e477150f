-------------------------- MODULE TelemetryProofs ---------------------------
(***************************************************************************)
(* Proofs about Telemetry, for any batches, buckets and builds: a batch    *)
(* takes effect once within the time its id is remembered, however many of *)
(* its requests are open, fail, are repeated or commit late; the read      *)
(* models that upserts, the delete trigger and the backfill maintain are   *)
(* what a scan of the errors would compute; and what that means for the    *)
(* dimensions, the resolution and the order the bucket list shows.         *)
(***************************************************************************)
EXTENDS Telemetry, FiniteSetTheorems, NaturalsInduction, TLAPS

-----------------------------------------------------------------------------
(* The parts of the inductive invariant. *)

HorizonTypes ==
    /\ now \in Nat /\ landed \in [Batches -> Int]
    /\ \A r \in inflight : r.batch \in Batches /\ r.at \in Nat

\* An id on record is that of the last transaction that took effect.
RecordIsLast == \A p \in processed : p.batch \in Batches /\ p.at = landed[p.batch]

\* An id that took effect is on record until the horizon has passed; only the
\* deletion of the project forgets it earlier.
Remembered(b) ==
    \/ landed[b] = -1
    \/ \E p \in processed : p.batch = b
    \/ now - landed[b] > RetryHorizon

\* The inductive invariant.
HorizonInv ==
    /\ HorizonTypes
    /\ RecordIsLast
    /\ project => \A b \in Batches : Remembered(b)

-----------------------------------------------------------------------------
\* The steps that can disturb the invariant.
LEMMA HorizonCases ==
    ASSUME [Next]_vars
    PROVE  \/ UNCHANGED <<now, landed, inflight, processed, project>>
           \/ \E b \in Batches : post_events(b)
           \/ \E r \in inflight : ingest_batch(r)
           \/ /\ \E r \in inflight : inflight' = inflight \ {r}
              /\ UNCHANGED <<now, landed, processed, project>>
           \/ prune_processed_batches \/ delete_project_by_app \/ tick
<1>1. CASE UNCHANGED vars
  BY <1>1 DEF vars
<1>2. CASE apply_first_pass \/ backfill_missing_bucket_ids \/ apply_interrupted
           \/ apply_second_pass \/ delete_expired_errors
  BY <1>2 DEF apply_first_pass, backfill_missing_bucket_ids, apply_interrupted,
              apply_second_pass, delete_expired_errors, data, requests
<1>3. CASE \E r \in inflight : ingest_deduped(r) \/ ingest_failed(r)
  BY <1>3 DEF ingest_deduped, ingest_failed, Done, data
<1>4. CASE \E b \in Buckets : delete_sample_bucket(b)
  BY <1>4 DEF delete_sample_bucket, data
<1>5. CASE delete_sample_bucket_data
  BY <1>5 DEF delete_sample_bucket_data, data
<1> QED BY <1>1, <1>2, <1>3, <1>4, <1>5 DEF Next

\* What a commit does to the ids on record.
LEMMA CommitEffect ==
    ASSUME NEW r \in inflight, ingest_batch(r)
    PROVE  /\ \A p \in processed : p.batch # r.batch
           /\ processed' = processed \cup {[batch |-> r.batch, at |-> r.at]}
           /\ landed' = [landed EXCEPT ![r.batch] = r.at]
           /\ inflight' = inflight \ {r}
           /\ UNCHANGED <<project, now>>
BY DEF ingest_batch, Done

\* Every step preserves HorizonInv.
LEMMA HorizonStep == HorizonInv /\ [Next]_vars => HorizonInv'
<1> SUFFICES ASSUME HorizonInv, [Next]_vars PROVE HorizonInv'
  OBVIOUS
<1> USE DEF HorizonInv, HorizonTypes, RecordIsLast, Remembered
<1>1. CASE UNCHANGED <<now, landed, inflight, processed, project>>
  BY <1>1
<1>2. ASSUME NEW b \in Batches, post_events(b) PROVE HorizonInv'
  <2>1. /\ \A r \in inflight' : r \in inflight \/ (r.batch = b /\ r.at = now)
        /\ UNCHANGED <<now, landed, processed, project>>
    BY <1>2 DEF post_events, data
  <2> QED BY <2>1
<1>3. ASSUME NEW r \in inflight, ingest_batch(r) PROVE HorizonInv'
  <2> DEFINE new == [batch |-> r.batch, at |-> r.at]
  <2>1. /\ \A p \in processed : p.batch # r.batch
        /\ processed' = processed \cup {new}
        /\ landed' = [landed EXCEPT ![r.batch] = r.at]
        /\ inflight' = inflight \ {r}
        /\ UNCHANGED <<project, now>>
    BY <1>3, CommitEffect
  <2>2. new.batch = r.batch /\ new.at = r.at /\ r.batch \in Batches /\ r.at \in Nat
    OBVIOUS
  <2> HIDE DEF new
  <2>3. HorizonTypes'
    BY <2>1, <2>2
  <2>4. RecordIsLast'
    BY <2>1, <2>2
  <2>5. ASSUME project', NEW b \in Batches PROVE Remembered(b)'
    BY <2>1, <2>2, <2>5
  <2> QED BY <2>3, <2>4, <2>5
<1>4. CASE /\ \E r \in inflight : inflight' = inflight \ {r}
           /\ UNCHANGED <<now, landed, processed, project>>
  BY <1>4
<1>5. CASE prune_processed_batches
  <2>1. /\ processed' = {p \in processed : p.at >= now - RetryHorizon}
        /\ UNCHANGED <<now, landed, inflight, project>>
    BY <1>5 DEF prune_processed_batches, requests
  <2>2. ASSUME project, NEW b \in Batches PROVE Remembered(b)'
    <3>1. CASE \E p \in processed : p.batch = b
      <4> PICK p \in processed : p.batch = b
        BY <3>1
      <4>1. p.at = landed[b] /\ landed[b] \in Int
        OBVIOUS
      <4>2. CASE p.at >= now - RetryHorizon
        BY <2>1, <4>2
      <4>3. CASE ~(p.at >= now - RetryHorizon)
        BY <2>1, <4>1, <4>3, TelemetryAssumption DEF TelemetryAssumption
      <4> QED BY <4>2, <4>3
    <3> QED BY <2>1, <2>2, <3>1
  <2> QED BY <2>1, <2>2
<1>6. CASE delete_project_by_app
  BY <1>6 DEF delete_project_by_app
<1>7. CASE tick
  <2>1. now' = now + 1 /\ UNCHANGED <<landed, inflight, processed, project>>
    BY <1>7 DEF tick, data
  <2> QED BY <2>1, TelemetryAssumption DEF TelemetryAssumption
<1> QED BY <1>1, <1>2, <1>3, <1>4, <1>5, <1>6, <1>7, HorizonCases

\* What the ids on record mean holds in every reachable state.
THEOREM HorizonInvariant == Spec => []HorizonInv
<1>1. Init => HorizonInv
  BY DEF Init, HorizonInv, HorizonTypes, RecordIsLast, Remembered
<1> QED BY <1>1, HorizonStep, PTL DEF Spec

\* A batch takes effect at most once within the time its id is remembered,
\* for any number of open, failed, repeated and late requests of it
\* (ingest_batch, prune_processed_batches).
THEOREM BatchesCountOnce == Spec => OncePerHorizon
<1> DEFINE Step == \A b \in Batches :
                      /\ project
                      /\ \E r \in inflight \ inflight' : r.batch = b /\ processed' # processed
                      => landed[b] = -1 \/ now - landed[b] > RetryHorizon
<1>1. HorizonInv /\ [Next]_vars => Step
  <2> SUFFICES ASSUME HorizonInv, [Next]_vars, NEW b \in Batches, project,
                      NEW r \in inflight \ inflight', r.batch = b, processed' # processed
               PROVE  landed[b] = -1 \/ now - landed[b] > RetryHorizon
    OBVIOUS
  <2>1. PICK q \in inflight : ingest_batch(q)
    BY HorizonCases DEF post_events, prune_processed_batches, delete_project_by_app, tick,
                        data, requests
  <2>2. r = q /\ \A p \in processed : p.batch # b
    BY <2>1, CommitEffect
  <2> QED BY <2>2 DEF HorizonInv, Remembered
<1>2. HorizonInv /\ [Next]_vars => [Step]_vars
  BY <1>1
<1> HIDE DEF Step
<1>3. Spec => [][Step]_vars
  BY <1>2, HorizonInvariant, PTL DEF Spec
<1> QED BY <1>3 DEF OncePerHorizon, Step

-----------------------------------------------------------------------------
\* Whenever the counters are exact, every dimension the list shows for a bucket
\* (discriminators_from_counts) is shared by K_ANON stored occurrences of it.
LEMMA ExactCountsAnonymize == ReadModelsExact => SurfacedAreGroups
<1> SUFFICES ASSUME ReadModelsExact, Migrated, NEW b \in bucket_rollups,
                    NEW d \in discriminators_from_counts(b)
             PROVE  Count({i \in In(errors, b) : d \in dimension_values(errors[i].ctx)})
                      >= K_ANON
  BY DEF SurfacedAreGroups
<1>1. b \in Buckets /\ d \in Dimensions
      /\ models.bucket_context_counts[<<b, d>>] >= K_ANON
  BY DEF bucket_rollups, discriminators_from_counts, context_count_maps
<1>2. models.bucket_context_counts = Built(errors).bucket_context_counts
  BY DEF ReadModelsExact
<1>3. Built(errors).bucket_context_counts[<<b, d>>]
        = Count({i \in In(errors, b) : d \in dimension_values(errors[i].ctx)})
  BY <1>1 DEF Built, aggregate
<1> QED BY <1>1, <1>2, <1>3

-----------------------------------------------------------------------------
(* Induction, recursion, and the ends of a finite set of numbers, in the     *)
(* first-order form the proofs below use.                                    *)

\* A nonempty set of natural numbers has a least element.
LEMMA LeastNat ==
    ASSUME NEW T \in SUBSET Nat, T # {}
    PROVE  \E n \in T : \A m \in T : n <= m
<1>1. IsWellFoundedOn(OpToRel(<, Nat), Nat)
  BY NatLessThanWellFounded
<1>2. PICK n \in T : \A m \in T : ~(<<m, n>> \in OpToRel(<, Nat))
  BY <1>1, WFMin
<1>3. \A m \in T : ~(m < n)
  BY <1>2 DEF OpToRel
<1> QED BY <1>3

\* Induction: a set that holds 0 and every successor holds all numbers.
LEMMA SetInduction ==
    ASSUME NEW T, T \subseteq Nat, 0 \in T, \A n \in T : n + 1 \in T
    PROVE  \A n \in Nat : n \in T
<1> SUFFICES ASSUME Nat \ T # {} PROVE FALSE
  OBVIOUS
<1>1. PICK n \in Nat \ T : \A m \in Nat \ T : n <= m
  BY LeastNat
<1>2. n # 0 /\ n - 1 \in Nat
  BY <1>1
<1>3. n - 1 \in T
  BY <1>1, <1>2
<1>4. (n - 1) + 1 = n
  BY <1>1
<1> QED BY <1>1, <1>3, <1>4

\* A function on an initial segment that follows the recursion.
Follows(f, n, s0, step) ==
    f[0] = s0 /\ \A m \in 0 .. (n - 1) : f[m + 1] = step[<<m, f[m]>>]

Orbit(f, S, s0, step) ==
    f \in [Nat -> S] /\ f[0] = s0 /\ \A n \in Nat : f[n + 1] = step[<<n, f[n]>>]

\* Recursion: a step function on a set has an orbit.
LEMMA Recursion ==
    ASSUME NEW S, NEW s0 \in S, NEW step \in [Nat \X S -> S]
    PROVE  \E f : Orbit(f, S, s0, step)
<1> DEFINE T == {n \in Nat : \E f \in [0 .. n -> S] : Follows(f, n, s0, step)}
<1>1. 0 \in T
  <2> DEFINE f == [m \in 0 .. 0 |-> s0]
  <2>1. f \in [0 .. 0 -> S] /\ Follows(f, 0, s0, step)
    BY DEF Follows
  <2> QED BY <2>1
<1>2. \A n \in T : n + 1 \in T
  <2> SUFFICES ASSUME NEW n \in T PROVE n + 1 \in T
    OBVIOUS
  <2>1. PICK f \in [0 .. n -> S] : Follows(f, n, s0, step)
    OBVIOUS
  <2> DEFINE g == [m \in 0 .. (n + 1) |-> IF m = n + 1 THEN step[<<n, f[n]>>] ELSE f[m]]
  <2>2. n \in Nat
    OBVIOUS
  <2> HIDE DEF T
  <2>3. step[<<n, f[n]>>] \in S
    <3>1. f[n] \in S
      BY <2>1, <2>2
    <3> QED BY <3>1, <2>2
  <2>4. \A m \in 0 .. n : m # n + 1 /\ m \in 0 .. (n + 1) /\ g[m] = f[m]
    BY <2>2
  <2>5. g \in [0 .. (n + 1) -> S]
    BY <2>2, <2>3
  <2>6. g[n + 1] = step[<<n, f[n]>>]
    BY <2>2
  <2> HIDE DEF g
  <2>7. ASSUME NEW m \in 0 .. n PROVE g[m + 1] = step[<<m, g[m]>>]
    <3>1. CASE m = n
      BY <3>1, <2>4, <2>6
    <3>2. CASE m # n
      <4>1. m \in 0 .. (n - 1) /\ m + 1 \in 0 .. n
        BY <3>2, <2>2
      <4>2. f[m + 1] = step[<<m, f[m]>>]
        BY <4>1, <2>1 DEF Follows
      <4> QED BY <4>1, <4>2, <2>4
    <3> QED BY <3>1, <3>2
  <2>8. g[0] = s0
    BY <2>1, <2>2, <2>4 DEF Follows
  <2>9. Follows(g, n + 1, s0, step)
    BY <2>2, <2>7, <2>8 DEF Follows
  <2> QED BY <2>2, <2>5, <2>9 DEF T
<1>3. \A n \in Nat : \E f \in [0 .. n -> S] : Follows(f, n, s0, step)
  <2> HIDE DEF T
  <2>1. \A n \in Nat : n \in T
    <3>1. T \subseteq Nat
      BY DEF T
    <3> QED BY <1>1, <1>2, <3>1, SetInduction
  <2> QED BY <2>1 DEF T
<1>4. ASSUME NEW a \in Nat, NEW b \in Nat, a <= b,
             NEW f \in [0 .. a -> S], Follows(f, a, s0, step),
             NEW g \in [0 .. b -> S], Follows(g, b, s0, step)
      PROVE  f[a] = g[a]
  <2> DEFINE U == {n \in Nat : n <= a => f[n] = g[n]}
  <2>1. 0 \in U
    BY <1>4 DEF Follows
  <2>2. ASSUME NEW n \in U PROVE n + 1 \in U
    <3>1. n \in Nat /\ (n <= a => f[n] = g[n])
      OBVIOUS
    <3> HIDE DEF U
    <3>2. ASSUME n + 1 <= a PROVE f[n + 1] = g[n + 1]
      <4>1. n \in 0 .. (a - 1) /\ n \in 0 .. (b - 1)
        BY <1>4, <3>1, <3>2
      <4>2. f[n + 1] = step[<<n, f[n]>>] /\ g[n + 1] = step[<<n, g[n]>>]
        BY <1>4, <4>1 DEF Follows
      <4>3. f[n] = g[n]
        BY <3>1, <4>1
      <4> QED BY <4>2, <4>3
    <3> QED BY <3>1, <3>2 DEF U
  <2>3. a \in U
    <3>1. U \subseteq Nat
      OBVIOUS
    <3> HIDE DEF U
    <3> QED BY <2>1, <2>2, <3>1, SetInduction
  <2> QED BY <2>3
<1> DEFINE G(n) == CHOOSE f \in [0 .. n -> S] : Follows(f, n, s0, step)
           F == [n \in Nat |-> G(n)[n]]
<1>5. ASSUME NEW n \in Nat PROVE G(n) \in [0 .. n -> S] /\ Follows(G(n), n, s0, step)
  BY <1>3
<1> HIDE DEF G
<1>6. \A n \in Nat : F[n] = G(n)[n] /\ F[n] \in S
  BY <1>5
<1>7. F \in [Nat -> S]
  BY <1>6
<1>8. F[0] = s0
  BY <1>5, <1>6 DEF Follows
<1>9. ASSUME NEW n \in Nat PROVE F[n + 1] = step[<<n, F[n]>>]
  <2>1. G(n + 1)[n + 1] = step[<<n, G(n + 1)[n]>>]
    <3>1. n \in 0 .. ((n + 1) - 1)
      OBVIOUS
    <3> QED BY <3>1, <1>5 DEF Follows
  <2>2. G(n)[n] = G(n + 1)[n]
    BY <1>4, <1>5
  <2> QED BY <2>1, <2>2, <1>6
<1> HIDE DEF F
<1>10. Orbit(F, S, s0, step)
  BY <1>7, <1>8, <1>9 DEF Orbit
<1> QED BY <1>10

\* A nonempty finite set of natural numbers has a greatest element.
LEMMA GreatestNat ==
    ASSUME NEW T \in SUBSET Nat, IsFiniteSet(T), T # {}
    PROVE  \E n \in T : \A m \in T : m <= n
<1> DEFINE Bad == {U \in SUBSET T : U # {} /\ ~\E n \in U : \A m \in U : m <= n}
<1> SUFFICES ASSUME T \in Bad PROVE FALSE
  OBVIOUS
<1>1. IsWellFoundedOn(StrictSubsetOrdering(T), SUBSET T)
  BY FS_StrictSubsetOrderingWellFounded, FS_FiniteSubsetsOfFinite
<1>2. PICK U \in Bad : \A V \in Bad : ~(<<V, U>> \in StrictSubsetOrdering(T))
  BY <1>1, WFMin
<1>3. U \subseteq T /\ U # {} /\ ~\E n \in U : \A m \in U : m <= n
  OBVIOUS
<1>4. PICK x \in U : TRUE
  BY <1>3
<1>5. U \ {x} \notin Bad
  BY <1>2, <1>3, <1>4 DEF StrictSubsetOrdering
<1>6. CASE U \ {x} = {}
  BY <1>3, <1>4, <1>6
<1>7. CASE U \ {x} # {}
  <2>1. PICK n \in U \ {x} : \A m \in U \ {x} : m <= n
    BY <1>3, <1>5, <1>7
  <2>2. x \in Nat /\ n \in Nat /\ \A m \in U : m \in Nat
    BY <1>3, <1>4, <2>1
  <2>3. CASE x <= n
    BY <1>3, <2>1, <2>2, <2>3
  <2>4. CASE n <= x
    <3>1. \A m \in U : m <= x
      BY <2>1, <2>2, <2>4
    <3> QED BY <3>1, <1>3, <1>4
  <2> QED BY <2>2, <2>3, <2>4
<1> QED BY <1>6, <1>7

\* So Min and Max are what they should be.
LEMMA Ends ==
    ASSUME NEW T \in SUBSET Nat, IsFiniteSet(T), T # {}
    PROVE  /\ Min(T) \in T /\ \A m \in T : Min(T) <= m
           /\ Max(T) \in T /\ \A m \in T : m <= Max(T)
<1>1. \E n \in T : \A m \in T : n <= m
  BY LeastNat
<1>2. \E n \in T : \A m \in T : n >= m
  BY GreatestNat
<1>3. Min(T) \in T /\ \A m \in T : Min(T) <= m
  BY <1>1 DEF Min
<1>4. Max(T) \in T /\ \A m \in T : Max(T) >= m
  BY <1>2 DEF Max
<1> QED BY <1>3, <1>4

-----------------------------------------------------------------------------
(* The count tables.  Each is a tally: the number of rows of a set that     *)
(* count for a key, keys[i] being the keys row i counts for.                *)

Tally(R, keys, K) == [k \in K |-> Count({i \in R : k \in keys[i]})]

AppKeys(tbl) == [i \in DOMAIN tbl |-> dimension_values(tbl[i].ctx)]
BucketKeys(tbl) == [i \in DOMAIN tbl |-> {tbl[i].bucket_id} \X dimension_values(tbl[i].ctx)]
WindowKeys(tbl, window) ==
    [i \in DOMAIN tbl |-> {<<tbl[i].bucket_id, hour(tbl[i].at), window[i]>>}]
WindowDomain == Buckets \X Hours \X (Builds \cup {NoBuild})

\* A tally is a table of natural numbers.
LEMMA TallyType ==
    ASSUME NEW R, IsFiniteSet(R), NEW keys, NEW K
    PROVE  Tally(R, keys, K) \in [K -> Nat]
<1>1. ASSUME NEW k \in K PROVE Count({i \in R : k \in keys[i]}) \in Nat
  <2> DEFINE A == {i \in R : k \in keys[i]}
  <2>1. A \in SUBSET R
    OBVIOUS
  <2> HIDE DEF A
  <2>2. Cardinality(A) \in Nat
    BY <2>1, FS_Subset, FS_CardinalityType
  <2> QED BY <2>2 DEF A, Count
<1> QED BY <1>1 DEF Tally

\* The trigger takes a row out of a tally.
LEMMA TallyLess ==
    ASSUME NEW R, IsFiniteSet(R), NEW keys, NEW K, NEW j \in R
    PROVE  Less(Tally(R, keys, K), keys[j]) = Tally(R \ {j}, keys, K)
<1>1. ASSUME NEW k \in K
      PROVE  (IF k \in keys[j] /\ Tally(R, keys, K)[k] > 0 THEN Tally(R, keys, K)[k] - 1
                                                     ELSE Tally(R, keys, K)[k])
               = Count({i \in R \ {j} : k \in keys[i]})
  <2> DEFINE A == {i \in R : k \in keys[i]}
             B == {i \in R \ {j} : k \in keys[i]}
  <2>1. A \in SUBSET R /\ B = A \ {j} /\ (j \in A <=> k \in keys[j])
    OBVIOUS
  <2>2. Tally(R, keys, K)[k] = Cardinality(A) /\ Count(B) = Cardinality(B)
    BY DEF Tally, Count
  <2> HIDE DEF A, B
  <2>3. IsFiniteSet(A) /\ Cardinality(A) \in Nat
    BY <2>1, FS_Subset, FS_CardinalityType
  <2>4. Cardinality(B) = IF j \in A THEN Cardinality(A) - 1 ELSE Cardinality(A)
    BY <2>1, <2>3, FS_RemoveElement
  <2>5. j \in A => Cardinality(A) > 0
    BY <2>3, FS_EmptySet
  <2>6. (IF k \in keys[j] /\ Cardinality(A) > 0 THEN Cardinality(A) - 1 ELSE Cardinality(A))
          = Cardinality(B)
    BY <2>1, <2>3, <2>4, <2>5
  <2> QED BY <2>2, <2>6 DEF B
<1>2. DOMAIN Tally(R, keys, K) = K
  BY DEF Tally
<1>3. Less(Tally(R, keys, K), keys[j])
        = [k \in K |-> IF k \in keys[j] /\ Tally(R, keys, K)[k] > 0
                       THEN Tally(R, keys, K)[k] - 1 ELSE Tally(R, keys, K)[k]]
  BY <1>2 DEF Less
<1>4. Less(Tally(R, keys, K), keys[j]) = [k \in K |-> Count({i \in R \ {j} : k \in keys[i]})]
  BY <1>1, <1>3, Zenon
<1> QED BY <1>4 DEF Tally

\* The upserts of a batch add the tally of its rows.
LEMMA TallyAdd ==
    ASSUME NEW R, IsFiniteSet(R), NEW Q, IsFiniteSet(Q), R \cap Q = {}, NEW keys, NEW K
    PROVE  Add(Tally(R, keys, K), Tally(Q, keys, K)) = Tally(R \cup Q, keys, K)
<1>1. ASSUME NEW k \in K
      PROVE  Tally(R, keys, K)[k] + Tally(Q, keys, K)[k]
               = Count({i \in R \cup Q : k \in keys[i]})
  <2> DEFINE A == {i \in R : k \in keys[i]}
             B == {i \in Q : k \in keys[i]}
             C == {i \in R \cup Q : k \in keys[i]}
  <2>1. A \in SUBSET R /\ B \in SUBSET Q /\ C = A \cup B /\ A \cap B = {}
    OBVIOUS
  <2>2. /\ Tally(R, keys, K)[k] = Cardinality(A) /\ Tally(Q, keys, K)[k] = Cardinality(B)
        /\ Count(C) = Cardinality(C)
    BY DEF Tally, Count
  <2> HIDE DEF A, B, C
  <2>3. /\ IsFiniteSet(A) /\ Cardinality(A) \in Nat
        /\ IsFiniteSet(B) /\ Cardinality(B) \in Nat
    BY <2>1, FS_Subset, FS_CardinalityType
  <2>4. Cardinality(C) = Cardinality(A) + Cardinality(B) - Cardinality(A \cap B)
    BY <2>1, <2>3, FS_Union
  <2>5. Cardinality(A \cap B) = 0
    BY <2>1, FS_EmptySet
  <2>6. Cardinality(C) = Cardinality(A) + Cardinality(B)
    BY <2>3, <2>4, <2>5
  <2> QED BY <2>2, <2>6 DEF C
<1>2. DOMAIN Tally(R, keys, K) = K
  BY DEF Tally
<1>3. Add(Tally(R, keys, K), Tally(Q, keys, K))
        = [k \in K |-> Tally(R, keys, K)[k] + Tally(Q, keys, K)[k]]
  BY <1>2 DEF Add
<1>4. Add(Tally(R, keys, K), Tally(Q, keys, K)) = [k \in K |-> Count({i \in R \cup Q : k \in keys[i]})]
  BY <1>1, <1>3, Zenon
<1> QED BY <1>4 DEF Tally

\* Only the keys of the rows in the set matter.
LEMMA TallySame ==
    ASSUME NEW R, NEW keys, NEW other, NEW K, \A i \in R : keys[i] = other[i]
    PROVE  Tally(R, keys, K) = Tally(R, other, K)
<1>1. ASSUME NEW k \in K PROVE {i \in R : k \in keys[i]} = {i \in R : k \in other[i]}
  OBVIOUS
<1>2. [k \in K |-> Count({i \in R : k \in keys[i]})] = [k \in K |-> Count({i \in R : k \in other[i]})]
  BY <1>1, Zenon
<1> QED BY <1>2 DEF Tally

\* The aggregate of a table is made of tallies and summaries.
LEMMA AggregateTallies ==
    ASSUME NEW tbl, NEW window
    PROVE  LET a == aggregate(tbl, window)
           IN  /\ a.bucket_summaries = [b \in Buckets |-> summary_of(tbl, In(tbl, b))]
               /\ a.bucket_windows = Tally(DOMAIN tbl, WindowKeys(tbl, window), WindowDomain)
               /\ a.app_context_counts = Tally(DOMAIN tbl, AppKeys(tbl), Dimensions)
               /\ a.bucket_context_counts =
                    Tally(DOMAIN tbl, BucketKeys(tbl), Buckets \X Dimensions)
<1> DEFINE a == aggregate(tbl, window)
<1>1. a.bucket_summaries = [b \in Buckets |-> summary_of(tbl, In(tbl, b))]
  BY DEF aggregate
<1>2. a.bucket_windows = Tally(DOMAIN tbl, WindowKeys(tbl, window), WindowDomain)
  <2>1. ASSUME NEW k \in WindowDomain
        PROVE  {i \in In(tbl, k[1]) : hour(tbl[i].at) = k[2] /\ window[i] = k[3]}
                 = {i \in DOMAIN tbl : k \in WindowKeys(tbl, window)[i]}
    <3>1. k = <<k[1], k[2], k[3]>>
      BY DEF WindowDomain
    <3>2. ASSUME NEW i \in DOMAIN tbl
          PROVE  k \in WindowKeys(tbl, window)[i] <=>
                   /\ tbl[i].bucket_id = k[1] /\ hour(tbl[i].at) = k[2] /\ window[i] = k[3]
      <4>1. WindowKeys(tbl, window)[i] = {<<tbl[i].bucket_id, hour(tbl[i].at), window[i]>>}
        BY DEF WindowKeys
      <4> HIDE DEF hour
      <4> QED BY <3>1, <4>1
    <3> QED BY <3>2 DEF In
  <2>2. a.bucket_windows = [k \in WindowDomain |->
            Count({i \in In(tbl, k[1]) : hour(tbl[i].at) = k[2] /\ window[i] = k[3]})]
    BY DEF aggregate, windows_of, WindowDomain
  <2>3. a.bucket_windows = [k \in WindowDomain |->
            Count({i \in DOMAIN tbl : k \in WindowKeys(tbl, window)[i]})]
    <3> HIDE DEF a
    <3> QED BY <2>1, <2>2, Zenon
  <2> QED BY <2>3 DEF Tally
<1>3. a.app_context_counts = Tally(DOMAIN tbl, AppKeys(tbl), Dimensions)
  <2>1. ASSUME NEW d \in Dimensions
        PROVE  {i \in DOMAIN tbl : d \in dimension_values(tbl[i].ctx)}
                 = {i \in DOMAIN tbl : d \in AppKeys(tbl)[i]}
    BY DEF AppKeys
  <2>2. a.app_context_counts = [d \in Dimensions |->
            Count({i \in DOMAIN tbl : d \in dimension_values(tbl[i].ctx)})]
    BY DEF aggregate
  <2>3. a.app_context_counts = [d \in Dimensions |->
            Count({i \in DOMAIN tbl : d \in AppKeys(tbl)[i]})]
    <3> HIDE DEF a
    <3> QED BY <2>1, <2>2, Zenon
  <2> QED BY <2>3 DEF Tally
<1>4. a.bucket_context_counts = Tally(DOMAIN tbl, BucketKeys(tbl), Buckets \X Dimensions)
  <2>1. ASSUME NEW k \in Buckets \X Dimensions
        PROVE  {i \in In(tbl, k[1]) : k[2] \in dimension_values(tbl[i].ctx)}
                 = {i \in DOMAIN tbl : k \in BucketKeys(tbl)[i]}
    <3>1. k = <<k[1], k[2]>>
      OBVIOUS
    <3>2. ASSUME NEW i \in DOMAIN tbl
          PROVE  k \in BucketKeys(tbl)[i] <=>
                   tbl[i].bucket_id = k[1] /\ k[2] \in dimension_values(tbl[i].ctx)
      <4>1. BucketKeys(tbl)[i] = {tbl[i].bucket_id} \X dimension_values(tbl[i].ctx)
        BY DEF BucketKeys
      <4> QED BY <3>1, <4>1
    <3> QED BY <3>2 DEF In
  <2>2. a.bucket_context_counts = [k \in Buckets \X Dimensions |->
            Count({i \in In(tbl, k[1]) : k[2] \in dimension_values(tbl[i].ctx)})]
    BY DEF aggregate
  <2>3. a.bucket_context_counts = [k \in Buckets \X Dimensions |->
            Count({i \in DOMAIN tbl : k \in BucketKeys(tbl)[i]})]
    <3> HIDE DEF a
    <3> QED BY <2>1, <2>2, Zenon
  <2> QED BY <2>3 DEF Tally
<1> HIDE DEF a
<1> QED BY <1>1, <1>2, <1>3, <1>4 DEF a

-----------------------------------------------------------------------------
(* Summaries. *)

Row == [identity : Buckets, bucket_id : Buckets \cup {NoBucket}, ctx : Contexts, at : Nat]

\* A table of error rows: finitely many, numbered.
IsTable(tbl) == IsFiniteSet(DOMAIN tbl) /\ DOMAIN tbl \subseteq Nat /\ tbl \in [DOMAIN tbl -> Row]

\* s has its ends by id in ids, and spans the rows ids.
EndsOf(s, tbl, ids) ==
    /\ s.first \in ids /\ s.last \in ids
    /\ \A i \in ids : /\ s.first <= i /\ i <= s.last
                      /\ s.first_seen <= tbl[i].at /\ tbl[i].at <= s.last_seen

\* s is a summary of the rows ids, its times possibly wider than theirs.
Good(s, tbl, ids) ==
    IF ids = {} THEN s = NoRow
    ELSE s \in Summaries /\ s.count = Cardinality(ids) /\ EndsOf(s, tbl, ids)

\* The summary a scan computes, and what it is exact about.
LEMMA SummaryScan ==
    ASSUME NEW tbl, IsTable(tbl), NEW ids \in SUBSET DOMAIN tbl, ids # {}
    PROVE  LET t == summary_of(tbl, ids)
           IN  /\ t \in Summaries /\ t.count = Cardinality(ids) /\ t.count >= 1
               /\ EndsOf(t, tbl, ids)
               /\ \E i \in ids : t.first_seen = tbl[i].at
               /\ \E i \in ids : t.last_seen = tbl[i].at
<1> DEFINE times == {tbl[i].at : i \in ids}
           F == [i \in ids |-> tbl[i].at]
           t == summary_of(tbl, ids)
<1>1. \A i \in DOMAIN tbl : i \in Nat /\ tbl[i].at \in Nat
  BY DEF IsTable, Row
<1>2. IsFiniteSet(ids) /\ Cardinality(ids) \in Nat
  BY FS_Subset, FS_CardinalityType DEF IsTable
<1>3. times \in SUBSET Nat /\ times # {}
  BY <1>1
<1>4. F \in Surjection(ids, times)
  BY DEF Surjection
<1>5. IsFiniteSet(times)
  <2> HIDE DEF times, F
  <2> QED BY <1>2, <1>4, FS_Surjection
<1>6. Cardinality(ids) # 0
  BY <1>2, FS_EmptySet
<1>7. ids \in SUBSET Nat
  BY <1>1
<1>8. /\ Min(ids) \in ids /\ Max(ids) \in ids
      /\ \A i \in ids : Min(ids) <= i /\ i <= Max(ids)
  BY <1>2, <1>7, Ends
<1>9. /\ Min(times) \in times /\ Max(times) \in times
      /\ \A x \in times : Min(times) <= x /\ x <= Max(times)
  <2> HIDE DEF times
  <2> QED BY <1>3, <1>5, Ends
<1>10. t = [count |-> Cardinality(ids), first |-> Min(ids), last |-> Max(ids),
            first_seen |-> Min(times), last_seen |-> Max(times)]
  BY DEF summary_of, Count
<1>11. \A i \in ids : Min(times) <= tbl[i].at /\ tbl[i].at <= Max(times)
  BY <1>9
<1>12. (\E i \in ids : Min(times) = tbl[i].at) /\ (\E i \in ids : Max(times) = tbl[i].at)
  BY <1>9
<1>13. Min(times) \in Nat /\ Max(times) \in Nat /\ Min(ids) \in Nat /\ Max(ids) \in Nat
  BY <1>3, <1>7, <1>8, <1>9
<1> HIDE DEF times, t
<1>14. t \in Summaries /\ t.count = Cardinality(ids) /\ t.count >= 1
  BY <1>2, <1>6, <1>10, <1>13 DEF Summaries
<1>15. EndsOf(t, tbl, ids)
  BY <1>8, <1>10, <1>11 DEF EndsOf
<1>16. (\E i \in ids : t.first_seen = tbl[i].at) /\ (\E i \in ids : t.last_seen = tbl[i].at)
  BY <1>10, <1>12
<1> QED BY <1>14, <1>15, <1>16 DEF t

\* A scan makes a good summary.
LEMMA ScanIsGood ==
    ASSUME NEW tbl, IsTable(tbl), NEW ids \in SUBSET DOMAIN tbl
    PROVE  Good(summary_of(tbl, ids), tbl, ids)
<1>1. CASE ids = {}
  BY <1>1 DEF Good, summary_of
<1>2. CASE ids # {}
  BY <1>2, SummaryScan DEF Good
<1> QED BY <1>1, <1>2

\* A good summary is exact in the sense of ReadModelsExact.
LEMMA GoodIsExact ==
    ASSUME NEW tbl, IsTable(tbl), NEW ids \in SUBSET DOMAIN tbl, NEW s, Good(s, tbl, ids)
    PROVE  SummaryExact(s, summary_of(tbl, ids))
<1> DEFINE t == summary_of(tbl, ids)
<1>1. CASE ids = {}
  BY <1>1 DEF Good, summary_of, SummaryExact
<1>2. CASE ids # {}
  <2>1. s \in Summaries /\ s.count = Cardinality(ids) /\ EndsOf(s, tbl, ids)
    BY <1>2 DEF Good
  <2>2. /\ t \in Summaries /\ t.count = Cardinality(ids) /\ EndsOf(t, tbl, ids)
        /\ \E i \in ids : t.first_seen = tbl[i].at
        /\ \E i \in ids : t.last_seen = tbl[i].at
    BY <1>2, SummaryScan
  <2> HIDE DEF t
  <2>3. s # NoRow /\ t # NoRow
    BY <2>1, <2>2, TelemetryAssumption
  <2>4. /\ s.count \in Nat /\ s.first \in Nat /\ s.last \in Nat
        /\ t.count \in Nat /\ t.first \in Nat /\ t.last \in Nat
        /\ s.first_seen \in Nat /\ s.last_seen \in Nat
        /\ t.first_seen \in Nat /\ t.last_seen \in Nat
    BY <2>1, <2>2 DEF Summaries
  <2>5. s.first = t.first /\ s.last = t.last
    <3>1. s.first <= t.first /\ t.first <= s.first /\ s.last <= t.last /\ t.last <= s.last
      BY <2>1, <2>2 DEF EndsOf
    <3> QED BY <2>4, <3>1
  <2>6. s.first_seen <= t.first_seen /\ t.last_seen <= s.last_seen
    BY <2>1, <2>2 DEF EndsOf
  <2>7. s.count = t.count
    BY <2>1, <2>2
  <2> QED BY <2>3, <2>5, <2>6, <2>7 DEF SummaryExact, t
<1> QED BY <1>1, <1>2

\* The smaller and the larger of two numbers.
LEMMA PairEnds ==
    ASSUME NEW x \in Nat, NEW y \in Nat
    PROVE  /\ Min({x, y}) \in {x, y} /\ Min({x, y}) <= x /\ Min({x, y}) <= y
           /\ Max({x, y}) \in {x, y} /\ x <= Max({x, y}) /\ y <= Max({x, y})
<1> DEFINE T == {x, y}
<1>1. T \in SUBSET Nat /\ T # {} /\ x \in T /\ y \in T
  OBVIOUS
<1>2. IsFiniteSet(T)
  <2>1. T = {x} \cup {y} /\ IsFiniteSet({x}) /\ IsFiniteSet({y})
    BY FS_Singleton
  <2> QED BY <2>1, FS_Union
<1> HIDE DEF T
<1>3. /\ Min(T) \in T /\ Max(T) \in T
      /\ Min(T) <= x /\ Min(T) <= y /\ x <= Max(T) /\ y <= Max(T)
  BY <1>1, <1>2, Ends
<1> QED BY <1>3 DEF T

\* The upsert of a batch's summary covers the old rows and the new ones.
LEMMA UpsertIsGood ==
    ASSUME NEW tbl, IsTable(tbl), NEW A \in SUBSET DOMAIN tbl, NEW B \in SUBSET DOMAIN tbl,
           A \cap B = {}, NEW s, Good(s, tbl, A), NEW t, Good(t, tbl, B)
    PROVE  Good(upsert_summary(s, t), tbl, A \cup B)
<1> DEFINE u == upsert_summary(s, t)
<1>1. CASE A = {}
  <2>1. s = NoRow /\ u = t
    BY <1>1 DEF Good, upsert_summary
  <2>2. A \cup B = B
    BY <1>1
  <2> QED BY <2>1, <2>2
<1>2. CASE A # {} /\ B = {}
  <2>1. t = NoRow /\ s \in Summaries
    BY <1>2 DEF Good
  <2>2. u = s /\ A \cup B = A
    BY <1>2, <2>1, TelemetryAssumption DEF upsert_summary
  <2> QED BY <2>2
<1>3. CASE A # {} /\ B # {}
  <2>1. /\ s \in Summaries /\ s.count = Cardinality(A) /\ EndsOf(s, tbl, A)
        /\ t \in Summaries /\ t.count = Cardinality(B) /\ EndsOf(t, tbl, B)
    BY <1>3 DEF Good
  <2>2. s # NoRow /\ t # NoRow
    BY <2>1, TelemetryAssumption
  <2> DEFINE f == Min({s.first, t.first})
             l == Max({s.last, t.last})
             fs == Min({s.first_seen, t.first_seen})
             ls == Max({s.last_seen, t.last_seen})
  <2>3. u = [count |-> s.count + t.count, first |-> f, last |-> l,
             first_seen |-> fs, last_seen |-> ls]
    BY <2>2 DEF upsert_summary
  <2>4. /\ s.count \in Nat /\ s.first \in Nat /\ s.last \in Nat
        /\ t.count \in Nat /\ t.first \in Nat /\ t.last \in Nat
        /\ s.first_seen \in Nat /\ s.last_seen \in Nat
        /\ t.first_seen \in Nat /\ t.last_seen \in Nat
    BY <2>1 DEF Summaries
  <2>5. /\ f \in {s.first, t.first} /\ f <= s.first /\ f <= t.first
        /\ l \in {s.last, t.last} /\ s.last <= l /\ t.last <= l
        /\ fs \in {s.first_seen, t.first_seen} /\ fs <= s.first_seen /\ fs <= t.first_seen
        /\ ls \in {s.last_seen, t.last_seen} /\ s.last_seen <= ls /\ t.last_seen <= ls
    BY <2>4, PairEnds
  <2> HIDE DEF f, l, fs, ls, u
  <2>6. f \in Nat /\ l \in Nat /\ fs \in Nat /\ ls \in Nat
    BY <2>4, <2>5
  <2>7. u \in Summaries
    BY <2>3, <2>4, <2>6 DEF Summaries
  <2>8. u.count = Cardinality(A \cup B)
    <3>1. IsFiniteSet(A) /\ IsFiniteSet(B)
      BY FS_Subset DEF IsTable
    <3>2. Cardinality(A \cup B) = Cardinality(A) + Cardinality(B) - Cardinality(A \cap B)
      BY <3>1, FS_Union
    <3>3. Cardinality(A \cap B) = 0
      BY FS_EmptySet
    <3>4. u.count = s.count + t.count
      BY <2>3
    <3> QED BY <2>1, <2>4, <3>2, <3>3, <3>4
  <2>9. EndsOf(u, tbl, A \cup B)
    <3>1. \A i \in A \cup B : i \in Nat /\ tbl[i].at \in Nat
      BY DEF IsTable, Row
    <3>2. u.first = f /\ u.last = l /\ u.first_seen = fs /\ u.last_seen = ls
      BY <2>3
    <3>3. f \in A \cup B /\ l \in A \cup B
      BY <2>1, <2>5 DEF EndsOf
    <3>4. ASSUME NEW i \in A \cup B
          PROVE  f <= i /\ i <= l /\ fs <= tbl[i].at /\ tbl[i].at <= ls
      <4>1. CASE i \in A
        <5>1. s.first <= i /\ i <= s.last /\ s.first_seen <= tbl[i].at /\ tbl[i].at <= s.last_seen
          BY <4>1, <2>1 DEF EndsOf
        <5> QED BY <5>1, <3>1, <2>4, <2>5, <2>6
      <4>2. CASE i \in B
        <5>1. t.first <= i /\ i <= t.last /\ t.first_seen <= tbl[i].at /\ tbl[i].at <= t.last_seen
          BY <4>2, <2>1 DEF EndsOf
        <5> QED BY <5>1, <3>1, <2>4, <2>5, <2>6
      <4> QED BY <4>1, <4>2
    <3> QED BY <3>2, <3>3, <3>4 DEF EndsOf
  <2>10. A \cup B # {}
    BY <1>3
  <2> QED BY <2>7, <2>8, <2>9, <2>10 DEF Good, u
<1> QED BY <1>1, <1>2, <1>3

\* A summary is about the rows, whatever other rows the table holds.
LEMMA GoodElsewhere ==
    ASSUME NEW tbl, NEW other, NEW ids, \A i \in ids : tbl[i] = other[i], NEW s, Good(s, tbl, ids)
    PROVE  Good(s, other, ids)
BY DEF Good, EndsOf

-----------------------------------------------------------------------------
(* The delete trigger, row by row. *)

Tables == [bucket_summaries : [Buckets -> Summaries \cup {NoRow}],
           bucket_windows : [WindowDomain -> Nat],
           app_context_counts : [Dimensions -> Nat],
           bucket_context_counts : [Buckets \X Dimensions -> Nat]]
Stages == [ok : BOOLEAN, m : Tables]

Bucketed == IsTable(errors) /\ \A i \in DOMAIN errors : errors[i].bucket_id \in Buckets

\* The trigger keeps a table of counts one.
LEMMA LessType ==
    ASSUME NEW K, NEW f \in [K -> Nat], NEW keys
    PROVE  Less(f, keys) \in [K -> Nat]
BY DEF Less

\* What the trigger makes of a summary.
LEMMA LessSummary ==
    ASSUME IsTable(errors), NEW s \in Summaries \cup {NoRow}, NEW id,
           NEW left \in SUBSET DOMAIN errors
    PROVE  LET r == less_summary(s, id, left)
           IN  /\ r \in Summaries \cup {NoRow}
               /\ s = NoRow \/ s.count <= 1 => r = NoRow
               /\ s # NoRow /\ s.count > 1 =>
                    /\ r \in Summaries /\ r.count = s.count - 1
                    /\ id \in {s.first, s.last} /\ left # {} => EndsOf(r, errors, left)
                    /\ ~(id \in {s.first, s.last} /\ left # {}) =>
                          /\ r.first = s.first /\ r.last = s.last
                          /\ r.first_seen = s.first_seen /\ r.last_seen = s.last_seen
<1> DEFINE r == less_summary(s, id, left)
<1>1. CASE s = NoRow \/ s.count <= 1
  <2>1. r = NoRow
    BY <1>1 DEF less_summary
  <2>2. s # NoRow => s.count \in Nat
    BY DEF Summaries
  <2> QED BY <1>1, <2>1, <2>2
<1>2. CASE ~(s = NoRow \/ s.count <= 1) /\ id \in {s.first, s.last} /\ left # {}
  <2> DEFINE t == summary_of(errors, left)
             c == s.count - 1
  <2>1. r = [t EXCEPT !.count = c]
    BY <1>2 DEF less_summary
  <2>2. t \in Summaries /\ EndsOf(t, errors, left)
    BY <1>2, SummaryScan
  <2>3. s \in Summaries /\ s.count \in Nat /\ c \in Nat /\ s.count > 1
    BY <1>2 DEF Summaries
  <2> HIDE DEF t, c, r
  <2>4. /\ r \in Summaries /\ r.count = c /\ r.first = t.first /\ r.last = t.last
        /\ r.first_seen = t.first_seen /\ r.last_seen = t.last_seen
    BY <2>1, <2>2, <2>3 DEF Summaries
  <2>5. EndsOf(r, errors, left)
    BY <2>2, <2>4 DEF EndsOf
  <2> QED BY <1>2, <2>3, <2>4, <2>5 DEF c, r
<1>3. CASE ~(s = NoRow \/ s.count <= 1) /\ ~(id \in {s.first, s.last} /\ left # {})
  <2> DEFINE c == s.count - 1
  <2>1. r = [s EXCEPT !.count = c]
    BY <1>3 DEF less_summary
  <2>3. s \in Summaries /\ s.count \in Nat /\ c \in Nat /\ s.count > 1
    BY <1>3 DEF Summaries
  <2> HIDE DEF c, r
  <2>4. /\ r \in Summaries /\ r.count = c /\ r.first = s.first /\ r.last = s.last
        /\ r.first_seen = s.first_seen /\ r.last_seen = s.last_seen
    BY <2>1, <2>3 DEF Summaries
  <2> QED BY <1>3, <2>3, <2>4 DEF c, r
<1> QED BY <1>1, <1>2, <1>3

\* The trigger takes row id from stage acc to stage r.
Fired(r, acc, id, ids) ==
    LET b == errors[id].bucket_id
        s == acc.m.bucket_summaries[b]
        left == In(errors, b) \ ids
    IN  /\ r.ok => acc.ok /\ ~null_end(s, id, left)
        /\ r.m.bucket_summaries =
             [acc.m.bucket_summaries EXCEPT ![b] = less_summary(s, id, left)]
        /\ r.m.bucket_windows =
             Less(acc.m.bucket_windows, WindowKeys(errors, BuildOf(errors))[id])
        /\ r.m.app_context_counts = Less(acc.m.app_context_counts, AppKeys(errors)[id])
        /\ r.m.bucket_context_counts = Less(acc.m.bucket_context_counts, BucketKeys(errors)[id])

\* One firing of the trigger.
LEMMA TriggerStep ==
    ASSUME Bucketed, NEW ids \in SUBSET DOMAIN errors, NEW acc \in Stages, NEW id \in ids
    PROVE  /\ remove_error_from_read_models(acc, id, ids) \in Stages
           /\ Fired(remove_error_from_read_models(acc, id, ids), acc, id, ids)
<1> DEFINE r == remove_error_from_read_models(acc, id, ids)
           b == errors[id].bucket_id
           s == acc.m.bucket_summaries[b]
           left == In(errors, b) \ ids
           ok == acc.ok /\ ~null_end(s, id, left)
           bs == [acc.m.bucket_summaries EXCEPT ![b] = less_summary(s, id, left)]
           bw == Less(acc.m.bucket_windows, WindowKeys(errors, BuildOf(errors))[id])
           ac == Less(acc.m.app_context_counts, AppKeys(errors)[id])
           bc == Less(acc.m.bucket_context_counts, BucketKeys(errors)[id])
<1>1. id \in DOMAIN errors /\ b \in Buckets
  BY DEF Bucketed
<1>2. /\ WindowKeys(errors, BuildOf(errors))[id]
           = {<<b, hour(errors[id].at), build_version(errors[id].ctx)>>}
      /\ AppKeys(errors)[id] = dimension_values(errors[id].ctx)
      /\ BucketKeys(errors)[id] = {b} \X dimension_values(errors[id].ctx)
  BY <1>1 DEF WindowKeys, AppKeys, BucketKeys, BuildOf
<1>3. r = [ok |-> ok, m |-> [bucket_summaries |-> bs, bucket_windows |-> bw,
                             app_context_counts |-> ac, bucket_context_counts |-> bc]]
  BY <1>2 DEF remove_error_from_read_models
<1>4. /\ acc.m \in Tables /\ acc.ok \in BOOLEAN
      /\ acc.m.bucket_summaries \in [Buckets -> Summaries \cup {NoRow}]
      /\ acc.m.bucket_windows \in [WindowDomain -> Nat]
      /\ acc.m.app_context_counts \in [Dimensions -> Nat]
      /\ acc.m.bucket_context_counts \in [Buckets \X Dimensions -> Nat]
  BY DEF Stages, Tables
<1>5. bs \in [Buckets -> Summaries \cup {NoRow}]
  <2>1. s \in Summaries \cup {NoRow}
    BY <1>1, <1>4
  <2>2. left \in SUBSET DOMAIN errors
    BY DEF In
  <2> HIDE DEF s, left
  <2>3. less_summary(s, id, left) \in Summaries \cup {NoRow}
    BY <2>1, <2>2, LessSummary DEF Bucketed
  <2> QED BY <2>3, <1>1, <1>4
<1>6. bw \in [WindowDomain -> Nat] /\ ac \in [Dimensions -> Nat]
      /\ bc \in [Buckets \X Dimensions -> Nat]
  BY <1>4, LessType
<1>7. ok \in BOOLEAN
  BY <1>4
<1> HIDE DEF r, ok, bs, bw, ac, bc
<1>8. r.m = [bucket_summaries |-> bs, bucket_windows |-> bw,
             app_context_counts |-> ac, bucket_context_counts |-> bc]
  BY <1>3
<1>9. r.m \in Tables
  BY <1>5, <1>6, <1>8 DEF Tables
<1>10. r.ok = ok
  BY <1>3
<1>11. r \in Stages
  BY <1>3, <1>7, <1>8, <1>9 DEF Stages
<1>12. r.ok => acc.ok /\ ~null_end(s, id, left)
  BY <1>10 DEF ok
<1>13. /\ r.m.bucket_summaries = bs /\ r.m.bucket_windows = bw
       /\ r.m.app_context_counts = ac /\ r.m.bucket_context_counts = bc
  BY <1>8
<1>14. Fired(r, acc, id, ids)
  BY <1>12, <1>13 DEF Fired, bs, bw, ac, bc
<1> QED BY <1>11, <1>14 DEF r

\* The stages of a deletion exist and follow the trigger.
LEMMA DeletionStages ==
    ASSUME Bucketed, models \in Tables, NEW ids \in SUBSET DOMAIN errors
    PROVE  \E f \in [Nat -> Stages] :
             /\ f[0] = [ok |-> TRUE, m |-> models]
             /\ \A n \in Nat : f[n + 1] =
                  IF n + 1 \in ids THEN remove_error_from_read_models(f[n], n + 1, ids) ELSE f[n]
             /\ deletion(ids) = f[next_id - 1]
<1> DEFINE s0 == [ok |-> TRUE, m |-> models]
           op(acc, n) == remove_error_from_read_models(acc, n, ids)
           step == [w \in Nat \X Stages |->
                      IF w[1] + 1 \in ids THEN op(w[2], w[1] + 1) ELSE w[2]]
           after == CHOOSE g : g = [n \in Nat |-> IF n = 0 THEN s0
                                    ELSE IF n \in ids THEN op(g[n - 1], n) ELSE g[n - 1]]
<1>1. s0 \in Stages
  BY DEF Stages
<1>2. \A acc \in Stages : \A n \in ids : op(acc, n) \in Stages
  BY TriggerStep
<1>3. deletion(ids) = after[next_id - 1]
  BY DEF deletion
<1> HIDE DEF op, s0
<1>4. step \in [Nat \X Stages -> Stages]
  BY <1>2
<1>5. \A n \in Nat, acc \in Stages :
         step[<<n, acc>>] = IF n + 1 \in ids THEN op(acc, n + 1) ELSE acc
  OBVIOUS
<1> HIDE DEF step
<1>6. PICK f \in [Nat -> Stages] :
        f[0] = s0 /\ \A n \in Nat : f[n + 1] = step[<<n, f[n]>>]
  <2>1. \E f : Orbit(f, Stages, s0, step)
    BY <1>1, <1>4, Recursion
  <2> QED BY <2>1 DEF Orbit
<1>7. \A n \in Nat : f[n + 1] = IF n + 1 \in ids THEN op(f[n], n + 1) ELSE f[n]
  BY <1>5, <1>6
<1>8. ASSUME NEW n \in Nat
      PROVE  f[n] = IF n = 0 THEN s0 ELSE IF n \in ids THEN op(f[n - 1], n) ELSE f[n - 1]
  <2>1. CASE n = 0
    BY <2>1, <1>6
  <2>2. CASE n # 0
    <3>1. n - 1 \in Nat /\ (n - 1) + 1 = n
      BY <2>2
    <3> QED BY <2>2, <3>1, <1>7
  <2> QED BY <2>1, <2>2
<1>9. f = [n \in Nat |-> IF n = 0 THEN s0 ELSE IF n \in ids THEN op(f[n - 1], n) ELSE f[n - 1]]
  BY <1>6, <1>8
<1>10. after = [n \in Nat |-> IF n = 0 THEN s0
                              ELSE IF n \in ids THEN op(after[n - 1], n) ELSE after[n - 1]]
  BY <1>9
<1> HIDE DEF after
<1>11. \A n \in Nat : after[n] = f[n]
  <2> DEFINE U == {n \in Nat : after[n] = f[n]}
  <2>1. 0 \in U
    BY <1>6, <1>10
  <2>2. ASSUME NEW n \in U PROVE n + 1 \in U
    <3>1. n \in Nat /\ after[n] = f[n] /\ n + 1 \in Nat /\ n + 1 # 0 /\ (n + 1) - 1 = n
      OBVIOUS
    <3>2. after[n + 1] = IF n + 1 \in ids THEN op(after[n], n + 1) ELSE after[n]
      BY <3>1, <1>10
    <3> QED BY <3>1, <3>2, <1>7
  <2>3. U \subseteq Nat
    OBVIOUS
  <2> HIDE DEF U
  <2>4. \A n \in Nat : n \in U
    BY <2>1, <2>2, <2>3, SetInduction
  <2> QED BY <2>4 DEF U
<1>12. after = f
  BY <1>6, <1>10, <1>11
<1>13. deletion(ids) = f[next_id - 1]
  BY <1>3, <1>12
<1> QED BY <1>6, <1>7, <1>13 DEF op, s0

\* g[n] is the tally of E after the rows of ids up to n have had their turn.
Thins(g, E, ids, keys, K) ==
    /\ IsFiniteSet(E) /\ E \subseteq Nat /\ ids \subseteq E /\ 0 \notin ids
    /\ g[0] = Tally(E, keys, K)
    /\ \A n \in Nat : g[n + 1] = IF n + 1 \in ids THEN Less(g[n], keys[n + 1]) ELSE g[n]

\* A tally through the stages of a deletion: the rows up to n are out of it.
LEMMA TallyStages ==
    ASSUME NEW E, NEW ids, NEW keys, NEW K, NEW g, Thins(g, E, ids, keys, K)
    PROVE  \A n \in Nat : g[n] = Tally(E \ (ids \cap 1 .. n), keys, K)
<1> DEFINE R(m) == E \ (ids \cap 1 .. m)
           U == {m \in Nat : g[m] = Tally(R(m), keys, K)}
<1>0. IsFiniteSet(E) /\ E \subseteq Nat /\ ids \subseteq E /\ 0 \notin ids
  BY DEF Thins
<1>1. 0 \in U
  <2>1. R(0) = E /\ g[0] = Tally(E, keys, K)
    BY DEF Thins
  <2> QED BY <2>1
<1>2. ASSUME NEW m \in U PROVE m + 1 \in U
  <2>1. m \in Nat /\ m + 1 \in Nat /\ g[m] = Tally(R(m), keys, K)
    OBVIOUS
  <2>2. IsFiniteSet(R(m))
    BY <1>0, FS_Difference
  <2>3. CASE m + 1 \in ids
    <3>1. m + 1 \in R(m) /\ R(m + 1) = R(m) \ {m + 1}
      BY <1>0, <2>1, <2>3
    <3>2. g[m + 1] = Less(g[m], keys[m + 1])
      BY <2>1, <2>3 DEF Thins
    <3> HIDE DEF R
    <3>3. Less(Tally(R(m), keys, K), keys[m + 1]) = Tally(R(m) \ {m + 1}, keys, K)
      BY <2>2, <3>1, TallyLess
    <3> QED BY <2>1, <3>1, <3>2, <3>3
  <2>4. CASE m + 1 \notin ids
    <3>1. R(m + 1) = R(m)
      BY <2>1, <2>4
    <3>2. g[m + 1] = g[m]
      BY <2>1, <2>4 DEF Thins
    <3> QED BY <2>1, <3>1, <3>2
  <2> QED BY <2>3, <2>4
<1>3. U \subseteq Nat
  OBVIOUS
<1> HIDE DEF U
<1>4. \A n \in Nat : n \in U
  BY <1>1, <1>2, <1>3, SetInduction
<1> QED BY <1>4 DEF U

\* A summary in the middle of a deletion, rem being the rows whose turn has
\* not come and left those that stay: it has the ends of the former until one
\* of them goes, then those of the latter.
Midway(s, rem, left) ==
    IF rem = {} THEN s = NoRow
    ELSE /\ s \in Summaries /\ s.count = Cardinality(rem)
         /\ EndsOf(s, errors, rem) \/ (left # {} /\ EndsOf(s, errors, left))

\* One turn of the trigger, from one row to the next.
LEMMA TriggerMidway ==
    ASSUME IsTable(errors), NEW rem \in SUBSET DOMAIN errors, NEW left \in SUBSET rem,
           NEW id \in rem \ left, NEW s, Midway(s, rem, left), ~null_end(s, id, left)
    PROVE  Midway(less_summary(s, id, left), rem \ {id}, left)
<1> DEFINE r == less_summary(s, id, left)
           now_left == rem \ {id}
<1>1. /\ s \in Summaries /\ s.count = Cardinality(rem)
      /\ EndsOf(s, errors, rem) \/ (left # {} /\ EndsOf(s, errors, left))
  BY DEF Midway
<1>2. IsFiniteSet(rem) /\ Cardinality(rem) \in Nat
  BY FS_Subset, FS_CardinalityType DEF IsTable
<1>3. IsFiniteSet(now_left) /\ Cardinality(now_left) = Cardinality(rem) - 1
  BY <1>2, FS_RemoveElement
<1>4. s # NoRow
  BY <1>1, TelemetryAssumption
<1>5. CASE s.count <= 1
  <2>1. r = NoRow
    BY <1>5 DEF less_summary
  <2>2. Cardinality(now_left) \in Nat
    BY <1>3, FS_CardinalityType
  <2>3. Cardinality(now_left) = 0
    BY <1>1, <1>2, <1>3, <1>5, <2>2
  <2>4. now_left = {}
    BY <1>3, <2>3, FS_EmptySet
  <2> QED BY <2>1, <2>4 DEF Midway
<1>6. CASE ~(s.count <= 1)
  <2>1. s.count \in Nat /\ s.count > 1
    BY <1>1, <1>2, <1>6
  <2>2. left \in SUBSET DOMAIN errors
    OBVIOUS
  <2>3. /\ r \in Summaries /\ r.count = s.count - 1
        /\ id \in {s.first, s.last} /\ left # {} => EndsOf(r, errors, left)
        /\ ~(id \in {s.first, s.last} /\ left # {}) =>
              /\ r.first = s.first /\ r.last = s.last
              /\ r.first_seen = s.first_seen /\ r.last_seen = s.last_seen
    BY <1>1, <1>4, <2>1, <2>2, LessSummary
  <2> HIDE DEF r
  <2>4. r.count = Cardinality(now_left)
    BY <1>1, <1>3, <2>3
  <2>5. now_left # {}
    <3>1. Cardinality(now_left) # 0
      BY <1>1, <1>3, <2>1
    <3> QED BY <3>1, FS_EmptySet
  <2>6. EndsOf(r, errors, now_left) \/ (left # {} /\ EndsOf(r, errors, left))
    <3>1. CASE id \in {s.first, s.last}
      <4>1. left # {}
        BY <3>1, <1>4, <2>1 DEF null_end
      <4> QED BY <3>1, <4>1, <2>3
    <3>2. CASE id \notin {s.first, s.last}
      <4>1. /\ r.first = s.first /\ r.last = s.last
            /\ r.first_seen = s.first_seen /\ r.last_seen = s.last_seen
        BY <3>2, <2>3
      <4>2. CASE EndsOf(s, errors, rem)
        <5>1. EndsOf(r, errors, now_left)
          BY <3>2, <4>1, <4>2 DEF EndsOf
        <5> QED BY <5>1
      <4>3. CASE left # {} /\ EndsOf(s, errors, left)
        <5>1. EndsOf(r, errors, left)
          BY <4>1, <4>3 DEF EndsOf
        <5> QED BY <4>3, <5>1
      <4> QED BY <1>1, <4>2, <4>3
    <3> QED BY <3>1, <3>2
  <2> QED BY <2>3, <2>4, <2>5, <2>6 DEF Midway, r
<1> QED BY <1>5, <1>6

\* The outcome of a DELETE: what was exact of the rows before it is exact of
\* the rows that stay, unless it aborts.
LEMMA DeletionIsExact ==
    ASSUME Bucketed, models \in Tables, next_id \in Nat \ {0},
           DOMAIN errors \subseteq 1 .. (next_id - 1), NEW ids \in SUBSET DOMAIN errors
    PROVE  LET d == deletion(ids)
               R == DOMAIN errors \ ids
               wk == WindowKeys(errors, BuildOf(errors))
           IN  /\ d \in Stages
               /\ models.app_context_counts = Tally(DOMAIN errors, AppKeys(errors), Dimensions)
                    => d.m.app_context_counts = Tally(R, AppKeys(errors), Dimensions)
               /\ models.bucket_context_counts
                      = Tally(DOMAIN errors, BucketKeys(errors), Buckets \X Dimensions)
                    => d.m.bucket_context_counts
                         = Tally(R, BucketKeys(errors), Buckets \X Dimensions)
               /\ models.bucket_windows = Tally(DOMAIN errors, wk, WindowDomain)
                    => d.m.bucket_windows = Tally(R, wk, WindowDomain)
               /\ d.ok /\ (\A b \in Buckets :
                             Good(models.bucket_summaries[b], errors, In(errors, b)))
                    => \A b \in Buckets :
                         Good(d.m.bucket_summaries[b], errors, In(errors, b) \ ids)
<1> DEFINE d == deletion(ids)
           E == DOMAIN errors
           R == E \ ids
           wk == WindowKeys(errors, BuildOf(errors))
           top == next_id - 1
<1>1. PICK f \in [Nat -> Stages] :
        /\ f[0] = [ok |-> TRUE, m |-> models]
        /\ \A n \in Nat : f[n + 1] =
             IF n + 1 \in ids THEN remove_error_from_read_models(f[n], n + 1, ids) ELSE f[n]
        /\ d = f[next_id - 1]
  BY DeletionStages
<1>2. /\ IsFiniteSet(E) /\ E \subseteq Nat /\ 0 \notin ids /\ top \in Nat
      /\ E \ (ids \cap 1 .. top) = R
  BY DEF Bucketed, IsTable
<1>3. f[0].m = models /\ d = f[top] /\ d \in Stages
  BY <1>1, <1>2
<1>4. ASSUME NEW n \in Nat, n + 1 \in ids
      PROVE  Fired(f[n + 1], f[n], n + 1, ids)
  <2>1. f[n] \in Stages /\ f[n + 1] = remove_error_from_read_models(f[n], n + 1, ids)
    BY <1>1, <1>4
  <2> QED BY <2>1, <1>4, TriggerStep
<1>5. \A n \in Nat : n + 1 \notin ids => f[n + 1] = f[n]
  BY <1>1
<1>10. ASSUME NEW n \in Nat, n + 1 \in ids
       PROVE  /\ f[n + 1].m.bucket_windows = Less(f[n].m.bucket_windows, wk[n + 1])
              /\ f[n + 1].m.app_context_counts
                   = Less(f[n].m.app_context_counts, AppKeys(errors)[n + 1])
              /\ f[n + 1].m.bucket_context_counts
                   = Less(f[n].m.bucket_context_counts, BucketKeys(errors)[n + 1])
  <2>1. Fired(f[n + 1], f[n], n + 1, ids)
    BY <1>4, <1>10
  <2> QED BY <2>1 DEF Fired
<1> HIDE DEF d, E, R, wk, top
<1>a. ids \in SUBSET E
  BY DEF E
<1>6. ASSUME models.app_context_counts = Tally(E, AppKeys(errors), Dimensions)
      PROVE  d.m.app_context_counts = Tally(R, AppKeys(errors), Dimensions)
  <2> DEFINE g == [n \in Nat |-> f[n].m.app_context_counts]
             keys == AppKeys(errors)
  <2>1. g[0] = Tally(E, keys, Dimensions)
    BY <1>3, <1>6
  <2>2. \A n \in Nat : g[n + 1] = IF n + 1 \in ids THEN Less(g[n], keys[n + 1]) ELSE g[n]
    <3>0. \A n \in Nat : /\ n + 1 \in Nat /\ g[n] = f[n].m.app_context_counts
                         /\ g[n + 1] = f[n + 1].m.app_context_counts
      OBVIOUS
    <3> HIDE DEF g
    <3>1. \A n \in Nat : n + 1 \in ids => g[n + 1] = Less(g[n], keys[n + 1])
      BY <3>0, <1>10
    <3> QED BY <3>0, <1>5, <3>1
  <2>3. g[top] = d.m.app_context_counts
    BY <1>2, <1>3
  <2> HIDE DEF g, keys
  <2>4. g[top] = Tally(E \ (ids \cap 1 .. top), keys, Dimensions)
    <3>1. Thins(g, E, ids, keys, Dimensions)
      BY <1>2, <1>a, <2>1, <2>2 DEF Thins
    <3>2. \A n \in Nat : g[n] = Tally(E \ (ids \cap 1 .. n), keys, Dimensions)
      BY <3>1, TallyStages
    <3> QED BY <1>2, <3>2
  <2> QED BY <1>2, <2>3, <2>4 DEF keys
<1>7. ASSUME models.bucket_context_counts = Tally(E, BucketKeys(errors), Buckets \X Dimensions)
      PROVE  d.m.bucket_context_counts = Tally(R, BucketKeys(errors), Buckets \X Dimensions)
  <2> DEFINE g == [n \in Nat |-> f[n].m.bucket_context_counts]
             keys == BucketKeys(errors)
             K == Buckets \X Dimensions
  <2>1. g[0] = Tally(E, keys, K)
    BY <1>3, <1>7
  <2>2. \A n \in Nat : g[n + 1] = IF n + 1 \in ids THEN Less(g[n], keys[n + 1]) ELSE g[n]
    <3>0. \A n \in Nat : /\ n + 1 \in Nat /\ g[n] = f[n].m.bucket_context_counts
                         /\ g[n + 1] = f[n + 1].m.bucket_context_counts
      OBVIOUS
    <3> HIDE DEF g
    <3>1. \A n \in Nat : n + 1 \in ids => g[n + 1] = Less(g[n], keys[n + 1])
      BY <3>0, <1>10
    <3> QED BY <3>0, <1>5, <3>1
  <2>3. g[top] = d.m.bucket_context_counts
    BY <1>2, <1>3
  <2> HIDE DEF g, keys, K
  <2>4. g[top] = Tally(E \ (ids \cap 1 .. top), keys, K)
    <3>1. Thins(g, E, ids, keys, K)
      BY <1>2, <1>a, <2>1, <2>2 DEF Thins
    <3>2. \A n \in Nat : g[n] = Tally(E \ (ids \cap 1 .. n), keys, K)
      BY <3>1, TallyStages
    <3> QED BY <1>2, <3>2
  <2> QED BY <1>2, <2>3, <2>4 DEF keys, K
<1>8. ASSUME models.bucket_windows = Tally(E, wk, WindowDomain)
      PROVE  d.m.bucket_windows = Tally(R, wk, WindowDomain)
  <2> DEFINE g == [n \in Nat |-> f[n].m.bucket_windows]
  <2>1. g[0] = Tally(E, wk, WindowDomain)
    BY <1>3, <1>8
  <2>2. \A n \in Nat : g[n + 1] = IF n + 1 \in ids THEN Less(g[n], wk[n + 1]) ELSE g[n]
    <3>0. \A n \in Nat : /\ n + 1 \in Nat /\ g[n] = f[n].m.bucket_windows
                         /\ g[n + 1] = f[n + 1].m.bucket_windows
      OBVIOUS
    <3> HIDE DEF g
    <3>1. \A n \in Nat : n + 1 \in ids => g[n + 1] = Less(g[n], wk[n + 1])
      BY <3>0, <1>10
    <3> QED BY <3>0, <1>5, <3>1
  <2>3. g[top] = d.m.bucket_windows
    BY <1>2, <1>3
  <2> HIDE DEF g
  <2>4. g[top] = Tally(E \ (ids \cap 1 .. top), wk, WindowDomain)
    <3>1. Thins(g, E, ids, wk, WindowDomain)
      BY <1>2, <1>a, <2>1, <2>2 DEF Thins
    <3>2. \A n \in Nat : g[n] = Tally(E \ (ids \cap 1 .. n), wk, WindowDomain)
      BY <3>1, TallyStages
    <3> QED BY <1>2, <3>2
  <2> QED BY <1>2, <2>3, <2>4
<1>9. ASSUME d.ok, \A b \in Buckets : Good(models.bucket_summaries[b], errors, In(errors, b)),
             NEW b \in Buckets
      PROVE  Good(d.m.bucket_summaries[b], errors, In(errors, b) \ ids)
  <2> DEFINE rem(n) == In(errors, b) \ (ids \cap 1 .. n)
             left == In(errors, b) \ ids
             sum(n) == f[n].m.bucket_summaries[b]
             U == {n \in Nat : f[n].ok => Midway(sum(n), rem(n), left)}
  <2>0. In(errors, b) \subseteq E /\ left \subseteq In(errors, b) /\ IsTable(errors)
    BY DEF In, E, Bucketed
  <2>1. 0 \in U
    <3>1. rem(0) = In(errors, b)
      OBVIOUS
    <3>2. sum(0) = models.bucket_summaries[b]
      BY <1>3
    <3> HIDE DEF rem, sum, left
    <3>3. Midway(sum(0), rem(0), left)
      BY <1>9, <3>1, <3>2 DEF Good, Midway
    <3> QED BY <3>3
  <2>2. ASSUME NEW n \in U PROVE n + 1 \in U
    <3>1. n \in Nat /\ n + 1 \in Nat /\ (f[n].ok => Midway(sum(n), rem(n), left))
      OBVIOUS
    <3> SUFFICES ASSUME f[n + 1].ok PROVE Midway(sum(n + 1), rem(n + 1), left)
      BY <3>1
    <3>2. CASE n + 1 \notin ids
      <4>1. f[n + 1] = f[n] /\ rem(n + 1) = rem(n)
        BY <3>1, <3>2, <1>5
      <4> QED BY <3>1, <4>1
    <3>3. CASE n + 1 \in ids /\ errors[n + 1].bucket_id # b
      <4>1. n + 1 \notin In(errors, b)
        BY <3>3 DEF In
      <4>2. rem(n + 1) = rem(n)
        BY <3>1, <4>1
      <4>3. f[n + 1].ok => f[n].ok
        BY <3>1, <3>3, <1>4 DEF Fired
      <4>4. sum(n + 1) = sum(n)
        <5> DEFINE c == errors[n + 1].bucket_id
                   F == f[n].m.bucket_summaries
        <5>1. F \in [Buckets -> Summaries \cup {NoRow}]
          BY <1>1, <3>1 DEF Stages, Tables
        <5>2. PICK x : f[n + 1].m.bucket_summaries = [F EXCEPT ![c] = x]
          BY <3>1, <3>3, <1>4 DEF Fired
        <5> HIDE DEF F
        <5>3. f[n + 1].m.bucket_summaries[b] = F[b]
          BY <5>1, <5>2, <3>3
        <5> QED BY <5>3 DEF F
      <4> QED BY <3>1, <4>2, <4>3, <4>4
    <3>4. CASE n + 1 \in ids /\ errors[n + 1].bucket_id = b
      <4>1. n + 1 \in In(errors, b)
        BY <3>4 DEF In
      <4>2. n + 1 \in rem(n) \ left /\ rem(n + 1) = rem(n) \ {n + 1}
        BY <3>1, <3>4, <4>1
      <4>3. rem(n) \in SUBSET DOMAIN errors /\ left \in SUBSET rem(n)
        BY <2>0 DEF E
      <4>4. f[n].ok /\ ~null_end(sum(n), n + 1, left)
        BY <3>1, <3>4, <1>4 DEF Fired
      <4>5. sum(n + 1) = less_summary(sum(n), n + 1, left)
        <5> DEFINE F == f[n].m.bucket_summaries
                   x == less_summary(sum(n), n + 1, left)
        <5>1. F \in [Buckets -> Summaries \cup {NoRow}]
          BY <1>1, <3>1 DEF Stages, Tables
        <5>2. f[n + 1].m.bucket_summaries = [F EXCEPT ![b] = x]
          BY <3>1, <3>4, <1>4 DEF Fired
        <5> HIDE DEF F, x
        <5>3. f[n + 1].m.bucket_summaries[b] = x
          BY <5>1, <5>2
        <5> QED BY <5>3 DEF x
      <4>6. Midway(sum(n), rem(n), left)
        BY <3>1, <4>4
      <4> HIDE DEF rem, left, sum
      <4>7. Midway(less_summary(sum(n), n + 1, left), rem(n) \ {n + 1}, left)
        BY <2>0, <4>2, <4>3, <4>4, <4>6, TriggerMidway
      <4> QED BY <4>2, <4>5, <4>7
    <3> QED BY <3>2, <3>3, <3>4
  <2>3. U \subseteq Nat
    OBVIOUS
  <2>4. top \in U
    <3> HIDE DEF U
    <3> QED BY <1>2, <2>1, <2>2, <2>3, SetInduction
  <2>5. rem(top) = left
    BY <1>2, <2>0 DEF E, R
  <2>6. Midway(d.m.bucket_summaries[b], left, left)
    BY <1>3, <1>9, <2>4, <2>5
  <2> HIDE DEF left
  <2>7. Good(d.m.bucket_summaries[b], errors, left)
    BY <2>6 DEF Midway, Good
  <2> QED BY <2>7 DEF left
<1> QED BY <1>3, <1>6, <1>7, <1>8, <1>9 DEF d, E, R, wk

-----------------------------------------------------------------------------
(* The read models: the parts of the inductive invariant. *)

Zero(K) == [k \in K |-> 0]

AppTally(tbl) == Tally(DOMAIN tbl, AppKeys(tbl), Dimensions)
BucketTally(tbl) == Tally(DOMAIN tbl, BucketKeys(tbl), Buckets \X Dimensions)
WindowTally(tbl) == Tally(DOMAIN tbl, WindowKeys(tbl, BuildOf(tbl)), WindowDomain)

\* The rows have the ids the serial has given out.
TableTypes ==
    /\ next_id \in Nat \ {0} /\ DOMAIN errors \subseteq 1 .. (next_id - 1)
    /\ IsTable(errors) /\ models \in Tables

\* Requests are served once the schema is in place, and every row has its
\* bucket then.
ServedAfterMigration ==
    /\ migration \in {"todo", "backfill", "done"}
    /\ migration # "done" => inflight = {} /\ clearing = NoRow
    /\ migration = "done" => Bucketed

\* The models of m are those of the table tbl.
BucketsExact(m, tbl) ==
    /\ \A b \in Buckets : Good(m.bucket_summaries[b], tbl, In(tbl, b))
    /\ m.bucket_context_counts = BucketTally(tbl)

BucketsEmpty(m) ==
    /\ \A b \in Buckets : m.bucket_summaries[b] = NoRow
    /\ m.bucket_windows = Zero(WindowDomain)
    /\ m.bucket_context_counts = Zero(Buckets \X Dimensions)

\* Until the migration is done a model is empty or complete: the first pass
\* finds either all rows without a bucket or none, unless one was interrupted
\* between two updates of the backfill.
EmptyOrExact ==
    /\ models.app_context_counts \in {Zero(Dimensions), AppTally(errors)}
    /\ \/ BucketsEmpty(models)
       \/ /\ Unbucketed = {} /\ BucketsExact(models, errors)
          /\ models.bucket_windows = WindowTally(errors)
    /\ migration = "todo" => Unbucketed \in {{}, DOMAIN errors}
    /\ migration = "backfill" => models.app_context_counts = AppTally(errors)

\* Afterwards they are exact, the windows as long as the data is coherent.
AllExact ==
    /\ models.app_context_counts = AppTally(errors)
    /\ BucketsExact(models, errors)
    /\ CoherentData => models.bucket_windows = WindowTally(errors)

\* The inductive invariant.
ModelsInv ==
    /\ TableTypes /\ ServedAfterMigration
    /\ ~cut => IF migration = "done" THEN AllExact ELSE EmptyOrExact

-----------------------------------------------------------------------------
(* The migration. *)

\* Rows that count for no key of the table leave it empty.
LEMMA TallyNone ==
    ASSUME NEW R, NEW keys, NEW K, \A i \in R : keys[i] \cap K = {}
    PROVE  Tally(R, keys, K) = Zero(K)
<1>1. ASSUME NEW k \in K PROVE Count({i \in R : k \in keys[i]}) = 0
  <2>1. {i \in R : k \in keys[i]} = {}
    OBVIOUS
  <2> QED BY <2>1, FS_EmptySet DEF Count
<1>2. [k \in K |-> Count({i \in R : k \in keys[i]})] = [k \in K |-> 0]
  BY <1>1, Zenon
<1> QED BY <1>2 DEF Tally, Zero

\* ON CONFLICT DO NOTHING completes a table that is empty or complete.
LEMMA KeepCompletes ==
    ASSUME NEW K, NEW g \in [K -> Nat], NEW f \in {Zero(K), g}
    PROVE  Keep(f, g) = g
<1>1. CASE f = Zero(K)
  <2>1. DOMAIN f = K /\ \A k \in K : f[k] = 0
    BY <1>1 DEF Zero
  <2> QED BY <2>1 DEF Keep
<1>2. CASE f = g
  <2>1. \A k \in K : (IF g[k] = 0 THEN g[k] ELSE g[k]) = g[k]
    OBVIOUS
  <2> QED BY <1>2, <2>1 DEF Keep
<1> QED BY <1>1, <1>2

\* Rows without a bucket leave the tables of the buckets empty.
LEMMA NoBucketNoModel ==
    ASSUME Unbucketed = DOMAIN errors
    PROVE  /\ \A b \in Buckets : In(errors, b) = {}
           /\ WindowTally(errors) = Zero(WindowDomain)
           /\ BucketTally(errors) = Zero(Buckets \X Dimensions)
<1>1. \A i \in DOMAIN errors : errors[i].bucket_id = NoBucket
  BY DEF Unbucketed
<1>2. NoBucket \notin Buckets
  BY TelemetryAssumption
<1>3. \A i \in DOMAIN errors : BucketKeys(errors)[i] \cap (Buckets \X Dimensions) = {}
  <2> SUFFICES ASSUME NEW i \in DOMAIN errors, NEW k \in Buckets \X Dimensions,
                      k \in BucketKeys(errors)[i]
               PROVE  FALSE
    OBVIOUS
  <2>1. BucketKeys(errors)[i] = {NoBucket} \X dimension_values(errors[i].ctx)
    BY <1>1 DEF BucketKeys
  <2>2. k[1] = NoBucket /\ k[1] \in Buckets
    BY <2>1
  <2> QED BY <2>2, <1>2
<1>4. \A i \in DOMAIN errors : WindowKeys(errors, BuildOf(errors))[i] \cap WindowDomain = {}
  <2> SUFFICES ASSUME NEW i \in DOMAIN errors, NEW k \in WindowDomain,
                      k \in WindowKeys(errors, BuildOf(errors))[i]
               PROVE  FALSE
    OBVIOUS
  <2>1. k = <<NoBucket, hour(errors[i].at), BuildOf(errors)[i]>>
    BY <1>1 DEF WindowKeys
  <2> HIDE DEF hour
  <2>2. k[1] = NoBucket
    BY <2>1
  <2>3. k[1] \in Buckets
    BY DEF WindowDomain
  <2> QED BY <2>2, <2>3, <1>2
<1>5. \A b \in Buckets : In(errors, b) = {}
  BY <1>1, <1>2 DEF In
<1>6. WindowTally(errors) = Zero(WindowDomain)
  BY <1>4, TallyNone DEF WindowTally
<1>7. BucketTally(errors) = Zero(Buckets \X Dimensions)
  BY <1>3, TallyNone DEF BucketTally
<1> QED BY <1>5, <1>6, <1>7

\* The tables of a table of errors have their types.
LEMMA TallyTypes ==
    ASSUME NEW tbl, IsTable(tbl)
    PROVE  /\ AppTally(tbl) \in [Dimensions -> Nat]
           /\ BucketTally(tbl) \in [Buckets \X Dimensions -> Nat]
           /\ WindowTally(tbl) \in [WindowDomain -> Nat]
BY TallyType DEF IsTable, AppTally, BucketTally, WindowTally

\* The aggregate of a table consists of its tallies.
LEMMA BuiltTallies ==
    ASSUME NEW tbl
    PROVE  /\ Built(tbl).bucket_summaries = [b \in Buckets |-> summary_of(tbl, In(tbl, b))]
           /\ Built(tbl).bucket_windows = WindowTally(tbl)
           /\ Built(tbl).app_context_counts = AppTally(tbl)
           /\ Built(tbl).bucket_context_counts = BucketTally(tbl)
BY AggregateTallies DEF Built, WindowTally, AppTally, BucketTally

\* A summary is a row or none.
LEMMA GoodType ==
    ASSUME NEW s, NEW tbl, NEW ids, Good(s, tbl, ids)
    PROVE  s \in Summaries \cup {NoRow}
BY DEF Good

\* A pass of the schema script over models that are empty or complete, on a
\* table whose rows have all their bucket or none has it.
LEMMA ScriptCompletes ==
    ASSUME TableTypes, EmptyOrExact, Unbucketed \in {{}, DOMAIN errors}, schema_script,
           UNCHANGED <<errors, next_id>>
    PROVE  /\ models'.app_context_counts = AppTally(errors)
           /\ BucketsExact(models', errors)
           /\ models'.bucket_windows = WindowTally(errors)
           /\ Unbucketed = {} \/ BucketsEmpty(models')
<1> DEFINE b0 == Built(errors)
           bs == [b \in Buckets |-> IF models.bucket_summaries[b] = NoRow
                                    THEN b0.bucket_summaries[b] ELSE models.bucket_summaries[b]]
           bw == Keep(models.bucket_windows, b0.bucket_windows)
           ac == Keep(models.app_context_counts, b0.app_context_counts)
           bc == Keep(models.bucket_context_counts, b0.bucket_context_counts)
<1>1. models' = [bucket_summaries |-> bs, bucket_windows |-> bw,
                 app_context_counts |-> ac, bucket_context_counts |-> bc]
  BY DEF schema_script, insert_missing
<1>2. IsTable(errors) /\ models \in Tables
  BY DEF TableTypes
<1>3. /\ b0.bucket_summaries = [b \in Buckets |-> summary_of(errors, In(errors, b))]
      /\ b0.bucket_windows = WindowTally(errors)
      /\ b0.app_context_counts = AppTally(errors)
      /\ b0.bucket_context_counts = BucketTally(errors)
  BY BuiltTallies
<1>4. /\ AppTally(errors) \in [Dimensions -> Nat]
      /\ BucketTally(errors) \in [Buckets \X Dimensions -> Nat]
      /\ WindowTally(errors) \in [WindowDomain -> Nat]
  BY <1>2, TallyTypes
<1>5. /\ models.app_context_counts \in {Zero(Dimensions), AppTally(errors)}
      /\ models.bucket_windows \in {Zero(WindowDomain), WindowTally(errors)}
      /\ models.bucket_context_counts \in {Zero(Buckets \X Dimensions), BucketTally(errors)}
  BY DEF EmptyOrExact, BucketsEmpty, BucketsExact
<1>6. ac = AppTally(errors) /\ bw = WindowTally(errors) /\ bc = BucketTally(errors)
  <2> HIDE DEF b0
  <2> QED BY <1>3, <1>4, <1>5, KeepCompletes
<1>7. ASSUME NEW b \in Buckets PROVE Good(bs[b], errors, In(errors, b))
  <2>1. In(errors, b) \in SUBSET DOMAIN errors
    BY DEF In
  <2>2. Good(b0.bucket_summaries[b], errors, In(errors, b))
    BY <1>2, <1>3, <2>1, ScanIsGood
  <2>3. models.bucket_summaries[b] = NoRow \/ Good(models.bucket_summaries[b], errors, In(errors, b))
    BY DEF EmptyOrExact, BucketsEmpty, BucketsExact
  <2> QED BY <2>2, <2>3
<1> HIDE DEF bs, bw, ac, bc, b0
<1>8. /\ models'.bucket_summaries = bs /\ models'.bucket_windows = bw
      /\ models'.app_context_counts = ac /\ models'.bucket_context_counts = bc
  BY <1>1
<1>12. BucketsExact(models', errors)
  BY <1>6, <1>7, <1>8 DEF BucketsExact
<1>13. ASSUME Unbucketed # {} PROVE BucketsEmpty(models')
  <2>1. /\ \A b \in Buckets : In(errors, b) = {}
        /\ WindowTally(errors) = Zero(WindowDomain)
        /\ BucketTally(errors) = Zero(Buckets \X Dimensions)
    BY <1>13, NoBucketNoModel
  <2>2. \A b \in Buckets : bs[b] = NoRow
    BY <1>7, <2>1 DEF Good
  <2> QED BY <1>6, <1>8, <2>1, <2>2 DEF BucketsEmpty
<1> QED BY <1>6, <1>8, <1>12, <1>13

\* One update of the backfill gives a row its bucket and changes nothing else.
LEMMA BackfillStep ==
    ASSUME TableTypes, backfill_missing_bucket_ids
    PROVE  /\ TableTypes' /\ (EmptyOrExact => EmptyOrExact')
           /\ DOMAIN errors' = DOMAIN errors
           /\ \A j \in DOMAIN errors : errors'[j].ctx = errors[j].ctx /\ errors'[j].at = errors[j].at
<1> DEFINE i == Min(Unbucketed)
           row == [errors[i] EXCEPT !.bucket_id = errors[i].identity]
<1>1. /\ migration = "backfill" /\ Unbucketed # {}
      /\ errors' = [errors EXCEPT ![i] = row]
      /\ UNCHANGED <<migration, next_id, models>>
  BY DEF backfill_missing_bucket_ids, bucket_id
<1>2. IsTable(errors) /\ Unbucketed \in SUBSET DOMAIN errors
  BY DEF TableTypes, Unbucketed
<1>3. i \in Unbucketed /\ i \in DOMAIN errors
  <2>1. IsFiniteSet(Unbucketed) /\ Unbucketed \in SUBSET Nat
    BY <1>2, FS_Subset DEF IsTable
  <2>2. i \in Unbucketed
    BY <1>1, <2>1, Ends
  <2> QED BY <1>2, <2>2
<1>4. errors[i] \in Row
  BY <1>2, <1>3 DEF IsTable
<1> HIDE DEF i
<1>5. row \in Row /\ row.ctx = errors[i].ctx /\ row.at = errors[i].at
  BY <1>4 DEF Row
<1> HIDE DEF row
<1>6. DOMAIN errors' = DOMAIN errors
  BY <1>1
<1>7. errors \in [DOMAIN errors -> Row]
  BY <1>2 DEF IsTable
<1>8. errors' \in [DOMAIN errors -> Row]
  BY <1>1, <1>5, <1>7
<1>9. \A j \in DOMAIN errors : errors'[j].ctx = errors[j].ctx /\ errors'[j].at = errors[j].at
  BY <1>1, <1>3, <1>5, <1>7
<1>10. TableTypes'
  BY <1>1, <1>2, <1>6, <1>8 DEF TableTypes, IsTable
<1>11. AppTally(errors)' = AppTally(errors)
  <2>1. \A j \in DOMAIN errors : AppKeys(errors)'[j] = AppKeys(errors)[j]
    BY <1>6, <1>9 DEF AppKeys
  <2>2. Tally(DOMAIN errors, AppKeys(errors)', Dimensions)
          = Tally(DOMAIN errors, AppKeys(errors), Dimensions)
    BY <2>1, TallySame
  <2> QED BY <1>6, <2>2 DEF AppTally
<1>12. ASSUME EmptyOrExact PROVE EmptyOrExact'
  <2>1. BucketsEmpty(models)
    BY <1>1, <1>12 DEF EmptyOrExact
  <2>2. BucketsEmpty(models')
    BY <1>1, <2>1
  <2>3. migration' = "backfill" /\ models'.app_context_counts = AppTally(errors)
    BY <1>1, <1>12 DEF EmptyOrExact
  <2> QED BY <1>11, <2>2, <2>3 DEF EmptyOrExact
<1> QED BY <1>6, <1>9, <1>10, <1>12

\* The models before the first pass: those of no rows.
LEMMA EmptyModels ==
    /\ Empty \in Tables /\ BucketsEmpty(Empty)
    /\ Empty.app_context_counts = Zero(Dimensions)
<1> DEFINE none == <<>>
<1>1. DOMAIN none = {} /\ \A b \in Buckets : In(none, b) = {}
  BY DEF In
<1>2. /\ Empty.bucket_summaries = [b \in Buckets |-> summary_of(none, In(none, b))]
      /\ Empty.bucket_windows = WindowTally(none)
      /\ Empty.app_context_counts = AppTally(none)
      /\ Empty.bucket_context_counts = BucketTally(none)
  BY BuiltTallies DEF Empty
<1>3. Empty = [bucket_summaries |-> Empty.bucket_summaries,
               bucket_windows |-> Empty.bucket_windows,
               app_context_counts |-> Empty.app_context_counts,
               bucket_context_counts |-> Empty.bucket_context_counts]
  BY DEF Empty, Built, aggregate
<1> HIDE DEF none
<1>4. /\ WindowTally(none) = Zero(WindowDomain)
      /\ AppTally(none) = Zero(Dimensions)
      /\ BucketTally(none) = Zero(Buckets \X Dimensions)
  BY <1>1, TallyNone DEF WindowTally, AppTally, BucketTally
<1>5. \A b \in Buckets : summary_of(none, In(none, b)) = NoRow
  BY <1>1 DEF summary_of
<1>6. Empty.bucket_summaries \in [Buckets -> Summaries \cup {NoRow}]
      /\ \A b \in Buckets : Empty.bucket_summaries[b] = NoRow
  BY <1>2, <1>5
<1>7. Empty \in Tables
  BY <1>2, <1>3, <1>4, <1>6 DEF Tables, Zero
<1> QED BY <1>2, <1>4, <1>6, <1>7 DEF BucketsEmpty

\* Before the migration there are rows and no models.
LEMMA ModelsInit == Init => ModelsInv
<1> SUFFICES ASSUME Init PROVE ModelsInv
  OBVIOUS
<1>1. /\ migration = "todo" /\ errors = [i \in 1 .. Len(Legacy) |-> Legacy[i]]
      /\ next_id = Len(Legacy) + 1 /\ models = Empty /\ inflight = {} /\ clearing = NoRow
  BY DEF Init
<1>2. Legacy \in Seq(LegacyRows) /\ Len(Legacy) \in Nat
  BY TelemetryAssumption
<1>3. DOMAIN errors = 1 .. Len(Legacy) /\ \A i \in DOMAIN errors : errors[i] \in LegacyRows
  BY <1>1, <1>2
<1>4. \A i \in DOMAIN errors : errors[i] \in Row /\ errors[i].bucket_id = NoBucket
  BY <1>3 DEF LegacyRows, Row
<1>5. errors \in [DOMAIN errors -> Row]
  BY <1>1, <1>3, <1>4
<1>6. IsFiniteSet(DOMAIN errors)
  <2>1. IsFiniteSet(1 .. Len(Legacy))
    BY <1>2, FS_Interval
  <2> QED BY <1>3, <2>1
<1>7. IsTable(errors)
  BY <1>3, <1>5, <1>6 DEF IsTable
<1>8. next_id \in Nat \ {0} /\ DOMAIN errors \subseteq 1 .. (next_id - 1)
  BY <1>1, <1>2, <1>3
<1>9. TableTypes
  BY <1>1, <1>7, <1>8, EmptyModels DEF TableTypes
<1>10. Unbucketed = DOMAIN errors
  BY <1>4 DEF Unbucketed
<1>11. EmptyOrExact
  BY <1>1, <1>10, EmptyModels DEF EmptyOrExact
<1> QED BY <1>1, <1>9, <1>11 DEF ModelsInv, ServedAfterMigration

-----------------------------------------------------------------------------
(* A commit. *)

\* A table that is another one and some rows of its own.
Extends(all, tbl, new) ==
    /\ DOMAIN all = DOMAIN tbl \cup DOMAIN new /\ DOMAIN tbl \cap DOMAIN new = {}
    /\ \A i \in DOMAIN tbl : all[i] = tbl[i]
    /\ \A i \in DOMAIN new : all[i] = new[i]

\* A tally of the old rows and one of the new rows make one of all rows, if
\* the keys of a row stay the same.
LEMMA TallyExtends ==
    ASSUME NEW all, NEW tbl, NEW new, Extends(all, tbl, new), IsTable(tbl), IsTable(new),
           NEW K, NEW ka, NEW kt, NEW kn,
           \A i \in DOMAIN tbl : kt[i] = ka[i], \A i \in DOMAIN new : kn[i] = ka[i]
    PROVE  Add(Tally(DOMAIN tbl, kt, K), Tally(DOMAIN new, kn, K)) = Tally(DOMAIN all, ka, K)
<1>1. Tally(DOMAIN tbl, kt, K) = Tally(DOMAIN tbl, ka, K)
  BY TallySame
<1>2. Tally(DOMAIN new, kn, K) = Tally(DOMAIN new, ka, K)
  BY TallySame
<1>3. /\ IsFiniteSet(DOMAIN tbl) /\ IsFiniteSet(DOMAIN new) /\ DOMAIN tbl \cap DOMAIN new = {}
      /\ DOMAIN all = DOMAIN tbl \cup DOMAIN new
  BY DEF IsTable, Extends
<1> QED BY <1>1, <1>2, <1>3, TallyAdd

\* The upserts of a batch bring the models of the old table to the new one:
\* the windows if the rows of the batch name the build it was deployed as.
LEMMA UpsertExtends ==
    ASSUME NEW all, NEW tbl, NEW new, Extends(all, tbl, new),
           IsTable(all), IsTable(tbl), IsTable(new), NEW m, NEW window,
           m.app_context_counts = AppTally(tbl), BucketsExact(m, tbl)
    PROVE  LET u == upsert(m, aggregate(new, window))
           IN  /\ u.app_context_counts = AppTally(all)
               /\ BucketsExact(u, all)
               /\ /\ m.bucket_windows = WindowTally(tbl)
                  /\ \A i \in DOMAIN new : build_version(new[i].ctx) = window[i]
                  => u.bucket_windows = WindowTally(all)
<1> DEFINE a == aggregate(new, window)
           u == upsert(m, a)
<1>1. /\ a.bucket_summaries = [b \in Buckets |-> summary_of(new, In(new, b))]
      /\ a.bucket_windows = Tally(DOMAIN new, WindowKeys(new, window), WindowDomain)
      /\ a.app_context_counts = Tally(DOMAIN new, AppKeys(new), Dimensions)
      /\ a.bucket_context_counts = Tally(DOMAIN new, BucketKeys(new), Buckets \X Dimensions)
  BY AggregateTallies
<1> HIDE DEF a
<1>2. /\ u.bucket_summaries = [b \in Buckets |->
                upsert_summary(m.bucket_summaries[b], a.bucket_summaries[b])]
      /\ u.bucket_windows = Add(m.bucket_windows, a.bucket_windows)
      /\ u.app_context_counts = Add(m.app_context_counts, a.app_context_counts)
      /\ u.bucket_context_counts = Add(m.bucket_context_counts, a.bucket_context_counts)
  BY DEF upsert
<1> HIDE DEF u
<1>3. /\ DOMAIN tbl \subseteq DOMAIN all /\ DOMAIN new \subseteq DOMAIN all
      /\ \A i \in DOMAIN tbl : all[i] = tbl[i]
      /\ \A i \in DOMAIN new : all[i] = new[i]
  BY DEF Extends
<1>4. u.app_context_counts = AppTally(all)
  <2>1. /\ \A i \in DOMAIN tbl : AppKeys(tbl)[i] = AppKeys(all)[i]
        /\ \A i \in DOMAIN new : AppKeys(new)[i] = AppKeys(all)[i]
    BY <1>3 DEF AppKeys
  <2>2. Add(Tally(DOMAIN tbl, AppKeys(tbl), Dimensions), Tally(DOMAIN new, AppKeys(new), Dimensions))
          = Tally(DOMAIN all, AppKeys(all), Dimensions)
    BY <2>1, TallyExtends
  <2> QED BY <1>1, <1>2, <2>2 DEF AppTally
<1>5. u.bucket_context_counts = BucketTally(all)
  <2> DEFINE K == Buckets \X Dimensions
  <2>1. /\ \A i \in DOMAIN tbl : BucketKeys(tbl)[i] = BucketKeys(all)[i]
        /\ \A i \in DOMAIN new : BucketKeys(new)[i] = BucketKeys(all)[i]
    BY <1>3 DEF BucketKeys
  <2>2. m.bucket_context_counts = Tally(DOMAIN tbl, BucketKeys(tbl), K)
    BY DEF BucketsExact, BucketTally
  <2>3. a.bucket_context_counts = Tally(DOMAIN new, BucketKeys(new), K)
    BY <1>1
  <2>4. BucketTally(all) = Tally(DOMAIN all, BucketKeys(all), K)
    BY DEF BucketTally
  <2> HIDE DEF K
  <2>5. Add(Tally(DOMAIN tbl, BucketKeys(tbl), K), Tally(DOMAIN new, BucketKeys(new), K))
          = Tally(DOMAIN all, BucketKeys(all), K)
    BY <2>1, TallyExtends
  <2> QED BY <1>2, <2>2, <2>3, <2>4, <2>5
<1>6. ASSUME NEW b \in Buckets PROVE Good(u.bucket_summaries[b], all, In(all, b))
  <2> DEFINE A == In(tbl, b)
             B == In(new, b)
             s == m.bucket_summaries[b]
             t == summary_of(new, B)
  <2>1. In(all, b) = A \cup B /\ A \cap B = {}
    BY DEF Extends, In
  <2>2. A \in SUBSET DOMAIN tbl /\ B \in SUBSET DOMAIN new
    BY DEF In
  <2>3. Good(s, tbl, A)
    BY DEF BucketsExact
  <2>4. u.bucket_summaries[b] = upsert_summary(s, t)
    BY <1>1, <1>2
  <2> HIDE DEF A, B, s
  <2>5. Good(t, new, B)
    BY <2>2, ScanIsGood
  <2> HIDE DEF t
  <2>6. A \in SUBSET DOMAIN all /\ B \in SUBSET DOMAIN all
    BY <1>3, <2>2
  <2>7. Good(s, all, A) /\ Good(t, all, B)
    <3>1. (\A i \in A : tbl[i] = all[i]) /\ (\A i \in B : new[i] = all[i])
      BY <1>3, <2>2
    <3> QED BY <3>1, <2>3, <2>5, GoodElsewhere
  <2>8. Good(upsert_summary(s, t), all, A \cup B)
    BY <2>1, <2>6, <2>7, UpsertIsGood
  <2> QED BY <2>1, <2>4, <2>8
<1>7. ASSUME m.bucket_windows = WindowTally(tbl),
             \A i \in DOMAIN new : build_version(new[i].ctx) = window[i]
      PROVE  u.bucket_windows = WindowTally(all)
  <2>1. \A i \in DOMAIN tbl : WindowKeys(tbl, BuildOf(tbl))[i] = WindowKeys(all, BuildOf(all))[i]
    BY <1>3 DEF WindowKeys, BuildOf
  <2>2. \A i \in DOMAIN new : WindowKeys(new, window)[i] = WindowKeys(all, BuildOf(all))[i]
    BY <1>3, <1>7 DEF WindowKeys, BuildOf
  <2>3. Add(Tally(DOMAIN tbl, WindowKeys(tbl, BuildOf(tbl)), WindowDomain),
            Tally(DOMAIN new, WindowKeys(new, window), WindowDomain))
          = Tally(DOMAIN all, WindowKeys(all, BuildOf(all)), WindowDomain)
    BY <2>1, <2>2, TallyExtends
  <2> QED BY <1>1, <1>2, <1>7, <2>3 DEF WindowTally
<1>8. BucketsExact(u, all)
  BY <1>5, <1>6 DEF BucketsExact
<1> QED BY <1>4, <1>7, <1>8 DEF u, a

\* The rows a commit writes, and the table and the models after it.
LEMMA CommitRows ==
    ASSUME HorizonInv, TableTypes, NEW r \in inflight, ingest_batch(r)
    PROVE  \E new :
             /\ IsTable(new) /\ IsTable(errors') /\ Extends(errors', errors, new)
             /\ \A i \in DOMAIN new : new[i].bucket_id \in Buckets /\ new[i].at = r.at
             /\ Coherent(r.batch) =>
                  \A i \in DOMAIN new : build_version(new[i].ctx) = deployment[r.batch]
             /\ models' = upsert(models, aggregate(new, [i \in DOMAIN new |-> deployment[r.batch]]))
             /\ next_id' \in Nat \ {0} /\ DOMAIN errors' \subseteq 1 .. (next_id' - 1)
<1> DEFINE fs == aggregate_events(r.batch).errors
           row(i) == [identity |-> fs[i - next_id + 1].identity,
                      bucket_id |-> fs[i - next_id + 1].identity,
                      ctx |-> fs[i - next_id + 1].ctx, at |-> r.at]
           new == [i \in next_id .. (next_id + Len(fs) - 1) |-> row(i)]
<1>1. r.batch \in Batches /\ r.at \in Nat
  BY DEF HorizonInv, HorizonTypes
<1>2. fs \in Seq(Findings) /\ Len(fs) \in Nat
  <2>1. fs \in Seq(Findings)
    BY <1>1, TelemetryAssumption
  <2> QED BY <2>1
<1>3. /\ models' = upsert(models, aggregate(new, [i \in DOMAIN new |-> deployment[r.batch]]))
      /\ errors' = [i \in DOMAIN errors \cup DOMAIN new |->
                      IF i \in DOMAIN errors THEN errors[i] ELSE new[i]]
      /\ next_id' = next_id + Len(fs)
  BY DEF ingest_batch, bucket_id
<1> HIDE DEF fs
<1>4. /\ next_id \in Nat \ {0} /\ DOMAIN errors \subseteq 1 .. (next_id - 1)
      /\ IsTable(errors) /\ errors \in [DOMAIN errors -> Row]
  BY DEF TableTypes, IsTable
<1>5. \A i \in next_id .. (next_id + Len(fs) - 1) :
        i - next_id + 1 \in DOMAIN fs /\ fs[i - next_id + 1] \in Findings
  BY <1>2, <1>4
<1>6. \A i \in next_id .. (next_id + Len(fs) - 1) : row(i) \in Row
  BY <1>1, <1>5 DEF Row, Findings
<1>7. /\ DOMAIN new = next_id .. (next_id + Len(fs) - 1)
      /\ \A i \in DOMAIN new : /\ i - next_id + 1 \in DOMAIN fs
                               /\ new[i].bucket_id = fs[i - next_id + 1].identity
                               /\ new[i].ctx = fs[i - next_id + 1].ctx
                               /\ new[i].at = r.at
  BY <1>5
<1>8. new \in [DOMAIN new -> Row]
  BY <1>6
<1> HIDE DEF new
<1>9. IsFiniteSet(DOMAIN new) /\ DOMAIN new \subseteq Nat
  <2>1. next_id \in Int /\ next_id + Len(fs) - 1 \in Int
    BY <1>2, <1>4
  <2>2. IsFiniteSet(next_id .. (next_id + Len(fs) - 1))
    BY <2>1, FS_Interval
  <2> QED BY <1>2, <1>4, <1>7, <2>2
<1>10. IsTable(new)
  BY <1>8, <1>9 DEF IsTable
<1>11. DOMAIN errors \cap DOMAIN new = {}
  BY <1>2, <1>4, <1>7
<1>12. Extends(errors', errors, new)
  BY <1>3, <1>11 DEF Extends
<1>13. IsTable(errors')
  <2>1. IsFiniteSet(DOMAIN errors \cup DOMAIN new)
    BY <1>4, <1>9, FS_Union DEF IsTable
  <2>2. DOMAIN errors' = DOMAIN errors \cup DOMAIN new
    BY <1>3
  <2>3. errors' \in [DOMAIN errors \cup DOMAIN new -> Row]
    BY <1>3, <1>4, <1>8
  <2>4. DOMAIN errors' \subseteq Nat
    BY <1>4, <1>9, <2>2 DEF IsTable
  <2> QED BY <2>1, <2>2, <2>3, <2>4 DEF IsTable
<1>14. next_id' \in Nat \ {0} /\ DOMAIN errors' \subseteq 1 .. (next_id' - 1)
  <2>1. DOMAIN errors' = DOMAIN errors \cup DOMAIN new
    BY <1>3
  <2>2. next_id' = next_id + Len(fs)
    BY <1>3
  <2> QED BY <2>1, <2>2, <1>2, <1>4, <1>7
<1>15. \A i \in DOMAIN new : new[i].bucket_id \in Buckets /\ new[i].at = r.at
  BY <1>5, <1>7 DEF Findings
<1>16. ASSUME Coherent(r.batch), NEW i \in DOMAIN new
       PROVE  build_version(new[i].ctx) = deployment[r.batch]
  BY <1>7, <1>16 DEF Coherent, fs
<1> QED BY <1>3, <1>10, <1>12, <1>13, <1>14, <1>15, <1>16

\* A commit keeps the models exact.
LEMMA CommitStep ==
    ASSUME HorizonInv, TableTypes, AllExact, NEW r \in inflight, ingest_batch(r)
    PROVE  AllExact'
<1>1. PICK new :
        /\ IsTable(new) /\ IsTable(errors') /\ Extends(errors', errors, new)
        /\ \A i \in DOMAIN new : new[i].bucket_id \in Buckets
        /\ Coherent(r.batch) =>
             \A i \in DOMAIN new : build_version(new[i].ctx) = deployment[r.batch]
        /\ models' = upsert(models, aggregate(new, [i \in DOMAIN new |-> deployment[r.batch]]))
        /\ next_id' \in Nat \ {0} /\ DOMAIN errors' \subseteq 1 .. (next_id' - 1)
  BY CommitRows
<1> DEFINE window == [i \in DOMAIN new |-> deployment[r.batch]]
           a == aggregate(new, window)
<1>2. IsTable(errors) /\ models \in Tables
  BY DEF TableTypes
<1>3. models.app_context_counts = AppTally(errors) /\ BucketsExact(models, errors)
  BY DEF AllExact
<1>4. \A i \in DOMAIN new : window[i] = deployment[r.batch]
  OBVIOUS
<1>5. models' = upsert(models, a)
  BY <1>1
<1> HIDE DEF window
<1>6. /\ upsert(models, a).app_context_counts = AppTally(errors')
      /\ BucketsExact(upsert(models, a), errors')
      /\ /\ models.bucket_windows = WindowTally(errors)
         /\ \A i \in DOMAIN new : build_version(new[i].ctx) = window[i]
         => upsert(models, a).bucket_windows = WindowTally(errors')
  BY <1>1, <1>2, <1>3, UpsertExtends
<1>7. /\ models'.app_context_counts = AppTally(errors')
      /\ BucketsExact(models', errors')
      /\ /\ models.bucket_windows = WindowTally(errors)
         /\ \A i \in DOMAIN new : build_version(new[i].ctx) = window[i]
         => models'.bucket_windows = WindowTally(errors')
  BY <1>5, <1>6
<1>11. ASSUME CoherentData' PROVE models'.bucket_windows = WindowTally(errors')
  <2>1. r.batch \in Batches /\ r.at \in Nat /\ landed \in [Batches -> Int]
        /\ landed' = [landed EXCEPT ![r.batch] = r.at]
    BY CommitEffect DEF HorizonInv, HorizonTypes
  <2>2. landed'[r.batch] # -1
    BY <2>1
  <2>3. Coherent(r.batch)
    BY <1>11, <2>1, <2>2 DEF CoherentData
  <2>4. CoherentData
    <3> SUFFICES ASSUME NEW c \in Batches, landed[c] # -1 PROVE Coherent(c)
      BY DEF CoherentData
    <3>1. landed'[c] # -1
      BY <2>1, <2>2
    <3> QED BY <1>11, <3>1 DEF CoherentData
  <2>5. models.bucket_windows = WindowTally(errors)
    BY <2>4 DEF AllExact
  <2>6. \A i \in DOMAIN new : build_version(new[i].ctx) = window[i]
    BY <1>1, <1>4, <2>3
  <2> QED BY <1>7, <2>5, <2>6
<1> QED BY <1>7, <1>11 DEF AllExact

-----------------------------------------------------------------------------
(* A deletion. *)

\* The models m are exact of the table tbl, the windows if they are to be.
ExactOf(m, tbl, windows) ==
    /\ m.app_context_counts = AppTally(tbl) /\ BucketsExact(m, tbl)
    /\ windows => m.bucket_windows = WindowTally(tbl)

\* A DELETE that does not abort leaves exact models of the rows that stay.
LEMMA DeletionKeepsExact ==
    ASSUME TableTypes, Bucketed, NEW ids \in SUBSET DOMAIN errors, deletion(ids).ok,
           NEW rest, rest = Restrict(errors, DOMAIN errors \ ids)
    PROVE  /\ IsTable(rest) /\ DOMAIN rest \subseteq DOMAIN errors
           /\ \A i \in DOMAIN rest : rest[i] = errors[i]
           /\ deletion(ids).m \in Tables
           /\ AllExact => ExactOf(deletion(ids).m, rest, CoherentData)
<1> DEFINE d == deletion(ids)
           R == DOMAIN errors \ ids
<1>1. rest = [i \in R |-> errors[i]]
  BY DEF Restrict
<1>2. IsTable(errors) /\ errors \in [DOMAIN errors -> Row]
  BY DEF TableTypes, IsTable, Row
<1>4. /\ d \in Stages
      /\ models.app_context_counts = Tally(DOMAIN errors, AppKeys(errors), Dimensions)
           => d.m.app_context_counts = Tally(R, AppKeys(errors), Dimensions)
      /\ models.bucket_context_counts
             = Tally(DOMAIN errors, BucketKeys(errors), Buckets \X Dimensions)
           => d.m.bucket_context_counts = Tally(R, BucketKeys(errors), Buckets \X Dimensions)
      /\ models.bucket_windows
             = Tally(DOMAIN errors, WindowKeys(errors, BuildOf(errors)), WindowDomain)
           => d.m.bucket_windows = Tally(R, WindowKeys(errors, BuildOf(errors)), WindowDomain)
      /\ d.ok /\ (\A b \in Buckets : Good(models.bucket_summaries[b], errors, In(errors, b)))
           => \A b \in Buckets : Good(d.m.bucket_summaries[b], errors, In(errors, b) \ ids)
  BY DeletionIsExact DEF TableTypes
<1>5. d.ok
  OBVIOUS
<1> HIDE DEF d
<1>6. /\ DOMAIN rest = R /\ R \subseteq DOMAIN errors
      /\ \A i \in R : rest[i] = errors[i]
  BY <1>1
<1>7. IsTable(rest)
  <2>1. IsFiniteSet(R)
    BY <1>2, FS_Difference DEF IsTable
  <2>2. rest \in [R -> Row]
    BY <1>1, <1>2
  <2>3. R \subseteq Nat
    BY <1>2 DEF IsTable
  <2> QED BY <1>6, <2>1, <2>2, <2>3 DEF IsTable
<1> HIDE DEF R
<1>9. d.m \in Tables
  BY <1>4 DEF Stages
<1> SUFFICES ASSUME AllExact PROVE ExactOf(d.m, rest, CoherentData)
  BY <1>6, <1>7, <1>9 DEF d
<1>10. d.m.app_context_counts = AppTally(rest)
  <2>1. \A i \in R : AppKeys(errors)[i] = AppKeys(rest)[i]
    BY <1>6 DEF AppKeys
  <2>2. Tally(R, AppKeys(errors), Dimensions) = Tally(R, AppKeys(rest), Dimensions)
    BY <2>1, TallySame
  <2> QED BY <1>4, <1>6, <2>2 DEF AllExact, AppTally
<1>11. d.m.bucket_context_counts = BucketTally(rest)
  <2> DEFINE K == Buckets \X Dimensions
  <2>1. \A i \in R : BucketKeys(errors)[i] = BucketKeys(rest)[i]
    BY <1>6 DEF BucketKeys
  <2>2. d.m.bucket_context_counts = Tally(R, BucketKeys(errors), K)
    BY <1>4 DEF AllExact, BucketsExact, BucketTally
  <2>3. BucketTally(rest) = Tally(R, BucketKeys(rest), K)
    BY <1>6 DEF BucketTally
  <2> HIDE DEF K
  <2>4. Tally(R, BucketKeys(errors), K) = Tally(R, BucketKeys(rest), K)
    BY <2>1, TallySame
  <2> QED BY <2>2, <2>3, <2>4
<1>12. ASSUME CoherentData PROVE d.m.bucket_windows = WindowTally(rest)
  <2> DEFINE ke == WindowKeys(errors, BuildOf(errors))
             kr == WindowKeys(rest, BuildOf(rest))
  <2>1. \A i \in R : ke[i] = kr[i]
    BY <1>6 DEF WindowKeys, BuildOf
  <2>2. d.m.bucket_windows = Tally(R, ke, WindowDomain)
    BY <1>4, <1>12 DEF AllExact, WindowTally
  <2> HIDE DEF ke, kr
  <2>3. Tally(R, ke, WindowDomain) = Tally(R, kr, WindowDomain)
    BY <2>1, TallySame
  <2> QED BY <1>6, <2>2, <2>3 DEF WindowTally, kr
<1>13. ASSUME NEW b \in Buckets PROVE Good(d.m.bucket_summaries[b], rest, In(rest, b))
  <2>1. In(rest, b) = In(errors, b) \ ids
    BY <1>6 DEF In, R
  <2>2. Good(d.m.bucket_summaries[b], errors, In(rest, b))
    BY <1>4, <1>5, <2>1 DEF AllExact, BucketsExact
  <2>3. \A i \in In(rest, b) : errors[i] = rest[i]
    BY <1>6 DEF In
  <2> QED BY <2>2, <2>3, GoodElsewhere
<1> QED BY <1>10, <1>11, <1>12, <1>13 DEF ExactOf, BucketsExact

\* A bucket without rows has no models to forget.
LEMMA ForgetKeepsExact ==
    ASSUME NEW m \in Tables, NEW tbl, NEW windows \in BOOLEAN, NEW b, In(tbl, b) = {}
    PROVE  /\ forget(m, b) \in Tables
           /\ ExactOf(m, tbl, windows) => ExactOf(forget(m, b), tbl, windows)
<1> DEFINE bs == [m.bucket_summaries EXCEPT ![b] = NoRow]
           bw == [k \in DOMAIN m.bucket_windows |-> IF k[1] = b THEN 0 ELSE m.bucket_windows[k]]
           ac == m.app_context_counts
           bc == [k \in DOMAIN m.bucket_context_counts |->
                    IF k[1] = b THEN 0 ELSE m.bucket_context_counts[k]]
<1>1. forget(m, b) = [bucket_summaries |-> bs, bucket_windows |-> bw,
                      app_context_counts |-> ac, bucket_context_counts |-> bc]
  BY DEF forget
<1>2. /\ m.bucket_summaries \in [Buckets -> Summaries \cup {NoRow}]
      /\ m.bucket_windows \in [WindowDomain -> Nat] /\ ac \in [Dimensions -> Nat]
      /\ m.bucket_context_counts \in [Buckets \X Dimensions -> Nat]
  BY DEF Tables
<1>3. /\ bs \in [Buckets -> Summaries \cup {NoRow}]
      /\ bw \in [WindowDomain -> Nat] /\ bc \in [Buckets \X Dimensions -> Nat]
  BY <1>2
<1>7. forget(m, b) \in Tables
  <2> HIDE DEF bs, bw, ac, bc
  <2> QED BY <1>1, <1>2, <1>3 DEF Tables
<1> SUFFICES ASSUME ExactOf(m, tbl, windows) PROVE ExactOf(forget(m, b), tbl, windows)
  BY <1>7
<1>4. \A c \in Buckets : Good(bs[c], tbl, In(tbl, c))
  <2> TAKE c \in Buckets
  <2>1. Good(m.bucket_summaries[c], tbl, In(tbl, c))
    BY DEF ExactOf, BucketsExact
  <2>2. CASE c = b
    BY <1>2, <2>2 DEF Good
  <2>3. CASE c # b
    BY <1>2, <2>1, <2>3
  <2> QED BY <2>2, <2>3
<1>5. bc = BucketTally(tbl)
  <2>1. m.bucket_context_counts = BucketTally(tbl)
    BY DEF ExactOf, BucketsExact
  <2>2. ASSUME NEW k \in Buckets \X Dimensions, k[1] = b PROVE BucketTally(tbl)[k] = 0
    <3>1. {i \in DOMAIN tbl : k \in BucketKeys(tbl)[i]} = {}
      BY <2>2 DEF BucketKeys, In
    <3>2. BucketTally(tbl)[k] = Cardinality({i \in DOMAIN tbl : k \in BucketKeys(tbl)[i]})
      BY DEF BucketTally, Tally, Count
    <3> QED BY <3>1, <3>2, FS_EmptySet
  <2>3. \A k \in Buckets \X Dimensions : bc[k] = m.bucket_context_counts[k]
    BY <1>2, <2>1, <2>2
  <2> QED BY <1>2, <1>3, <2>1, <2>3
<1>6. ASSUME windows PROVE bw = WindowTally(tbl)
  <2>1. m.bucket_windows = WindowTally(tbl)
    BY <1>6 DEF ExactOf
  <2>2. ASSUME NEW k \in WindowDomain, k[1] = b PROVE WindowTally(tbl)[k] = 0
    <3> DEFINE S == {i \in DOMAIN tbl : k \in WindowKeys(tbl, BuildOf(tbl))[i]}
    <3>1. ASSUME NEW i \in S PROVE FALSE
      <4>1. i \in DOMAIN tbl /\ k = <<tbl[i].bucket_id, hour(tbl[i].at), BuildOf(tbl)[i]>>
        BY DEF WindowKeys
      <4>2. tbl[i].bucket_id = b
        <5> HIDE DEF hour
        <5> QED BY <2>2, <4>1
      <4> QED BY <4>1, <4>2 DEF In
    <3>2. WindowTally(tbl)[k] = Cardinality(S)
      BY DEF WindowTally, Tally, Count
    <3>3. S = {}
      BY <3>1
    <3> QED BY <3>2, <3>3, FS_EmptySet
  <2>3. \A k \in WindowDomain : bw[k] = m.bucket_windows[k]
    BY <1>2, <2>1, <2>2
  <2> QED BY <1>2, <1>3, <2>1, <2>3
<1> HIDE DEF bs, bw, ac, bc
<1>8. /\ forget(m, b).bucket_summaries = bs /\ forget(m, b).bucket_windows = bw
      /\ forget(m, b).app_context_counts = ac /\ forget(m, b).bucket_context_counts = bc
  BY <1>1
<1>9. ac = AppTally(tbl)
  BY DEF ExactOf, ac
<1>10. BucketsExact(forget(m, b), tbl)
  BY <1>4, <1>5, <1>8 DEF BucketsExact
<1> QED BY <1>6, <1>8, <1>9, <1>10 DEF ExactOf

-----------------------------------------------------------------------------
(* The tables keep their types. *)

\* A scan makes tables.
LEMMA AggregateType ==
    ASSUME NEW tbl, IsTable(tbl), NEW window
    PROVE  aggregate(tbl, window) \in Tables
<1> DEFINE a == aggregate(tbl, window)
<1>1. /\ a.bucket_summaries = [b \in Buckets |-> summary_of(tbl, In(tbl, b))]
      /\ a.bucket_windows = Tally(DOMAIN tbl, WindowKeys(tbl, window), WindowDomain)
      /\ a.app_context_counts = Tally(DOMAIN tbl, AppKeys(tbl), Dimensions)
      /\ a.bucket_context_counts = Tally(DOMAIN tbl, BucketKeys(tbl), Buckets \X Dimensions)
  BY AggregateTallies
<1>2. a = [bucket_summaries |-> a.bucket_summaries, bucket_windows |-> a.bucket_windows,
           app_context_counts |-> a.app_context_counts,
           bucket_context_counts |-> a.bucket_context_counts]
  BY DEF aggregate
<1> HIDE DEF a
<1>3. a.bucket_windows \in [WindowDomain -> Nat] /\ a.app_context_counts \in [Dimensions -> Nat]
  BY <1>1, TallyType DEF IsTable
<1>4. a.bucket_context_counts \in [Buckets \X Dimensions -> Nat]
  <2> DEFINE K == Buckets \X Dimensions
  <2>1. a.bucket_context_counts = Tally(DOMAIN tbl, BucketKeys(tbl), K)
    BY <1>1
  <2> HIDE DEF K
  <2>2. a.bucket_context_counts \in [K -> Nat]
    BY <2>1, TallyType DEF IsTable
  <2> QED BY <2>2 DEF K
<1>5. \A b \in Buckets : summary_of(tbl, In(tbl, b)) \in Summaries \cup {NoRow}
  <2> TAKE b \in Buckets
  <2>1. In(tbl, b) \in SUBSET DOMAIN tbl
    BY DEF In
  <2> QED BY <2>1, ScanIsGood, GoodType
<1>6. a.bucket_summaries \in [Buckets -> Summaries \cup {NoRow}]
  BY <1>1, <1>5
<1> QED BY <1>2, <1>3, <1>4, <1>6 DEF Tables, a

\* Upserts and inserts of missing rows make tables of tables.
LEMMA UpsertType ==
    ASSUME NEW m \in Tables, NEW n \in Tables
    PROVE  upsert(m, n) \in Tables /\ insert_missing(m, n) \in Tables
<1>1. /\ m.bucket_summaries \in [Buckets -> Summaries \cup {NoRow}]
      /\ m.bucket_windows \in [WindowDomain -> Nat] /\ m.app_context_counts \in [Dimensions -> Nat]
      /\ m.bucket_context_counts \in [Buckets \X Dimensions -> Nat]
      /\ n.bucket_summaries \in [Buckets -> Summaries \cup {NoRow}]
      /\ n.bucket_windows \in [WindowDomain -> Nat] /\ n.app_context_counts \in [Dimensions -> Nat]
      /\ n.bucket_context_counts \in [Buckets \X Dimensions -> Nat]
  BY DEF Tables
<1>2. ASSUME NEW K, NEW f \in [K -> Nat], NEW g \in [K -> Nat]
      PROVE  Add(f, g) \in [K -> Nat] /\ Keep(f, g) \in [K -> Nat]
  BY <1>2 DEF Add, Keep
<1>3. ASSUME NEW s \in Summaries \cup {NoRow}, NEW t \in Summaries \cup {NoRow}
      PROVE  upsert_summary(s, t) \in Summaries \cup {NoRow}
  <2>1. CASE s = NoRow \/ t = NoRow
    BY <2>1 DEF upsert_summary
  <2>2. CASE ~(s = NoRow \/ t = NoRow)
    <3> DEFINE f == Min({s.first, t.first})
               l == Max({s.last, t.last})
               fs == Min({s.first_seen, t.first_seen})
               ls == Max({s.last_seen, t.last_seen})
    <3>1. upsert_summary(s, t) = [count |-> s.count + t.count, first |-> f, last |-> l,
                                  first_seen |-> fs, last_seen |-> ls]
      BY <2>2 DEF upsert_summary
    <3>2. /\ s.count \in Nat /\ s.first \in Nat /\ s.last \in Nat
          /\ t.count \in Nat /\ t.first \in Nat /\ t.last \in Nat
          /\ s.first_seen \in Nat /\ s.last_seen \in Nat
          /\ t.first_seen \in Nat /\ t.last_seen \in Nat
      BY <2>2 DEF Summaries
    <3>3. /\ f \in {s.first, t.first} /\ l \in {s.last, t.last}
          /\ fs \in {s.first_seen, t.first_seen} /\ ls \in {s.last_seen, t.last_seen}
      BY <3>2, PairEnds
    <3> HIDE DEF f, l, fs, ls
    <3>4. f \in Nat /\ l \in Nat /\ fs \in Nat /\ ls \in Nat
      BY <3>2, <3>3
    <3> QED BY <3>1, <3>2, <3>4 DEF Summaries
  <2> QED BY <2>1, <2>2
<1>4. upsert(m, n) \in Tables
  <2> DEFINE bs == [b \in Buckets |-> upsert_summary(m.bucket_summaries[b], n.bucket_summaries[b])]
  <2>1. bs \in [Buckets -> Summaries \cup {NoRow}]
    BY <1>1, <1>3
  <2>2. /\ Add(m.bucket_windows, n.bucket_windows) \in [WindowDomain -> Nat]
        /\ Add(m.app_context_counts, n.app_context_counts) \in [Dimensions -> Nat]
        /\ Add(m.bucket_context_counts, n.bucket_context_counts)
             \in [Buckets \X Dimensions -> Nat]
    BY <1>1, <1>2
  <2> HIDE DEF bs
  <2>3. upsert(m, n) = [bucket_summaries |-> bs,
                        bucket_windows |-> Add(m.bucket_windows, n.bucket_windows),
                        app_context_counts |-> Add(m.app_context_counts, n.app_context_counts),
                        bucket_context_counts |->
                            Add(m.bucket_context_counts, n.bucket_context_counts)]
    BY DEF upsert, bs
  <2> QED BY <2>1, <2>2, <2>3 DEF Tables
<1>5. insert_missing(m, n) \in Tables
  <2> DEFINE bs == [b \in Buckets |-> IF m.bucket_summaries[b] = NoRow
                                      THEN n.bucket_summaries[b] ELSE m.bucket_summaries[b]]
  <2>1. bs \in [Buckets -> Summaries \cup {NoRow}]
    BY <1>1
  <2>2. /\ Keep(m.bucket_windows, n.bucket_windows) \in [WindowDomain -> Nat]
        /\ Keep(m.app_context_counts, n.app_context_counts) \in [Dimensions -> Nat]
        /\ Keep(m.bucket_context_counts, n.bucket_context_counts)
             \in [Buckets \X Dimensions -> Nat]
    BY <1>1, <1>2
  <2> HIDE DEF bs
  <2>3. insert_missing(m, n) =
          [bucket_summaries |-> bs,
           bucket_windows |-> Keep(m.bucket_windows, n.bucket_windows),
           app_context_counts |-> Keep(m.app_context_counts, n.app_context_counts),
           bucket_context_counts |-> Keep(m.bucket_context_counts, n.bucket_context_counts)]
    BY DEF insert_missing, bs
  <2> QED BY <2>1, <2>2, <2>3 DEF Tables
<1> QED BY <1>4, <1>5

\* A pass of the schema script.
LEMMA ScriptTypes ==
    ASSUME TableTypes, schema_script, UNCHANGED <<errors, next_id>>
    PROVE  TableTypes'
<1>1. Built(errors) \in Tables
  BY AggregateType DEF TableTypes, Built
<1>2. models' \in Tables
  BY <1>1, UpsertType DEF TableTypes, schema_script
<1> QED BY <1>2 DEF TableTypes

\* A commit.
LEMMA CommitTypes ==
    ASSUME HorizonInv, TableTypes, Bucketed, NEW r \in inflight, ingest_batch(r)
    PROVE  TableTypes' /\ Bucketed'
<1>1. PICK new :
        /\ IsTable(new) /\ IsTable(errors') /\ Extends(errors', errors, new)
        /\ \A i \in DOMAIN new : new[i].bucket_id \in Buckets
        /\ models' = upsert(models, aggregate(new, [i \in DOMAIN new |-> deployment[r.batch]]))
        /\ next_id' \in Nat \ {0} /\ DOMAIN errors' \subseteq 1 .. (next_id' - 1)
  BY CommitRows
<1>2. models' \in Tables
  BY <1>1, AggregateType, UpsertType DEF TableTypes
<1>3. \A i \in DOMAIN errors' : errors'[i].bucket_id \in Buckets
  BY <1>1 DEF Extends, Bucketed
<1> QED BY <1>1, <1>2, <1>3 DEF TableTypes, Bucketed

-----------------------------------------------------------------------------
(* The three deletions. *)

\* What a step that only removes rows has to show.
LEMMA RemovalKeeps ==
    ASSUME TableTypes, Bucketed, IsTable(errors'), DOMAIN errors' \subseteq DOMAIN errors,
           \A i \in DOMAIN errors' : errors'[i] = errors[i],
           models' \in Tables, UNCHANGED <<next_id, landed>>
    PROVE  /\ TableTypes' /\ Bucketed'
           /\ ExactOf(models', errors', CoherentData) => AllExact'
<1>1. TableTypes' /\ Bucketed'
  BY DEF TableTypes, Bucketed
<1>2. CoherentData' => CoherentData
  BY DEF CoherentData
<1>3. ASSUME ExactOf(models', errors', CoherentData) PROVE AllExact'
  <2>1. /\ models'.app_context_counts = AppTally(errors') /\ BucketsExact(models', errors')
        /\ CoherentData => models'.bucket_windows = WindowTally(errors')
    BY <1>3 DEF ExactOf
  <2> QED BY <1>2, <2>1 DEF AllExact
<1> QED BY <1>1, <1>3

\* A retention pass.
LEMMA RetentionStep ==
    ASSUME TableTypes, Bucketed, delete_expired_errors
    PROVE  TableTypes' /\ Bucketed' /\ (AllExact => AllExact')
<1>1. /\ deletion(Expired).ok /\ models' = deletion(Expired).m
      /\ errors' = Restrict(errors, DOMAIN errors \ Expired)
      /\ UNCHANGED <<next_id, landed>>
  BY DEF delete_expired_errors, requests
<1>2. Expired \in SUBSET DOMAIN errors
  BY DEF Expired
<1>3. /\ IsTable(errors') /\ DOMAIN errors' \subseteq DOMAIN errors
      /\ \A i \in DOMAIN errors' : errors'[i] = errors[i]
      /\ deletion(Expired).m \in Tables
      /\ AllExact => ExactOf(deletion(Expired).m, errors', CoherentData)
  BY <1>1, <1>2, DeletionKeepsExact
<1> QED BY <1>1, <1>3, RemovalKeeps

\* The deletion of sample data, after an abort of the trigger too.
LEMMA SampleStep ==
    ASSUME TableTypes, Bucketed, delete_sample_bucket_data
    PROVE  TableTypes' /\ Bucketed' /\ (AllExact => AllExact')
<1> DEFINE ids == clearing.ids \cap DOMAIN errors
           d == deletion(ids)
           b == clearing.bucket
<1>1. /\ IF ~d.ok THEN UNCHANGED <<errors, models>>
         ELSE /\ errors' = Restrict(errors, DOMAIN errors \ ids)
              /\ models' = IF In(errors', b) = {} THEN forget(d.m, b) ELSE d.m
      /\ UNCHANGED <<next_id, landed>>
  BY DEF delete_sample_bucket_data
<1>2. ids \in SUBSET DOMAIN errors
  OBVIOUS
<1> HIDE DEF ids, b
<1>3. CASE ~d.ok
  <2>1. UNCHANGED <<errors, models, next_id, landed>>
    BY <1>1, <1>3
  <2> QED BY <2>1 DEF TableTypes, Bucketed, AllExact, CoherentData
<1>4. CASE d.ok
  <2>1. /\ errors' = Restrict(errors, DOMAIN errors \ ids)
        /\ models' = IF In(errors', b) = {} THEN forget(d.m, b) ELSE d.m
    BY <1>1, <1>4
  <2>2. /\ IsTable(errors') /\ DOMAIN errors' \subseteq DOMAIN errors
        /\ \A i \in DOMAIN errors' : errors'[i] = errors[i]
        /\ d.m \in Tables /\ (AllExact => ExactOf(d.m, errors', CoherentData))
    BY <1>2, <1>4, <2>1, DeletionKeepsExact
  <2> HIDE DEF d
  <2>3. CoherentData \in BOOLEAN
    BY DEF CoherentData
  <2>4. In(errors', b) = {} =>
          /\ forget(d.m, b) \in Tables
          /\ ExactOf(d.m, errors', CoherentData) => ExactOf(forget(d.m, b), errors', CoherentData)
    BY <2>2, <2>3, ForgetKeepsExact
  <2>5. models' \in Tables /\ (AllExact => ExactOf(models', errors', CoherentData))
    BY <2>1, <2>2, <2>4
  <2> QED BY <1>1, <2>2, <2>5, RemovalKeeps
<1> QED BY <1>3, <1>4

\* The deletion of the project.
LEMMA ProjectStep ==
    ASSUME TableTypes, Bucketed, delete_project_by_app
    PROVE  TableTypes' /\ Bucketed' /\ AllExact'
<1>1. errors' = <<>> /\ models' = Empty /\ UNCHANGED <<next_id, landed>>
  BY DEF delete_project_by_app
<1>2. DOMAIN errors' = {} /\ errors' \in [{} -> Row] /\ \A b \in Buckets : In(errors', b) = {}
  BY <1>1 DEF In
<1>3. IsTable(errors')
  BY <1>2, FS_EmptySet DEF IsTable
<1>4. /\ AppTally(errors') = Zero(Dimensions)
      /\ WindowTally(errors') = Zero(WindowDomain)
      /\ BucketTally(errors') = Zero(Buckets \X Dimensions)
  <2>1. \A keys, K : Tally({}, keys, K) = Zero(K)
    BY TallyNone
  <2> QED BY <1>2, <2>1 DEF AppTally, WindowTally, BucketTally
<1>5. ExactOf(models', errors', CoherentData)
  BY <1>1, <1>2, <1>4, EmptyModels DEF ExactOf, BucketsExact, BucketsEmpty, Good
<1>6. models' \in Tables
  BY <1>1, EmptyModels
<1> QED BY <1>1, <1>2, <1>3, <1>5, <1>6, RemovalKeeps

-----------------------------------------------------------------------------
\* Every step preserves ModelsInv.
LEMMA ModelsStep == HorizonInv /\ ModelsInv /\ [Next]_vars => ModelsInv'
<1> SUFFICES ASSUME HorizonInv, ModelsInv, [Next]_vars PROVE ModelsInv'
  OBVIOUS
<1>1. ~cut' => ~cut
  BY DEF vars, Next, apply_first_pass, backfill_missing_bucket_ids, apply_interrupted,
         apply_second_pass, post_events, ingest_batch, ingest_deduped, ingest_failed,
         delete_expired_errors, prune_processed_batches, delete_sample_bucket,
         delete_sample_bucket_data, delete_project_by_app, tick
<1>2. /\ TableTypes /\ ServedAfterMigration
      /\ ~cut /\ migration = "done" => AllExact
      /\ ~cut /\ migration # "done" => EmptyOrExact
  BY DEF ModelsInv
<1>3. ASSUME UNCHANGED <<migration, errors, next_id, models, landed>>,
             migration # "done" => UNCHANGED <<inflight, clearing>>
      PROVE  ModelsInv'
  <2>1. TableTypes' /\ ServedAfterMigration'
    BY <1>2, <1>3 DEF TableTypes, ServedAfterMigration, Bucketed
  <2>2. ~cut' /\ migration' = "done" => AllExact'
    BY <1>1, <1>2, <1>3 DEF AllExact, CoherentData
  <2>3. ~cut' /\ migration' # "done" => EmptyOrExact'
    BY <1>1, <1>2, <1>3 DEF EmptyOrExact, Unbucketed
  <2> QED BY <2>1, <2>2, <2>3 DEF ModelsInv
<1>4. ASSUME migration = "done", UNCHANGED migration, TableTypes', Bucketed', AllExact => AllExact'
      PROVE  ModelsInv'
  BY <1>1, <1>2, <1>4 DEF ModelsInv, ServedAfterMigration
<1>5. CASE UNCHANGED vars
  BY <1>3, <1>5 DEF vars
<1>6. CASE apply_first_pass
  <2>1. /\ migration = "todo" /\ migration' = "backfill" /\ schema_script
        /\ UNCHANGED <<errors, next_id, inflight, clearing>>
    BY <1>6 DEF apply_first_pass, requests
  <2>2. TableTypes' /\ ServedAfterMigration'
    BY <1>2, <2>1, ScriptTypes DEF ServedAfterMigration
  <2>3. ASSUME ~cut PROVE EmptyOrExact'
    <3>1. EmptyOrExact /\ Unbucketed \in {{}, DOMAIN errors}
      BY <1>2, <2>1, <2>3 DEF EmptyOrExact
    <3>2. /\ models'.app_context_counts = AppTally(errors)
          /\ BucketsExact(models', errors)
          /\ models'.bucket_windows = WindowTally(errors)
          /\ Unbucketed = {} \/ BucketsEmpty(models')
      BY <1>2, <2>1, <3>1, ScriptCompletes
    <3> QED BY <2>1, <3>2 DEF EmptyOrExact, Unbucketed
  <2> QED BY <1>1, <2>1, <2>2, <2>3 DEF ModelsInv
<1>7. CASE backfill_missing_bucket_ids
  <2>1. migration = "backfill" /\ UNCHANGED <<migration, inflight, clearing>>
    BY <1>7 DEF backfill_missing_bucket_ids, requests
  <2>2. TableTypes' /\ (EmptyOrExact => EmptyOrExact')
    BY <1>2, <1>7, BackfillStep
  <2> QED BY <1>1, <1>2, <2>1, <2>2 DEF ModelsInv, ServedAfterMigration
<1>8. CASE apply_interrupted
  <2>1. /\ migration = "backfill" /\ migration' = "todo"
        /\ ~cut' => Unbucketed \in {{}, DOMAIN errors}
        /\ UNCHANGED <<errors, next_id, models, inflight, clearing>>
    BY <1>8 DEF apply_interrupted, requests
  <2>2. TableTypes' /\ ServedAfterMigration'
    BY <1>2, <2>1 DEF TableTypes, ServedAfterMigration
  <2>3. ~cut' => EmptyOrExact'
    BY <1>1, <1>2, <2>1 DEF EmptyOrExact, Unbucketed
  <2> QED BY <2>1, <2>2, <2>3 DEF ModelsInv
<1>9. CASE apply_second_pass
  <2>1. /\ migration = "backfill" /\ migration' = "done" /\ schema_script /\ Unbucketed = {}
        /\ UNCHANGED <<errors, next_id, inflight, clearing>>
    BY <1>9 DEF apply_second_pass, requests
  <2>2. TableTypes'
    BY <1>2, <2>1, ScriptTypes
  <2>3. Bucketed'
    <3>1. \A i \in DOMAIN errors : errors[i].bucket_id \in Buckets \cup {NoBucket}
      BY <1>2 DEF TableTypes, IsTable, Row
    <3> QED BY <1>2, <2>1, <3>1 DEF Bucketed, Unbucketed, TableTypes
  <2>4. ASSUME ~cut PROVE AllExact'
    <3>1. /\ models'.app_context_counts = AppTally(errors)
          /\ BucketsExact(models', errors)
          /\ models'.bucket_windows = WindowTally(errors)
      BY <1>2, <2>1, <2>4, ScriptCompletes
    <3> QED BY <2>1, <3>1 DEF AllExact
  <2> QED BY <1>1, <2>1, <2>2, <2>3, <2>4 DEF ModelsInv, ServedAfterMigration
<1>10. ASSUME NEW b \in Batches, post_events(b) PROVE ModelsInv'
  BY <1>3, <1>10 DEF post_events
<1>11. ASSUME NEW r \in inflight, ingest_batch(r) PROVE ModelsInv'
  <2>1. migration = "done" /\ Bucketed /\ UNCHANGED migration
    BY <1>2, <1>11 DEF ServedAfterMigration, ingest_batch
  <2>2. TableTypes' /\ Bucketed'
    BY <1>2, <1>11, <2>1, CommitTypes
  <2>3. AllExact => AllExact'
    BY <1>2, <1>11, CommitStep
  <2> QED BY <1>4, <2>1, <2>2, <2>3
<1>12. ASSUME NEW r \in inflight, ingest_deduped(r) \/ ingest_failed(r) PROVE ModelsInv'
  BY <1>2, <1>3, <1>12 DEF ServedAfterMigration, ingest_deduped, ingest_failed
<1>13. CASE delete_expired_errors
  <2>1. migration = "done" /\ Bucketed /\ UNCHANGED migration
    BY <1>2, <1>13 DEF ServedAfterMigration, delete_expired_errors
  <2> QED BY <1>2, <1>4, <1>13, <2>1, RetentionStep
<1>14. CASE prune_processed_batches
  BY <1>3, <1>14 DEF prune_processed_batches, requests
<1>15. ASSUME NEW b \in Buckets, delete_sample_bucket(b) PROVE ModelsInv'
  BY <1>3, <1>15 DEF delete_sample_bucket
<1>16. CASE delete_sample_bucket_data
  <2>1. migration = "done" /\ Bucketed /\ UNCHANGED migration
    BY <1>2, <1>16 DEF ServedAfterMigration, delete_sample_bucket_data
  <2> QED BY <1>2, <1>4, <1>16, <2>1, SampleStep
<1>17. CASE delete_project_by_app
  <2>1. migration = "done" /\ Bucketed /\ UNCHANGED migration
    BY <1>2, <1>17 DEF ServedAfterMigration, delete_project_by_app
  <2> QED BY <1>2, <1>4, <1>17, <2>1, ProjectStep
<1>18. CASE tick
  BY <1>3, <1>18 DEF tick
<1> QED BY <1>5, <1>6, <1>7, <1>8, <1>9, <1>10, <1>11, <1>12, <1>13, <1>14, <1>15, <1>16,
           <1>17, <1>18 DEF Next

\* The read models relate to the error rows as ModelsInv says, in every
\* reachable state.
THEOREM ModelsInvariant == Spec => []ModelsInv
BY ModelsInit, ModelsStep, HorizonInvariant, PTL DEF Spec

\* What the counters say is what the rows say.
LEMMA InvImpliesExact == ModelsInv => ReadModelsExact /\ WindowsExact
<1> SUFFICES ASSUME ModelsInv, Migrated
             PROVE  /\ LET scan == Built(errors)
                       IN  /\ \A b \in Buckets :
                                 SummaryExact(models.bucket_summaries[b], scan.bucket_summaries[b])
                           /\ models.app_context_counts = scan.app_context_counts
                           /\ models.bucket_context_counts = scan.bucket_context_counts
                    /\ CoherentData => models.bucket_windows = windows_of(errors, BuildOf(errors))
  BY DEF ReadModelsExact, WindowsExact
<1>1. TableTypes /\ AllExact
  BY DEF ModelsInv, Migrated
<1>2. /\ Built(errors).bucket_summaries = [b \in Buckets |-> summary_of(errors, In(errors, b))]
      /\ Built(errors).bucket_windows = WindowTally(errors)
      /\ Built(errors).app_context_counts = AppTally(errors)
      /\ Built(errors).bucket_context_counts = BucketTally(errors)
  BY BuiltTallies
<1>3. ASSUME NEW b \in Buckets
      PROVE  SummaryExact(models.bucket_summaries[b], Built(errors).bucket_summaries[b])
  <2>1. Good(models.bucket_summaries[b], errors, In(errors, b)) /\ IsTable(errors)
    BY <1>1 DEF AllExact, BucketsExact, TableTypes
  <2>2. In(errors, b) \in SUBSET DOMAIN errors
    BY DEF In
  <2>3. SummaryExact(models.bucket_summaries[b], summary_of(errors, In(errors, b)))
    BY <2>1, <2>2, GoodIsExact
  <2> QED BY <1>2, <2>3
<1>4. Built(errors).bucket_windows = windows_of(errors, BuildOf(errors))
  BY DEF Built, aggregate
<1>5. models.app_context_counts = Built(errors).app_context_counts
      /\ models.bucket_context_counts = Built(errors).bucket_context_counts
  BY <1>1, <1>2 DEF AllExact, BucketsExact
<1>6. CoherentData => models.bucket_windows = windows_of(errors, BuildOf(errors))
  BY <1>1, <1>2, <1>4 DEF AllExact
<1> QED BY <1>3, <1>5, <1>6

\* The summaries and context counts that ingest increments and the delete
\* trigger decrements (remove_error_from_read_models) are at any time after a
\* migration that was not interrupted inside its backfill loop what a scan of the
\* errors table would compute, for any number of repeated, failed and late
\* batches, retention passes, sample deletions and project deletions.
THEOREM ReadModelsAlwaysExact == Spec => []ReadModelsExact
BY ModelsInvariant, InvImpliesExact, PTL

\* The hourly windows are exact as long as every batch that landed names the
\* build its findings name.
THEOREM WindowsAlwaysExact == Spec => []WindowsExact
BY ModelsInvariant, InvImpliesExact, PTL

\* Every dimension the list shows for a bucket is shared by K_ANON stored
\* occurrences of it, although it is computed from the counters.
THEOREM SurfacedAlwaysGroups == Spec => []SurfacedAreGroups
BY ReadModelsAlwaysExact, ExactCountsAnonymize, PTL

-----------------------------------------------------------------------------
(* The list and the detail view. *)

\* Every build that rows name has traffic.
Covered(tbl, traffic) ==
    \A i \in DOMAIN tbl : LET v == build_version(tbl[i].ctx)
                          IN  v = NoBuild \/ \E q \in traffic : q.build = v

\* The traffic of builds, and the clock.
TrafficInv ==
    /\ now <= MaxTime /\ \A r \in inflight : r.at <= now
    /\ \A i \in DOMAIN errors : errors[i].at <= MaxTime
    /\ \A q \in build_traffic : q.at \in Nat
    /\ migration # "todo" /\ CoherentData => Covered(errors, build_traffic)

\* Min of numbers that need not be finitely many.
LEMMA MinIsLeast ==
    ASSUME NEW T \in SUBSET Nat, T # {}
    PROVE  Min(T) \in T /\ \A m \in T : Min(T) <= m
BY LeastNat DEF Min

\* A pass of the schema script gives every build of a row its traffic.
LEMMA ScriptTraffic ==
    ASSUME IsTable(errors), schema_script, \A q \in build_traffic : q.at \in Nat
    PROVE  /\ \A q \in build_traffic' : q.at \in Nat
           /\ Covered(errors, build_traffic')
<1> DEFINE ids(v) == {i \in DOMAIN errors : build_version(errors[i].ctx) = v}
           row(v) == [build |-> v, count |-> Count(ids(v)), at |-> Min({errors[i].at : i \in ids(v)})]
           names == {build_version(errors[i].ctx) : i \in DOMAIN errors}
<1>1. traffic_of(errors) = {row(v) : v \in names \ {NoBuild}}
  BY DEF traffic_of
<1>2. \A v \in names : row(v).build = v /\ row(v).at = Min({errors[i].at : i \in ids(v)})
  OBVIOUS
<1>3. \A v \in names : Min({errors[i].at : i \in ids(v)}) \in Nat
  <2> TAKE v \in names
  <2> DEFINE T == {errors[i].at : i \in ids(v)}
  <2>1. T \in SUBSET Nat
    BY DEF IsTable, Row
  <2>2. T # {}
    OBVIOUS
  <2> HIDE DEF T
  <2>3. Min(T) \in Nat
    BY <2>1, <2>2, MinIsLeast
  <2> QED BY <2>3 DEF T
<1> HIDE DEF row
<1>4. build_traffic' = build_traffic \cup
         {r \in {row(v) : v \in names \ {NoBuild}} : \A q \in build_traffic : q.build # r.build}
  BY <1>1 DEF schema_script
<1> HIDE DEF ids
<1>5. \A q \in build_traffic' : q.at \in Nat
  <2> TAKE q \in build_traffic'
  <2>1. CASE q \in build_traffic
    BY <2>1
  <2>2. CASE q \notin build_traffic
    <3>1. PICK v \in names : q = row(v)
      BY <1>4, <2>2
    <3> QED BY <1>2, <1>3, <3>1
  <2> QED BY <2>1, <2>2
<1>6. ASSUME NEW i \in DOMAIN errors, build_version(errors[i].ctx) # NoBuild
      PROVE  \E q \in build_traffic' : q.build = build_version(errors[i].ctx)
  <2> DEFINE v == build_version(errors[i].ctx)
  <2>1. v \in names \ {NoBuild} /\ row(v).build = v
    BY <1>2, <1>6
  <2> HIDE DEF v, names
  <2>2. CASE \E q \in build_traffic : q.build = v
    BY <1>4, <2>2 DEF v
  <2>3. CASE \A q \in build_traffic : q.build # v
    <3>1. row(v) \in build_traffic'
      BY <1>4, <2>1, <2>3
    <3> QED BY <2>1, <3>1 DEF v
  <2> QED BY <2>2, <2>3
<1> QED BY <1>5, <1>6 DEF Covered

\* A commit keeps the traffic and counts its own build.
LEMMA CommitTraffic ==
    ASSUME NEW r \in inflight, r.at \in Nat, ingest_batch(r), \A q \in build_traffic : q.at \in Nat
    PROVE  /\ \A q \in build_traffic' : q.at \in Nat
           /\ \A q \in build_traffic : \E p \in build_traffic' : p.build = q.build
           /\ deployment[r.batch] # NoBuild =>
                \E p \in build_traffic' : p.build = deployment[r.batch]
<1> DEFINE b == deployment[r.batch]
           old == {q \in build_traffic : q.build = b}
           first == [build |-> b, count |-> 1, at |-> r.at]
           more(q) == [q EXCEPT !.count = @ + 1]
<1>1. build_traffic' = IF b = NoBuild THEN build_traffic
                       ELSE IF old = {} THEN build_traffic \cup {first}
                       ELSE (build_traffic \ old) \cup {more(q) : q \in old}
  BY DEF ingest_batch, count_traffic
<1>2. first.build = b /\ first.at = r.at
  OBVIOUS
<1>3. \A q : more(q).build = q.build /\ more(q).at = q.at
  OBVIOUS
<1> HIDE DEF first, more
<1>4. CASE b = NoBuild
  BY <1>1, <1>4
<1>5. CASE b # NoBuild /\ old = {}
  BY <1>1, <1>2, <1>5
<1>6. CASE b # NoBuild /\ old # {}
  <2>1. build_traffic' = (build_traffic \ old) \cup {more(q) : q \in old}
    BY <1>1, <1>6
  <2>2. \A q \in build_traffic' : q.at \in Nat
    BY <2>1, <1>3
  <2>3. \A q \in build_traffic : \E p \in build_traffic' : p.build = q.build
    <3> TAKE q \in build_traffic
    <3>1. CASE q \in old
      <4>1. more(q) \in build_traffic' /\ more(q).build = q.build
        BY <2>1, <1>3, <3>1
      <4> QED BY <4>1
    <3>2. CASE q \notin old
      BY <2>1, <3>2
    <3> QED BY <3>1, <3>2
  <2>4. \E q \in build_traffic : q.build = b
    BY <1>6
  <2> QED BY <2>2, <2>3, <2>4
<1> QED BY <1>4, <1>5, <1>6

\* A deletion only removes rows.
LEMMA DeletionShrinks ==
    ASSUME delete_expired_errors \/ delete_sample_bucket_data \/ delete_project_by_app
    PROVE  DOMAIN errors' \subseteq DOMAIN errors /\ \A i \in DOMAIN errors' : errors'[i] = errors[i]
<1>1. ASSUME NEW S, errors' = Restrict(errors, DOMAIN errors \ S)
      PROVE  DOMAIN errors' \subseteq DOMAIN errors /\ \A i \in DOMAIN errors' : errors'[i] = errors[i]
  BY <1>1 DEF Restrict
<1>2. CASE delete_expired_errors
  BY <1>1, <1>2 DEF delete_expired_errors
<1>3. CASE delete_sample_bucket_data
  <2>1. errors' = errors \/ \E S : errors' = Restrict(errors, DOMAIN errors \ S)
    BY <1>3 DEF delete_sample_bucket_data
  <2> QED BY <1>1, <2>1
<1>4. CASE delete_project_by_app
  <2>1. errors' = <<>>
    BY <1>4 DEF delete_project_by_app
  <2>2. DOMAIN errors' = {}
    BY <2>1
  <2> QED BY <2>2
<1> QED BY <1>2, <1>3, <1>4

\* Every step preserves TrafficInv.
LEMMA TrafficStep == HorizonInv /\ ModelsInv /\ TrafficInv /\ [Next]_vars => TrafficInv'
<1> SUFFICES ASSUME HorizonInv, ModelsInv, TrafficInv, [Next]_vars PROVE TrafficInv'
  OBVIOUS
<1> DEFINE Clock == now <= MaxTime /\ \A r \in inflight : r.at <= now
           Rows == \A i \in DOMAIN errors : errors[i].at <= MaxTime
           Ats == \A q \in build_traffic : q.at \in Nat
           Cover == migration # "todo" /\ CoherentData => Covered(errors, build_traffic)
<1>0. Clock /\ Rows /\ Ats /\ Cover
  BY DEF TrafficInv
<1>1. TableTypes /\ IsTable(errors) /\ MaxTime \in Nat /\ now \in Nat
      /\ (migration # "done" => inflight = {})
  BY TelemetryAssumption DEF ModelsInv, TableTypes, ServedAfterMigration, HorizonInv, HorizonTypes
<1> SUFFICES Clock' /\ Rows' /\ Ats' /\ Cover'
  BY DEF TrafficInv
<1>2. ASSUME UNCHANGED <<now, inflight, errors, build_traffic, migration, landed>>
      PROVE  Clock' /\ Rows' /\ Ats' /\ Cover'
  BY <1>0, <1>2 DEF CoherentData, Covered
<1>3. CASE UNCHANGED vars
  BY <1>2, <1>3 DEF vars
<1>4. CASE apply_first_pass \/ apply_second_pass
  <2>1. schema_script /\ UNCHANGED <<errors, now, inflight>>
    BY <1>4 DEF apply_first_pass, apply_second_pass, requests
  <2>2. (\A q \in build_traffic' : q.at \in Nat) /\ Covered(errors, build_traffic')
    BY <1>0, <1>1, <2>1, ScriptTraffic
  <2> QED BY <1>0, <2>1, <2>2
<1>5. CASE backfill_missing_bucket_ids
  <2>1. UNCHANGED <<now, inflight, build_traffic, migration, landed>>
    BY <1>5 DEF backfill_missing_bucket_ids, requests
  <2>2. /\ DOMAIN errors' = DOMAIN errors
        /\ \A j \in DOMAIN errors : errors'[j].ctx = errors[j].ctx /\ errors'[j].at = errors[j].at
    BY <1>1, <1>5, BackfillStep
  <2>3. Covered(errors, build_traffic) => Covered(errors', build_traffic)
    BY <2>2 DEF Covered
  <2> QED BY <1>0, <2>1, <2>2, <2>3 DEF CoherentData
<1>6. CASE apply_interrupted
  BY <1>0, <1>6 DEF apply_interrupted, requests
<1>7. ASSUME NEW b \in Batches, post_events(b) PROVE Clock' /\ Rows' /\ Ats' /\ Cover'
  <2>1. /\ \A r \in inflight' : r \in inflight \/ r.at = now
        /\ UNCHANGED <<now, errors, build_traffic, migration, landed>>
    BY <1>7 DEF post_events
  <2>2. Clock'
    BY <1>0, <1>1, <2>1
  <2> QED BY <1>0, <2>1, <2>2 DEF CoherentData, Covered
<1>8. ASSUME NEW r \in inflight, ingest_batch(r) PROVE Clock' /\ Rows' /\ Ats' /\ Cover'
  <2>1. PICK new :
          /\ IsTable(new) /\ IsTable(errors') /\ Extends(errors', errors, new)
          /\ \A i \in DOMAIN new : new[i].bucket_id \in Buckets /\ new[i].at = r.at
          /\ Coherent(r.batch) =>
               \A i \in DOMAIN new : build_version(new[i].ctx) = deployment[r.batch]
    BY <1>1, <1>8, CommitRows
  <2>2. /\ r.batch \in Batches /\ r.at \in Nat /\ landed \in [Batches -> Int]
        /\ landed' = [landed EXCEPT ![r.batch] = r.at]
        /\ inflight' = inflight \ {r} /\ UNCHANGED now
    BY <1>8, CommitEffect DEF HorizonInv, HorizonTypes
  <2>3. /\ \A q \in build_traffic' : q.at \in Nat
        /\ \A q \in build_traffic : \E p \in build_traffic' : p.build = q.build
        /\ deployment[r.batch] # NoBuild =>
             \E p \in build_traffic' : p.build = deployment[r.batch]
    BY <1>0, <1>8, <2>2, CommitTraffic
  <2>4. Clock'
    BY <1>0, <2>2
  <2>5. Rows'
    <3>1. r.at <= MaxTime
      BY <1>0, <1>1, <2>2
    <3> QED BY <1>0, <2>1, <3>1 DEF Extends
  <2>6. ASSUME CoherentData' PROVE Covered(errors', build_traffic')
    <3>1. landed'[r.batch] # -1
      BY <2>2
    <3>2. Coherent(r.batch)
      BY <2>2, <2>6, <3>1 DEF CoherentData
    <3>3. CoherentData
      <4> SUFFICES ASSUME NEW c \in Batches, landed[c] # -1 PROVE Coherent(c)
        BY DEF CoherentData
      <4>1. landed'[c] # -1
        BY <2>2, <3>1
      <4> QED BY <2>6, <4>1 DEF CoherentData
    <3>4. Covered(errors, build_traffic)
      BY <1>0, <1>1, <3>3
    <3> SUFFICES ASSUME NEW i \in DOMAIN errors', build_version(errors'[i].ctx) # NoBuild
                 PROVE  \E q \in build_traffic' : q.build = build_version(errors'[i].ctx)
      BY DEF Covered
    <3>5. CASE i \in DOMAIN errors
      <4>1. errors'[i] = errors[i]
        BY <2>1, <3>5 DEF Extends
      <4>2. PICK q \in build_traffic : q.build = build_version(errors[i].ctx)
        BY <3>4, <3>5, <4>1 DEF Covered
      <4> QED BY <2>3, <4>1, <4>2
    <3>6. CASE i \in DOMAIN new
      <4>1. errors'[i] = new[i]
        BY <2>1, <3>6 DEF Extends
      <4>2. build_version(new[i].ctx) = deployment[r.batch]
        BY <2>1, <3>2, <3>6
      <4> QED BY <2>3, <4>1, <4>2
    <3> QED BY <2>1, <3>5, <3>6 DEF Extends
  <2> QED BY <2>3, <2>4, <2>5, <2>6
<1>9. ASSUME NEW r \in inflight, ingest_deduped(r) \/ ingest_failed(r)
      PROVE  Clock' /\ Rows' /\ Ats' /\ Cover'
  <2>1. /\ inflight' = inflight \ {r}
        /\ UNCHANGED <<now, errors, build_traffic, migration, landed>>
    BY <1>9 DEF ingest_deduped, ingest_failed, Done
  <2> QED BY <1>0, <2>1 DEF CoherentData, Covered
<1>10. CASE prune_processed_batches \/ \E b \in Buckets : delete_sample_bucket(b)
  BY <1>2, <1>10 DEF prune_processed_batches, delete_sample_bucket, requests
<1>11. CASE delete_expired_errors \/ delete_sample_bucket_data \/ delete_project_by_app
  <2>1. /\ DOMAIN errors' \subseteq DOMAIN errors
        /\ \A i \in DOMAIN errors' : errors'[i] = errors[i]
    BY <1>11, DeletionShrinks
  <2>2. Clock' /\ UNCHANGED <<migration, landed>>
    BY <1>0, <1>11 DEF delete_expired_errors, delete_sample_bucket_data, delete_project_by_app,
                       requests
  <2>3. CoherentData' => CoherentData
    BY <2>2 DEF CoherentData
  <2>4. CASE UNCHANGED build_traffic
    <3>1. Covered(errors, build_traffic) => Covered(errors', build_traffic)
      BY <2>1 DEF Covered
    <3> QED BY <1>0, <2>1, <2>2, <2>3, <2>4, <3>1
  <2>5. CASE delete_project_by_app
    <3>1. build_traffic' = {} /\ errors' = <<>>
      BY <2>5 DEF delete_project_by_app
    <3>2. DOMAIN errors' = {}
      BY <3>1
    <3> QED BY <2>2, <3>1, <3>2 DEF Covered
  <2> QED BY <1>11, <2>4, <2>5 DEF delete_expired_errors, delete_sample_bucket_data
<1>12. CASE tick
  <2>1. /\ now < MaxTime /\ now' = now + 1
        /\ UNCHANGED <<errors, build_traffic, migration, landed, inflight>>
    BY <1>12 DEF tick
  <2>2. \A r \in inflight : r.at \in Nat
    BY DEF HorizonInv, HorizonTypes
  <2>3. Clock'
    BY <1>0, <1>1, <2>1, <2>2
  <2> QED BY <1>0, <2>1, <2>3 DEF CoherentData, Covered
<1> QED BY <1>3, <1>4, <1>5, <1>6, <1>7, <1>8, <1>9, <1>10, <1>11, <1>12 DEF Next

\* Every build a row names has traffic, and nothing is dated in the future.
THEOREM TrafficInvariant == Spec => []TrafficInv
<1>1. Init => TrafficInv
  <2> SUFFICES ASSUME Init PROVE TrafficInv
    OBVIOUS
  <2>1. /\ now = 0 /\ inflight = {} /\ build_traffic = {} /\ migration = "todo"
        /\ errors = [i \in 1 .. Len(Legacy) |-> Legacy[i]]
    BY DEF Init
  <2>2. Legacy \in Seq(LegacyRows) /\ MaxTime \in Nat
    BY TelemetryAssumption
  <2>3. \A i \in DOMAIN errors : errors[i] \in LegacyRows
    BY <2>1, <2>2
  <2>4. \A i \in DOMAIN errors : errors[i].at \in 0 .. MaxTime
    BY <2>3 DEF LegacyRows
  <2>5. \A i \in DOMAIN errors : errors[i].at <= MaxTime
    BY <2>2, <2>4
  <2> QED BY <2>1, <2>2, <2>5 DEF TrafficInv
<1> QED BY <1>1, TrafficStep, HorizonInvariant, ModelsInvariant, PTL DEF Spec

\* The hour a time is in.
LEMMA HourOf ==
    ASSUME NEW t \in Nat
    PROVE  /\ hour(t) \in Nat /\ hour(t) * Hour <= t /\ t < hour(t) * Hour + Hour
           /\ t <= MaxTime => hour(t) \in Hours
           /\ \A h \in Nat : h * Hour <= t /\ t < h * Hour + Hour => hour(t) = h
<1>1. Hour \in Nat \ {0} /\ MaxTime \in Nat
  BY TelemetryAssumption
<1>2. /\ t \div Hour \in Nat /\ (t \div Hour) * Hour <= t
      /\ t < (t \div Hour) * Hour + Hour
  BY <1>1
<1>3. t <= MaxTime => t \div Hour <= MaxTime \div Hour /\ MaxTime \div Hour \in Nat
  BY <1>1
<1>4. ASSUME NEW h \in Nat, NEW p \in Nat, h * Hour <= t, t < h * Hour + Hour,
             p * Hour <= t, t < p * Hour + Hour
      PROVE  p = h
  BY <1>1, <1>4
<1>5. t <= MaxTime => t \div Hour \in 0 .. (MaxTime \div Hour)
  BY <1>2, <1>3
<1> QED BY <1>2, <1>4, <1>5 DEF hour, Hours

\* The windows of a bucket are the hours and builds of its rows.
LEMMA WindowsAreRows ==
    ASSUME ModelsInv, TrafficInv, Migrated, CoherentData, NEW b \in Buckets
    PROVE  /\ \A i \in In(errors, b) : \E w \in bucket_window_counts(b) :
                  /\ w.at = hour(errors[i].at) * Hour
                  /\ w.build = build_version(errors[i].ctx)
           /\ \A w \in bucket_window_counts(b) : \E i \in In(errors, b) :
                  /\ w.at = hour(errors[i].at) * Hour
                  /\ w.build = build_version(errors[i].ctx)
<1> DEFINE keys == WindowKeys(errors, BuildOf(errors))
           key(i) == <<b, hour(errors[i].at), build_version(errors[i].ctx)>>
           rows(k) == {i \in DOMAIN errors : k \in keys[i]}
<1>1. /\ IsTable(errors) /\ models.bucket_windows = WindowTally(errors)
      /\ \A i \in DOMAIN errors : errors[i].at <= MaxTime
  BY DEF ModelsInv, TableTypes, Migrated, AllExact, TrafficInv
<1>2. ASSUME NEW i \in In(errors, b)
      PROVE  i \in DOMAIN errors /\ keys[i] = {key(i)} /\ key(i) \in WindowDomain
  <2>1. i \in DOMAIN errors /\ errors[i].bucket_id = b
    BY DEF In
  <2>2. keys[i] = {key(i)}
    BY <2>1 DEF WindowKeys, BuildOf
  <2>3. errors[i] \in Row
    BY <1>1, <2>1 DEF IsTable
  <2>4. errors[i].at \in Nat /\ errors[i].ctx \in Contexts
    BY <2>3 DEF Row
  <2>5. build_version(errors[i].ctx) \in Builds \cup {NoBuild}
    BY <2>4 DEF Contexts, build_version
  <2>6. hour(errors[i].at) \in Hours
    BY <1>1, <2>1, <2>4, HourOf
  <2> HIDE DEF hour, Hours
  <2> QED BY <2>1, <2>2, <2>5, <2>6 DEF WindowDomain
<1>3. ASSUME NEW k \in WindowDomain
      PROVE  models.bucket_windows[k] = Cardinality(rows(k)) /\ Cardinality(rows(k)) \in Nat
             /\ (Cardinality(rows(k)) > 0 <=> rows(k) # {})
  <2>1. models.bucket_windows[k] = Cardinality(rows(k))
    BY <1>1 DEF WindowTally, Tally, Count
  <2>2. rows(k) \in SUBSET DOMAIN errors
    OBVIOUS
  <2> HIDE DEF rows
  <2>3. IsFiniteSet(rows(k))
    BY <1>1, <2>2, FS_Subset DEF IsTable
  <2> QED BY <2>1, <2>3, FS_CardinalityType, FS_EmptySet
<1>4. bucket_window_counts(b) = {[at |-> k[2] * Hour, build |-> k[3]] : k \in WindowRows(b)}
  BY DEF bucket_window_counts
<1>5. \A k : k \in WindowRows(b) <=> k \in WindowDomain /\ k[1] = b /\ models.bucket_windows[k] > 0
  <2>1. \A k : k \in {b} \X Hours \X (Builds \cup {NoBuild}) <=> k \in WindowDomain /\ k[1] = b
    <3> HIDE DEF Hours
    <3> QED BY DEF WindowDomain
  <2> QED BY <2>1 DEF WindowRows
<1>6. ASSUME NEW i \in In(errors, b)
      PROVE  \E w \in bucket_window_counts(b) : /\ w.at = hour(errors[i].at) * Hour
                                                /\ w.build = build_version(errors[i].ctx)
  <2> DEFINE k == key(i)
             w == [at |-> k[2] * Hour, build |-> k[3]]
  <2>1. i \in DOMAIN errors /\ keys[i] = {k} /\ k \in WindowDomain
    BY <1>2
  <2>2. rows(k) # {}
    BY <2>1
  <2>3. k[1] = b /\ k[2] = hour(errors[i].at) /\ k[3] = build_version(errors[i].ctx)
    <3> HIDE DEF hour, build_version
    <3> QED OBVIOUS
  <2> HIDE DEF k, rows
  <2>4. k \in WindowRows(b)
    BY <1>3, <1>5, <2>1, <2>2, <2>3
  <2>5. w \in bucket_window_counts(b)
    BY <1>4, <2>4
  <2>6. w.at = hour(errors[i].at) * Hour /\ w.build = build_version(errors[i].ctx)
    BY <2>3
  <2> QED BY <2>5, <2>6
<1>7. ASSUME NEW w \in bucket_window_counts(b)
      PROVE  \E i \in In(errors, b) : /\ w.at = hour(errors[i].at) * Hour
                                      /\ w.build = build_version(errors[i].ctx)
  <2>1. PICK k \in WindowRows(b) : w = [at |-> k[2] * Hour, build |-> k[3]]
    BY <1>4
  <2>2. k \in WindowDomain /\ k[1] = b /\ rows(k) # {}
    <3> HIDE DEF rows
    <3> QED BY <1>3, <1>5, <2>1
  <2>3. PICK i \in DOMAIN errors : k \in keys[i]
    BY <2>2
  <2>4. k = <<errors[i].bucket_id, hour(errors[i].at), build_version(errors[i].ctx)>>
    BY <2>3 DEF WindowKeys, BuildOf
  <2> HIDE DEF hour, build_version
  <2>5. errors[i].bucket_id = b /\ k[2] = hour(errors[i].at) /\ k[3] = build_version(errors[i].ctx)
    BY <2>2, <2>4
  <2>6. i \in In(errors, b)
    BY <2>3, <2>5 DEF In
  <2>7. w.at = k[2] * Hour /\ w.build = k[3]
    BY <2>1
  <2> QED BY <2>5, <2>6, <2>7
<1> QED BY <1>6, <1>7

\* The first sighting of a build that has traffic is a time.
LEMMA SeenIsNat ==
    ASSUME \A q \in build_traffic : q.at \in Nat,
           NEW f \in DOMAIN first_seen_by_build(build_traffic)
    PROVE  first_seen_by_build(build_traffic)[f] \in Nat
<1> DEFINE T == {o.at : o \in {p \in build_traffic : p.build = f}}
<1>1. f \in {o.build : o \in build_traffic} \ {NoBuild}
      /\ first_seen_by_build(build_traffic)[f] = Min(T)
  BY DEF first_seen_by_build
<1>2. T \in SUBSET Nat /\ T # {}
  BY <1>1
<1> HIDE DEF T
<1>3. Min(T) \in Nat
  BY <1>2, MinIsLeast
<1> QED BY <1>1, <1>3

\* The two views judge a fix alike, but for a recurrence in the hour of it.
LEMMA ViewsAgree == ModelsInv /\ TrafficInv => ListAgreesWithDetail
<1> SUFFICES ASSUME ModelsInv, TrafficInv, Migrated, CoherentData, NEW b \in bucket_rollups
             PROVE  \/ list_status(b) = compute_resolution(b)
                    \/ /\ compute_resolution(b) = "regressed"
                       /\ \A o \in recurrences({occurrence(i) : i \in In(errors, b)},
                                               first_seen_by_build(build_traffic),
                                               fixed_in_build[b]) :
                             hour(o.at) = hour(first_seen_by_build(build_traffic)[fixed_in_build[b]])
  BY DEF ListAgreesWithDetail
<1> DEFINE f == fixed_in_build[b]
           seen == first_seen_by_build(build_traffic)
           traffic == post_fix_build_traffic(build_traffic, f)
           ws == bucket_window_counts(b)
           os == {occurrence(i) : i \in In(errors, b)}
           stream == {occurrence(i) : i \in DOMAIN errors}
<1>0. b \in Buckets
  BY DEF bucket_rollups
<1>1. list_status(b) = evaluate(ws, seen, f, traffic, now)
  BY DEF list_status
<1>2. CASE f = NoBuild
  BY <1>1, <1>2 DEF compute_resolution, evaluate
<1>3. CASE f # NoBuild /\ build_traffic = {}
  <2>1. DOMAIN seen = {}
    BY <1>3 DEF first_seen_by_build
  <2>2. list_status(b) = "resolving"
    BY <1>1, <1>3, <2>1 DEF evaluate
  <2>3. Covered(errors, build_traffic)
    BY DEF TrafficInv, Migrated
  <2>4. \A i \in DOMAIN errors : build_version(errors[i].ctx) = NoBuild
    BY <1>3, <2>3 DEF Covered
  <2>5. \A o \in stream : o.build = NoBuild
    BY <2>4 DEF occurrence
  <2> HIDE DEF stream
  <2>6. DOMAIN first_seen_by_build(stream) = {}
    BY <2>5 DEF first_seen_by_build
  <2> DEFINE s2 == first_seen_by_build(stream)
             t2 == post_fix_traffic(stream, f)
  <2>7. compute_resolution(b) = evaluate(os, s2, f, t2, now)
    BY <1>3 DEF compute_resolution, stream
  <2> HIDE DEF s2, t2, f, os
  <2>8. compute_resolution(b) = "resolving"
    BY <1>3, <2>6, <2>7 DEF evaluate, s2
  <2> QED BY <2>2, <2>8
<1>4. CASE f # NoBuild /\ build_traffic # {}
  <2>1. compute_resolution(b) = evaluate(os, seen, f, traffic, now)
    BY <1>4 DEF compute_resolution
  <2> DEFINE rw == recurrences(ws, seen, f)
             ro == recurrences(os, seen, f)
  <2>2. CASE f \notin DOMAIN seen
    <3> HIDE DEF seen, ws, os, traffic, f
    <3> QED BY <1>1, <1>4, <2>1, <2>2 DEF evaluate
  <2>3. CASE f \in DOMAIN seen
    <3> DEFINE t == seen[f]
    <3>1. t \in Nat
      BY <2>3, SeenIsNat DEF TrafficInv
    <3>2. \A i \in In(errors, b) : /\ errors[i].at \in Nat
                                   /\ occurrence(i).at = errors[i].at
                                   /\ occurrence(i).build = build_version(errors[i].ctx)
      BY DEF ModelsInv, TableTypes, IsTable, Row, In, occurrence
    <3>3. /\ \A i \in In(errors, b) : \E w \in ws :
                w.at = hour(errors[i].at) * Hour /\ w.build = build_version(errors[i].ctx)
          /\ \A w \in ws : \E i \in In(errors, b) :
                w.at = hour(errors[i].at) * Hour /\ w.build = build_version(errors[i].ctx)
      BY <1>0, WindowsAreRows
    <3>4. /\ \A i \in In(errors, b) : occurrence(i) \in os
          /\ \A o \in os : \E i \in In(errors, b) : o = occurrence(i)
      OBVIOUS
    <3> DEFINE After(v) == v # NoBuild /\ on_or_after(seen, f, v)
    <3>5. /\ \A w : w \in rw <=> w \in ws /\ After(w.build) /\ w.at >= t
          /\ \A o : o \in ro <=> o \in os /\ After(o.build) /\ o.at >= t
      BY DEF recurrences
    <3>6. Hour \in Nat \ {0}
      BY TelemetryAssumption
    <3> HIDE DEF t, ws, os, rw, ro, After
    <3>7. ASSUME rw # {} PROVE ro # {}
      <4>1. PICK w \in rw : TRUE
        BY <3>7
      <4>2. PICK i \in In(errors, b) :
              w.at = hour(errors[i].at) * Hour /\ w.build = build_version(errors[i].ctx)
        BY <3>3, <3>5, <4>1
      <4>3. hour(errors[i].at) \in Nat /\ hour(errors[i].at) * Hour <= errors[i].at
        BY <3>2, HourOf
      <4> DEFINE x == hour(errors[i].at) * Hour
      <4>4. x \in Int
        BY <3>6, <4>3
      <4>5. w.at = x /\ x <= errors[i].at /\ errors[i].at \in Nat /\ x >= t
        BY <3>2, <3>5, <4>1, <4>2, <4>3
      <4> HIDE DEF x
      <4>6. errors[i].at >= t
        BY <3>1, <4>4, <4>5
      <4>7. occurrence(i) \in ro
        BY <3>2, <3>4, <3>5, <4>1, <4>2, <4>6
      <4> QED BY <4>7
    <3>8. ASSUME rw = {}, NEW o \in ro PROVE hour(o.at) = hour(t)
      <4>1. PICK i \in In(errors, b) : o = occurrence(i)
        BY <3>4, <3>5
      <4>2. PICK w \in ws :
              w.at = hour(errors[i].at) * Hour /\ w.build = build_version(errors[i].ctx)
        BY <3>3
      <4>3. ~(w.at >= t)
        BY <3>2, <3>5, <3>8, <4>1, <4>2
      <4> DEFINE h == hour(errors[i].at)
      <4>4. h \in Nat /\ errors[i].at < h * Hour + Hour /\ errors[i].at \in Nat
        BY <3>2, HourOf
      <4>5. o.at = errors[i].at /\ o.at >= t
        BY <3>2, <3>5, <4>1
      <4>6. ~(h * Hour >= t)
        BY <4>2, <4>3
      <4> HIDE DEF h
      <4>7. h * Hour <= t /\ t < h * Hour + Hour
        BY <3>1, <3>6, <4>4, <4>5, <4>6
      <4>8. hour(t) = h
        BY <3>1, <4>4, <4>7, HourOf
      <4> QED BY <4>5, <4>8 DEF h
    <3>9. CASE rw # {} \/ ro = {}
      <4>1. rw # {} <=> ro # {}
        BY <3>7, <3>9
      <4> HIDE DEF seen, traffic, f
      <4> QED BY <1>1, <2>1, <4>1 DEF evaluate, rw, ro
    <3>10. CASE rw = {} /\ ro # {}
      <4>1. compute_resolution(b) = "regressed"
        <5> HIDE DEF seen, traffic, f
        <5> QED BY <1>4, <2>1, <2>3, <3>10 DEF evaluate, ro
      <4> QED BY <3>8, <3>10, <4>1 DEF ro, os, t
    <3> QED BY <3>9, <3>10
  <2> QED BY <2>2, <2>3
<1> QED BY <1>2, <1>3, <1>4

\* List and detail view agree on the truth about a fix, except that the list
\* misses a recurrence in the hour in which the fix first appeared
\* (bucket_window_counts, compute_resolution).
THEOREM ListAlwaysAgrees == Spec => []ListAgreesWithDetail
BY ModelsInvariant, TrafficInvariant, ViewsAgree, PTL

-----------------------------------------------------------------------------
(* The impact score and the order of the bucket list. *)

\* One unfolding of the sum over s: the term of a chosen element, and the sum
\* over the others.
Chosen(s) == CHOOSE x \in s : TRUE
Unfold(f, g, s) == IF s = {} THEN 0 ELSE f[Chosen(s)] + g[s \ {Chosen(s)}]

\* A nonempty finite set without the element chosen from it.
LEMMA ChosenOut ==
    ASSUME NEW s, IsFiniteSet(s), s # {}
    PROVE  /\ Chosen(s) \in s /\ s \ {Chosen(s)} \subseteq s /\ IsFiniteSet(s \ {Chosen(s)})
           /\ Cardinality(s) \in Nat \ {0}
           /\ Cardinality(s \ {Chosen(s)}) = Cardinality(s) - 1
<1>1. Chosen(s) \in s
  BY DEF Chosen
<1>2. IsFiniteSet(s \ {Chosen(s)}) /\ Cardinality(s \ {Chosen(s)}) = Cardinality(s) - 1
  BY <1>1, FS_RemoveElement
<1>3. Cardinality(s \ {Chosen(s)}) \in Nat /\ Cardinality(s) \in Nat
  BY <1>2, FS_CardinalityType
<1> QED BY <1>1, <1>2, <1>3

\* The sum of natural numbers over a finite set is a natural number.  (The
\* recursion is followed up to each cardinality in turn.)
LEMMA SumType ==
    ASSUME NEW S, IsFiniteSet(S), NEW f, \A x \in S : f[x] \in Nat
    PROVE  Sum(f, S) \in Nat
<1> DEFINE Sized(g, n) ==
             \A s \in SUBSET S : Cardinality(s) <= n => g[s] = Unfold(f, g, s)
           T == {n \in Nat : \E g \in [SUBSET S -> Nat] : Sized(g, n)}
           iter == CHOOSE g : g = [s \in SUBSET S |-> Unfold(f, g, s)]
<1>0. Sum(f, S) = iter[S]
  BY DEF Sum, MapThenSumSet, MapThenFoldSet, Unfold, Chosen
<1>1. ASSUME NEW s \in SUBSET S
      PROVE  IsFiniteSet(s) /\ Cardinality(s) \in Nat /\ Cardinality(s) <= Cardinality(S)
  <2>1. IsFiniteSet(s) /\ Cardinality(s) <= Cardinality(S)
    BY FS_Subset
  <2> QED BY <2>1, FS_CardinalityType
<1>2. ASSUME NEW s \in SUBSET S, s # {}
      PROVE  /\ Chosen(s) \in S /\ s \ {Chosen(s)} \in SUBSET S
             /\ Cardinality(s \ {Chosen(s)}) = Cardinality(s) - 1 /\ Cardinality(s) # 0
  BY <1>1, <1>2, ChosenOut
<1>3. ASSUME NEW g \in [SUBSET S -> Nat], NEW s \in SUBSET S PROVE Unfold(f, g, s) \in Nat
  <2>1. CASE s = {}
    BY <2>1 DEF Unfold
  <2>2. CASE s # {}
    <3>1. f[Chosen(s)] \in Nat /\ g[s \ {Chosen(s)}] \in Nat
      BY <2>2, <1>2
    <3> QED BY <3>1, <2>2 DEF Unfold
  <2> QED BY <2>1, <2>2
<1>a. ASSUME NEW s \in SUBSET S, Cardinality(s) <= 0 PROVE s = {}
  <2>1. Cardinality(s) = 0
    BY <1>a, <1>1
  <2> QED BY <2>1, <1>2
<1>4. 0 \in T
  <2> DEFINE g == [s \in SUBSET S |-> 0]
  <2>2. g \in [SUBSET S -> Nat] /\ \A s \in SUBSET S : g[s] = 0
    OBVIOUS
  <2> HIDE DEF g
  <2>3. Sized(g, 0)
    BY <1>a, <2>2 DEF Unfold
  <2> QED BY <2>2, <2>3
<1>5. ASSUME NEW n \in T PROVE n + 1 \in T
  <2>1. PICK g \in [SUBSET S -> Nat] : Sized(g, n)
    OBVIOUS
  <2>2. n \in Nat
    OBVIOUS
  <2> DEFINE h == [s \in SUBSET S |-> IF Cardinality(s) <= n THEN g[s] ELSE Unfold(f, g, s)]
  <2> HIDE DEF T
  <2>3. h \in [SUBSET S -> Nat]
    BY <1>3
  <2>4. \A s \in SUBSET S : Cardinality(s) <= n => h[s] = g[s]
    OBVIOUS
  <2>5. ASSUME NEW s \in SUBSET S PROVE h[s] = Unfold(f, g, s)
    BY <2>1
  <2> HIDE DEF h
  <2>6. ASSUME NEW s \in SUBSET S, Cardinality(s) <= n + 1 PROVE h[s] = Unfold(f, h, s)
    <3>1. CASE s = {}
      BY <2>5, <3>1 DEF Unfold
    <3>2. CASE s # {}
      <4>1. s \ {Chosen(s)} \in SUBSET S /\ Cardinality(s \ {Chosen(s)}) = Cardinality(s) - 1
        BY <1>2, <3>2
      <4>2. Cardinality(s) - 1 <= n
        BY <1>1, <2>2, <2>6
      <4>3. h[s \ {Chosen(s)}] = g[s \ {Chosen(s)}]
        BY <2>4, <4>1, <4>2
      <4> QED BY <2>5, <3>2, <4>3 DEF Unfold
    <3> QED BY <3>1, <3>2
  <2> QED BY <2>2, <2>3, <2>6 DEF T
<1>6. \A n \in Nat : n \in T
  <2>1. T \subseteq Nat
    OBVIOUS
  <2> HIDE DEF T
  <2> QED BY <2>1, <1>4, <1>5, SetInduction
<1>7. PICK g \in [SUBSET S -> Nat] : Sized(g, Cardinality(S))
  <2>1. Cardinality(S) \in T
    BY <1>1, <1>6
  <2> QED BY <2>1
<1>8. \A s \in SUBSET S : g[s] = Unfold(f, g, s)
  BY <1>1, <1>7
<1>9. g = [s \in SUBSET S |-> Unfold(f, g, s)]
  BY <1>8
<1>10. iter = [s \in SUBSET S |-> Unfold(f, iter, s)]
  BY <1>9
<1> HIDE DEF iter
<1>11. \A s \in SUBSET S : iter[s] = Unfold(f, iter, s)
  BY <1>10
<1> DEFINE V == {n \in Nat : \A s \in SUBSET S : Cardinality(s) <= n => iter[s] \in Nat}
<1>12. 0 \in V
  <2>1. ASSUME NEW s \in SUBSET S, Cardinality(s) <= 0 PROVE iter[s] \in Nat
    <3>1. s = {}
      BY <2>1, <1>a
    <3>2. iter[s] = 0
      BY <3>1, <1>11 DEF Unfold
    <3> QED BY <3>2
  <2> QED BY <2>1
<1>13. ASSUME NEW n \in V PROVE n + 1 \in V
  <2>1. n \in Nat /\ \A s \in SUBSET S : Cardinality(s) <= n => iter[s] \in Nat
    OBVIOUS
  <2>2. ASSUME NEW s \in SUBSET S, Cardinality(s) <= n + 1 PROVE iter[s] \in Nat
    <3>1. CASE s = {}
      <4>1. iter[s] = 0
        BY <3>1, <1>11 DEF Unfold
      <4> QED BY <4>1
    <3>2. CASE s # {}
      <4>1. Chosen(s) \in S /\ s \ {Chosen(s)} \in SUBSET S
            /\ Cardinality(s \ {Chosen(s)}) = Cardinality(s) - 1
        BY <1>2, <3>2
      <4>2. Cardinality(s) - 1 <= n
        BY <1>1, <2>1, <2>2
      <4>3. iter[s \ {Chosen(s)}] \in Nat
        BY <2>1, <4>1, <4>2
      <4>4. iter[s] = f[Chosen(s)] + iter[s \ {Chosen(s)}]
        BY <1>11, <3>2 DEF Unfold
      <4> QED BY <4>1, <4>3, <4>4
    <3> QED BY <3>1, <3>2
  <2> QED BY <2>1, <2>2
<1>14. \A n \in Nat : n \in V
  <2>1. V \subseteq Nat
    OBVIOUS
  <2> HIDE DEF V
  <2> QED BY <2>1, <1>12, <1>13, SetInduction
<1>15. iter[S] \in Nat
  <2>1. Cardinality(S) \in V
    BY <1>1, <1>14
  <2>2. Cardinality(S) <= Cardinality(S)
    BY <1>1
  <2> QED BY <2>1, <2>2
<1> QED BY <1>0, <1>15

\* R orders S strictly and totally.
StrictTotal(R, S) ==
    /\ \A x \in S : <<x, x>> \notin R
    /\ \A x, y \in S : x # y => <<x, y>> \in R \/ <<y, x>> \in R
    /\ \A x, y, z \in S : <<x, y>> \in R /\ <<y, z>> \in R => <<x, z>> \in R

\* sort_by really sorts: its places are filled, and follow the order.  (The number of predecessors is an injection of S into
\* 1 .. Cardinality(S), hence onto it.)
LEMMA SortBySorts ==
    ASSUME NEW S, IsFiniteSet(S), NEW R, StrictTotal(R, S)
    PROVE  /\ Cardinality(S) \in Nat
           /\ sort_by(S, R) \in [1 .. Cardinality(S) -> S]
           /\ \A p, q \in 1 .. Cardinality(S) :
                p < q => <<sort_by(S, R)[p], sort_by(S, R)[q]>> \in R
<1> DEFINE n == Cardinality(S)
           before(x) == {y \in S : <<y, x>> \in R}
           place == [x \in S |-> Cardinality(before(x)) + 1]
           at(p) == CHOOSE x \in S : Cardinality(before(x)) = p - 1
           s == sort_by(S, R)
<1>0. n \in Nat
  BY FS_CardinalityType
<1>a. \A x \in S : before(x) \subseteq S \ {x}
  BY DEF StrictTotal
<1>b. \A x, y \in S : <<x, y>> \in R => before(x) \cup {x} \subseteq before(y)
  BY DEF StrictTotal
<1>c. s = [p \in 1 .. n |-> at(p)]
  BY DEF sort_by
<1> HIDE DEF before
<1>1. ASSUME NEW x \in S
      PROVE  IsFiniteSet(before(x)) /\ Cardinality(before(x)) \in Nat
             /\ Cardinality(before(x)) + 1 <= n
  <2>1. before(x) \subseteq S \ {x}
    BY <1>a
  <2>2. IsFiniteSet(S \ {x}) /\ Cardinality(S \ {x}) = n - 1
    BY FS_RemoveElement
  <2>3. IsFiniteSet(before(x)) /\ Cardinality(before(x)) <= n - 1
    BY <2>1, <2>2, FS_Subset
  <2>4. Cardinality(before(x)) \in Nat
    BY <2>3, FS_CardinalityType
  <2> QED BY <1>0, <2>3, <2>4
<1>2. ASSUME NEW x \in S, NEW y \in S, <<x, y>> \in R
      PROVE  Cardinality(before(x)) < Cardinality(before(y))
  <2>1. x \notin before(x) /\ before(x) \cup {x} \subseteq before(y)
    BY <1>2, <1>a, <1>b
  <2>2. Cardinality(before(x) \cup {x}) = Cardinality(before(x)) + 1
    BY <1>1, <2>1, FS_AddElement
  <2>3. Cardinality(before(x) \cup {x}) <= Cardinality(before(y))
    BY <1>1, <2>1, FS_Subset
  <2> QED BY <1>1, <2>2, <2>3
<1>3. place \in Injection(S, 1 .. n)
  <2>1. place \in [S -> 1 .. n]
    BY <1>0, <1>1
  <2>2. ASSUME NEW x \in S, NEW y \in S, place[x] = place[y] PROVE x = y
    <3>1. Cardinality(before(x)) = Cardinality(before(y))
      BY <1>1, <2>2
    <3>2. Cardinality(before(x)) \in Nat /\ Cardinality(before(y)) \in Nat
      BY <1>1
    <3>3. <<x, y>> \notin R /\ <<y, x>> \notin R
      BY <1>2, <3>1, <3>2
    <3> QED BY <3>3 DEF StrictTotal
  <2> HIDE DEF place
  <2> QED BY <2>1, <2>2 DEF Injection, IsInjective
<1>4. place \in Surjection(S, 1 .. n)
  <2>1. IsFiniteSet(1 .. n) /\ Cardinality(1 .. n) = n
    BY <1>0, FS_Interval
  <2> HIDE DEF place
  <2> QED BY <1>3, <2>1, FS_Injection
<1>5. ASSUME NEW p \in 1 .. n
      PROVE  s[p] \in S /\ Cardinality(before(s[p])) = p - 1
  <2>1. PICK x \in S : place[x] = p
    BY <1>4 DEF Surjection
  <2>2. Cardinality(before(x)) = p - 1
    BY <1>1, <2>1
  <2>3. at(p) \in S /\ Cardinality(before(at(p))) = p - 1
    BY <2>2
  <2> HIDE DEF at, s
  <2> QED BY <1>c, <2>3
<1>6. s \in [1 .. n -> S]
  <2> HIDE DEF at, s
  <2> QED BY <1>5, <1>c
<1>7. ASSUME NEW p \in 1 .. n, NEW q \in 1 .. n, p < q PROVE <<s[p], s[q]>> \in R
  <2> DEFINE x == s[p]  y == s[q]
  <2>1. x \in S /\ y \in S /\ Cardinality(before(x)) = p - 1 /\ Cardinality(before(y)) = q - 1
    BY <1>5
  <2> HIDE DEF x, y, s
  <2>2. Cardinality(before(x)) < Cardinality(before(y))
    BY <1>0, <1>7, <2>1
  <2>3. x # y /\ <<y, x>> \notin R
    BY <1>1, <1>2, <2>1, <2>2
  <2>4. <<x, y>> \in R
    BY <2>1, <2>3 DEF StrictTotal
  <2> QED BY <2>4 DEF x, y
<1> QED BY <1>0, <1>6, <1>7

\* The order of the bucket list is strict and total on items that their
\* bucket determines.
LEMMA ListOrderIsTotal ==
    ASSUME NEW items, \A x \in items : x.score \in Int /\ x.bucket \in Int,
           \A x, y \in items : x.bucket = y.bucket => x = y
    PROVE  StrictTotal(ListOrder(items), items)
<1>1. \A x, y \in items : <<x, y>> \in ListOrder(items) <=>
         x.score > y.score \/ (x.score = y.score /\ x.bucket < y.bucket)
  BY DEF ListOrder
<1>2. \A x \in items : <<x, x>> \notin ListOrder(items)
  BY <1>1
<1>3. \A x, y \in items : x # y =>
         <<x, y>> \in ListOrder(items) \/ <<y, x>> \in ListOrder(items)
  BY <1>1
<1>4. ASSUME NEW x \in items, NEW y \in items, NEW z \in items,
             <<x, y>> \in ListOrder(items), <<y, z>> \in ListOrder(items)
      PROVE  <<x, z>> \in ListOrder(items)
  BY <1>1, <1>4
<1> QED BY <1>2, <1>3, <1>4 DEF StrictTotal

\* A quotient of at most a hundred times the divisor.
LEMMA Percent ==
    ASSUME NEW a \in Nat, NEW d \in Nat \ {0}, a <= 100 * d
    PROVE  a \div d \in 0 .. 100
<1>1. a \div d \in Nat /\ (a \div d) * d <= a
  OBVIOUS
<1>2. ASSUME NEW q \in Nat, q * d <= a, ~(q <= 100) PROVE FALSE
  <2>1. q - 101 \in Nat
    BY <1>2
  <2>2. (q - 101) * d >= 0
    BY <2>1
  <2>3. q * d = (q - 101) * d + 101 * d
    BY <2>1
  <2> QED BY <1>2, <2>2, <2>3
<1> QED BY <1>1, <1>2

\* The factors of the score are percentages.
LEMMA BlastBound ==
    ASSUME NEW n \in Nat
    PROVE  blast_factor(n) \in 0 .. 100
<1> DEFINE reached == {p \in DOMAIN BlastSteps : n >= BlastSteps[p]}
<1>1. reached \subseteq 1 .. 20
  BY DEF BlastSteps
<1>2. blast_factor(n) = 5 * Cardinality(reached)
  BY DEF blast_factor, Count
<1> HIDE DEF reached
<1>3. IsFiniteSet(1 .. 20) /\ Cardinality(1 .. 20) = 20
  <2>1. ASSUME NEW m \in Nat PROVE IsFiniteSet(1 .. m) /\ Cardinality(1 .. m) = m
    BY FS_Interval
  <2> QED BY <2>1
<1>4. IsFiniteSet(reached) /\ Cardinality(reached) <= 20
  <2> DEFINE steps == 1 .. 20
  <2>1. reached \subseteq steps /\ IsFiniteSet(steps) /\ Cardinality(steps) = 20
    BY <1>1, <1>3
  <2> HIDE DEF steps
  <2> QED BY <2>1, FS_Subset
<1>5. Cardinality(reached) \in Nat
  BY <1>4, FS_CardinalityType
<1> QED BY <1>2, <1>4, <1>5

\* A timeline: natural numbers over finitely many hours.
IsTimeline(hits) == IsFiniteSet(DOMAIN hits) /\ \A h \in DOMAIN hits : hits[h] \in Nat

\* What a part of a timeline adds up to.
LEMMA PartialSum ==
    ASSUME NEW hits, IsTimeline(hits), NEW part, part \subseteq DOMAIN hits
    PROVE  Sum(hits, part) \in Nat
<1>1. IsFiniteSet(part)
  BY FS_Subset DEF IsTimeline
<1>2. \A h \in part : hits[h] \in Nat
  BY DEF IsTimeline
<1> QED BY <1>1, <1>2, SumType

\* The hits of the last day, capped.
LEMMA FrequencyBound ==
    ASSUME NEW hits, IsTimeline(hits)
    PROVE  frequency_factor(hits) \in 0 .. 100
<1> DEFINE recent == {h \in DOMAIN hits : h * Hour >= now - Day}
           n == 2 * Sum(hits, recent)
<1>1. frequency_factor(hits) = Min({100, n})
  BY DEF frequency_factor
<1>2. recent \subseteq DOMAIN hits
  OBVIOUS
<1> HIDE DEF recent
<1>3. Sum(hits, recent) \in Nat
  BY <1>2, PartialSum
<1>4. n \in Nat
  BY <1>3
<1> HIDE DEF n
<1>5. Min({100, n}) \in {100, n} /\ Min({100, n}) <= 100
  BY <1>4, PairEnds
<1> QED BY <1>1, <1>4, <1>5

\* The share of the newer half is a share.
LEMMA TrendBound ==
    ASSUME NEW hits, IsTimeline(hits)
    PROVE  trend_factor(hits) \in 0 .. 100
<1> DEFINE hours == DOMAIN hits
           mid == Count(hours) \div 2
           half == {h \in hours : Count({g \in hours : g < h}) < mid}
           older == Sum(hits, half)
           newer == Sum(hits, hours \ half)
<1>1. trend_factor(hits) = IF Count(hours) < 2 \/ older + newer = 0 THEN 50
                           ELSE (100 * newer) \div (older + newer)
  BY DEF trend_factor
<1>2. half \subseteq DOMAIN hits /\ hours \ half \subseteq DOMAIN hits
  OBVIOUS
<1> HIDE DEF half
<1>3. older \in Nat /\ newer \in Nat
  BY <1>2, PartialSum
<1> HIDE DEF older, newer, hours, mid
<1>4. CASE older + newer = 0
  BY <1>1, <1>4
<1>5. CASE older + newer # 0
  <2>1. 100 * newer \in Nat /\ older + newer \in Nat \ {0} /\ 100 * newer <= 100 * (older + newer)
    BY <1>3, <1>5
  <2>2. (100 * newer) \div (older + newer) \in 0 .. 100
    BY <2>1, Percent
  <2> QED BY <1>1, <2>2
<1> QED BY <1>4, <1>5

\* The decay with the last occurrence.
LEMMA RecencyBound ==
    ASSUME NEW last \in Nat, now \in Nat
    PROVE  recency_factor(last) \in 0 .. 100
<1> DEFINE gap == (now - last) \div Day
           halved == <<100, 50, 25, 12, 6, 3, 1>>
<1>1. recency_factor(last) = IF now <= last THEN 100
                             ELSE IF gap < 7 THEN halved[gap + 1] ELSE 0
  BY DEF recency_factor
<1>2. CASE now <= last
  BY <1>1, <1>2
<1>3. CASE ~(now <= last)
  <2>1. gap \in Nat
    <3>1. now - last \in Nat /\ Day \in Nat \ {0}
      BY <1>3, TelemetryAssumption
    <3> QED BY <3>1
  <2> HIDE DEF gap
  <2>2. CASE gap < 7
    <3>1. gap + 1 \in 1 .. 7
      BY <2>1, <2>2
    <3>2. halved[gap + 1] \in 0 .. 100
      BY <3>1
    <3> QED BY <1>1, <1>3, <2>2, <3>2
  <2>3. CASE ~(gap < 7)
    BY <1>1, <1>3, <2>3
  <2> QED BY <2>2, <2>3
<1> QED BY <1>2, <1>3

\* The values of a function on a finite set are finitely many.
LEMMA ImageFinite ==
    ASSUME NEW S, IsFiniteSet(S), NEW f, DOMAIN f = S
    PROVE  IsFiniteSet({f[x] : x \in S})
<1> DEFINE T == {f[x] : x \in S}
           g == [x \in S |-> f[x]]
<1>1. g \in Surjection(S, T)
  BY DEF Surjection
<1> HIDE DEF T, g
<1>2. IsFiniteSet(T)
  BY <1>1, FS_Surjection
<1> QED BY <1>2 DEF T

\* The rows of a bucket are finitely many, and each counts a natural number.
LEMMA WindowRowsFinite ==
    ASSUME ModelsInv, NEW b \in Buckets
    PROVE  /\ IsFiniteSet(WindowRows(b))
           /\ \A k \in WindowRows(b) : models.bucket_windows[k] \in Nat
<1> DEFINE P == {b} \X Hours
           C == Builds \cup {NoBuild}
           flat(w) == <<w[1][1], w[1][2], w[2]>>
           D == {flat(w) : w \in P \X C}
<1>1. IsFiniteSet({b}) /\ IsFiniteSet(Hours) /\ IsFiniteSet(C)
  <2>1. IsFiniteSet({b})
    BY FS_Singleton
  <2>2. IsFiniteSet(Hours)
    <3>1. MaxTime \div Hour \in Int
      BY TelemetryAssumption
    <3> QED BY <3>1, FS_Interval DEF Hours
  <2>3. IsFiniteSet(Builds)
    BY TelemetryAssumption
  <2>4. IsFiniteSet(C)
    BY <2>3, FS_AddElement
  <2> QED BY <2>1, <2>2, <2>4
<1>2. IsFiniteSet(P)
  <2> HIDE DEF C
  <2> QED BY <1>1, FS_Product
<1>3. IsFiniteSet(P \X C)
  <2> HIDE DEF C, P
  <2> QED BY <1>1, <1>2, FS_Product
<1>4. IsFiniteSet(D)
  <2> DEFINE f == [w \in P \X C |-> flat(w)]
  <2>1. DOMAIN f = P \X C /\ D = {f[w] : w \in P \X C}
    OBVIOUS
  <2> HIDE DEF f, D, P, C
  <2> QED BY <1>3, <2>1, ImageFinite
<1>5. WindowRows(b) \subseteq D
  <2> SUFFICES ASSUME NEW k \in WindowRows(b) PROVE k \in D
    OBVIOUS
  <2>1. k \in {b} \X Hours \X C
    BY DEF WindowRows
  <2>2. PICK h \in Hours, c \in C : k = <<b, h, c>>
    BY <2>1
  <2> DEFINE w == <<<<b, h>>, c>>
  <2>3. w \in P \X C
    BY <2>2
  <2>4. flat(w) = k
    BY <2>2
  <2> HIDE DEF w, flat
  <2> QED BY <2>3, <2>4
<1> HIDE DEF D
<1>6. IsFiniteSet(WindowRows(b))
  BY <1>4, <1>5, FS_Subset
<1>7. ASSUME NEW k \in WindowRows(b) PROVE models.bucket_windows[k] \in Nat
  <2>1. k \in WindowDomain
    BY DEF WindowRows, WindowDomain
  <2>2. models.bucket_windows \in [WindowDomain -> Nat]
    BY DEF ModelsInv, TableTypes, Tables
  <2> QED BY <2>1, <2>2
<1> QED BY <1>6, <1>7

\* The total series of a bucket, summed over the builds of an hour.
LEMMA TimelineIsTimeline ==
    ASSUME ModelsInv, NEW b \in Buckets
    PROVE  IsTimeline(timeline_total(b))
<1> DEFINE R == WindowRows(b)
           third(k) == k[2]
           H == {third(k) : k \in R}
           at(h) == {k \in R : k[2] = h}
           hits == timeline_total(b)
<1>1. IsFiniteSet(R) /\ \A k \in R : models.bucket_windows[k] \in Nat
  BY WindowRowsFinite
<1>2. IsFiniteSet(H)
  <2> DEFINE f == [k \in R |-> third(k)]
  <2>1. DOMAIN f = R /\ H = {f[k] : k \in R}
    OBVIOUS
  <2> HIDE DEF f, H, R
  <2> QED BY <1>1, <2>1, ImageFinite
<1>3. hits = [h \in H |-> Sum(models.bucket_windows, at(h))]
  BY DEF timeline_total
<1>4. ASSUME NEW h \in H PROVE Sum(models.bucket_windows, at(h)) \in Nat
  <2>1. at(h) \subseteq R
    OBVIOUS
  <2> HIDE DEF at, R
  <2>2. IsFiniteSet(at(h)) /\ \A k \in at(h) : models.bucket_windows[k] \in Nat
    BY <1>1, <2>1, FS_Subset
  <2> QED BY <2>2, SumType
<1> HIDE DEF H, at, hits
<1>5. DOMAIN hits = H /\ \A h \in H : hits[h] \in Nat
  BY <1>3, <1>4
<1> QED BY <1>2, <1>5 DEF IsTimeline, hits

\* Which scores a bucket of the list can have.  No severity weighs less than
\* 30 percent, so a regression collects 132 at least; a bucket that did not
\* regress has at most the 115 of the weights and the 12 of a new one.
LEMMA ScoreBounds ==
    ASSUME HorizonInv, ModelsInv, NEW b \in bucket_rollups, NEW status
    PROVE  /\ impact_score(b, status) \in Int
           /\ status = "regressed" => impact_score(b, status) >= 13200
           /\ status # "regressed" => impact_score(b, status) <= 12700
<1> DEFINE hits == timeline_total(b)
           sev == severity[b]
           bl == blast_factor(rollup_count(b))
           fr == frequency_factor(hits)
           tr == trend_factor(hits)
           re == recency_factor(models.bucket_summaries[b].last_seen)
<1>1. b \in Buckets /\ models.bucket_summaries[b] \in Summaries
  BY DEF bucket_rollups, ModelsInv, TableTypes, Tables
<1>2. rollup_count(b) \in Nat /\ models.bucket_summaries[b].last_seen \in Nat
  BY <1>1 DEF rollup_count, Summaries
<1>3. now \in Nat
  BY DEF HorizonInv, HorizonTypes
<1>4. IsTimeline(hits)
  BY <1>1, TimelineIsTimeline
<1>5. sev \in 30 .. 100
  <2>1. sev \in Severities
    BY <1>1, TelemetryAssumption
  <2> QED BY <2>1 DEF Severities
<1>6. impact_score(b, status) =
        40 * sev + 25 * bl + 15 * fr + 20 * tr + 15 * re
        + (IF b \notin Triaged THEN 100 * 12 ELSE 0)
        + (IF status = "regressed" THEN 100 * 120 ELSE 0)
  BY DEF impact_score, W_SEVERITY, W_BLAST, W_FREQUENCY, W_TREND, W_RECENCY, BOOST_NEW,
         BOOST_REGRESSED
<1> HIDE DEF hits
<1>7. bl \in 0 .. 100 /\ fr \in 0 .. 100 /\ tr \in 0 .. 100 /\ re \in 0 .. 100
  BY <1>2, <1>3, <1>4, BlastBound, FrequencyBound, TrendBound, RecencyBound
<1> HIDE DEF sev, bl, fr, tr, re
<1>8. CASE status = "regressed"
  BY <1>5, <1>6, <1>7, <1>8
<1>9. CASE status # "regressed"
  BY <1>5, <1>6, <1>7, <1>9
<1> QED BY <1>8, <1>9

\* A regressed bucket stands before one that is not.
LEMMA RegressedStandFirst == HorizonInv /\ ModelsInv => RegressedFirst
<1> SUFFICES ASSUME HorizonInv, ModelsInv PROVE RegressedFirst
  OBVIOUS
<1> DEFINE X == bucket_rollups \ Pending
           items == {Item(b) : b \in X}
           list == sort_by(items, ListOrder(items))
<1>1. bucket_list = list
  BY DEF bucket_list
<1>2. X \subseteq Buckets /\ IsFiniteSet(X)
  <2>1. X \subseteq Buckets
    BY DEF bucket_rollups
  <2> HIDE DEF X
  <2> QED BY <2>1, TelemetryAssumption, FS_Subset
<1>3. IsFiniteSet(items)
  <2> DEFINE f == [b \in X |-> Item(b)]
  <2>1. DOMAIN f = X /\ items = {f[b] : b \in X}
    OBVIOUS
  <2> HIDE DEF f, items, X
  <2> QED BY <1>2, <2>1, ImageFinite
<1>4. ASSUME NEW b \in X
      PROVE  /\ Item(b).bucket = b /\ b \in Nat
             /\ Item(b).score \in Int
             /\ Item(b).status = "regressed" => Item(b).score >= 13200
             /\ Item(b).status # "regressed" => Item(b).score <= 12700
  <2> DEFINE st == list_status(b)  sc == impact_score(b, st)
  <2>1. b \in Nat /\ b \in bucket_rollups
    BY <1>2, TelemetryAssumption
  <2>2. /\ sc \in Int
        /\ st = "regressed" => sc >= 13200
        /\ st # "regressed" => sc <= 12700
    <3> HIDE DEF st
    <3> QED BY <2>1, ScoreBounds
  <2>3. Item(b).bucket = b /\ Item(b).status = st /\ Item(b).score = sc
    BY DEF Item
  <2> HIDE DEF st, sc
  <2> QED BY <2>1, <2>2, <2>3
<1>5. \A x \in items : \E b \in X : x = Item(b)
  OBVIOUS
<1> HIDE DEF X, items
<1>6. \A x \in items : x.score \in Int /\ x.bucket \in Int
  BY <1>4, <1>5
<1>7. \A x, y \in items : x.bucket = y.bucket => x = y
  BY <1>4, <1>5
<1>8. StrictTotal(ListOrder(items), items)
  BY <1>6, <1>7, ListOrderIsTotal
<1>9. /\ Cardinality(items) \in Nat
      /\ list \in [1 .. Cardinality(items) -> items]
      /\ \A p, q \in 1 .. Cardinality(items) :
           p < q => <<list[p], list[q]>> \in ListOrder(items)
  BY <1>3, <1>8, SortBySorts
<1> HIDE DEF list
<1>10. ASSUME NEW i \in DOMAIN list, NEW j \in DOMAIN list, i < j, list[j].status = "regressed"
       PROVE  list[i].status = "regressed"
  <2>1. list[i] \in items /\ list[j] \in items /\ <<list[i], list[j]>> \in ListOrder(items)
    BY <1>9, <1>10
  <2>2. list[i].score >= list[j].score
    BY <2>1, <1>6 DEF ListOrder
  <2>3. list[j].score >= 13200
    BY <2>1, <1>4, <1>5, <1>10
  <2>4. list[i].status # "regressed" => list[i].score <= 12700
    BY <2>1, <1>4, <1>5
  <2> QED BY <2>1, <2>2, <2>3, <2>4, <1>6
<1> QED BY <1>1, <1>10 DEF RegressedFirst

\* A regressed bucket precedes every other one on the list, whatever the
\* severity, the volume, the trend and the novelty of the others
\* (impact_score and the sort of the bucket list).
THEOREM RegressedAlwaysFirst == Spec => []RegressedFirst
BY HorizonInvariant, ModelsInvariant, RegressedStandFirst, PTL
=============================================================================
