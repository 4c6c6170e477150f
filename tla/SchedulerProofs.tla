-------------------------- MODULE SchedulerProofs ---------------------------
(***************************************************************************)
(* Proofs about the claim scheduler (jobs/scheduler.rs and its gathering   *)
(* of candidates in jobs/worker.rs): the comparator of claim_order is an   *)
(* order a sort may use, the sort by it ranks any candidates fairly and    *)
(* whatever the order of the rows, and the invariants of the specification *)
(* follow for any jobs, tenants, loads and instants.                       *)
(***************************************************************************)
EXTENDS Scheduler, FiniteSetTheorems, TLAPS

Classes == {"Interactive", "Batch"}

\* A candidate of a job submitted at time e, with any load, share and cap.
CandidateAt(e) ==
    {c \in [job : Nat, tenant : Nat, tier : {"Mac", "Elastic"}, class : Classes,
            deadline_unix : Int, tenant_running : Nat, tenant_fair_share : Nat,
            tenant_lane_cap : Nat] :
        c.deadline_unix = deadline_unix(e, c.class)}

\* What claim_order sorts by.
Key(c, at) == <<claim_score(c, at), c.deadline_unix, c.tenant>>

-----------------------------------------------------------------------------
\* The load above the share is a natural number: the difference of claim_score
\* never wraps.
LEMMA OverType ==
    ASSUME NEW e \in Nat, NEW c \in CandidateAt(e)
    PROVE  Over(c) \in Nat
BY DEF CandidateAt, Over

\* The score of a candidate, from its age.
LEMMA ScoreFromAge ==
    ASSUME NEW e \in Nat, NEW c \in CandidateAt(e), NEW at \in Nat
    PROVE  /\ claim_score(c, at) \in Int /\ c.deadline_unix \in Int /\ c.tenant \in Nat
           /\ c.class = "Interactive" =>
                /\ claim_score(c, at) = e + 600 - at - 3600 + 30 * Over(c)
                /\ c.deadline_unix = e + 600
           /\ c.class # "Interactive" =>
                /\ claim_score(c, at) = e + 21600 - at + 30 * Over(c)
                /\ c.deadline_unix = e + 21600
<1>1. Over(c) \in Nat
  BY OverType
<1>2. c.deadline_unix = deadline_unix(e, c.class) /\ c.tenant \in Nat
  BY DEF CandidateAt
<1> QED
  BY <1>1, <1>2 DEF claim_score, deadline_unix, INTERACTIVE_SLA_S, BATCH_SLA_S,
                    INTERACTIVE_BOOST, FAIRNESS_PENALTY

\* The comparator of claim_order is a strict weak order whose ties are exactly
\* the candidates of one score, deadline and tenant: the precondition of
\* Rust's sort, and the reason why the order of the rows decides nothing else.
THEOREM PrecedesIsAnOrder ==
    ASSUME NEW ea \in Nat, NEW eb \in Nat, NEW ec \in Nat, NEW at \in Nat,
           NEW a \in CandidateAt(ea), NEW b \in CandidateAt(eb), NEW c \in CandidateAt(ec)
    PROVE  /\ ~Precedes(a, a, at)
           /\ Precedes(a, b, at) /\ Precedes(b, c, at) => Precedes(a, c, at)
           /\ (~Precedes(a, b, at) /\ ~Precedes(b, a, at)) <=> Key(a, at) = Key(b, at)
<1>1. \A x \in {a, b, c} :
         claim_score(x, at) \in Int /\ x.deadline_unix \in Int /\ x.tenant \in Nat
  BY ScoreFromAge
<1>2. ~Precedes(a, a, at)
  BY <1>1 DEF Precedes
<1>3. Precedes(a, b, at) /\ Precedes(b, c, at) => Precedes(a, c, at)
  BY <1>1 DEF Precedes
<1>4. (~Precedes(a, b, at) /\ ~Precedes(b, a, at)) <=>
         /\ claim_score(a, at) = claim_score(b, at)
         /\ a.deadline_unix = b.deadline_unix /\ a.tenant = b.tenant
  BY <1>1 DEF Precedes
<1>5. Key(a, at) = Key(b, at) <=>
         /\ claim_score(a, at) = claim_score(b, at)
         /\ a.deadline_unix = b.deadline_unix /\ a.tenant = b.tenant
  BY DEF Key
<1> QED BY <1>2, <1>3, <1>4, <1>5

\* The passing of time reorders nothing: two workers that rank the same
\* candidates at different instants agree (claim_order's now_unix).
THEOREM RankingIgnoresTheClock ==
    ASSUME NEW ea \in Nat, NEW eb \in Nat, NEW s \in Nat, NEW t \in Nat,
           NEW a \in CandidateAt(ea), NEW b \in CandidateAt(eb)
    PROVE  Precedes(a, b, s) <=> Precedes(a, b, t)
<1>1. Over(a) \in Nat /\ Over(b) \in Nat
  BY OverType
<1>2. /\ claim_score(a, s) - claim_score(a, t) = t - s
      /\ claim_score(b, s) - claim_score(b, t) = t - s
  BY <1>1, ScoreFromAge
<1>3. /\ claim_score(a, s) \in Int /\ claim_score(a, t) \in Int
      /\ claim_score(b, s) \in Int /\ claim_score(b, t) \in Int
  BY ScoreFromAge
<1>4. /\ claim_score(a, s) < claim_score(b, s) <=> claim_score(a, t) < claim_score(b, t)
      /\ claim_score(a, s) = claim_score(b, s) <=> claim_score(a, t) = claim_score(b, t)
  BY <1>2, <1>3
<1> QED BY <1>4 DEF Precedes

\* A candidate is passed only by work submitted at most 24 600 seconds after it
\* and 30 for every shard its own tenant runs above its share: the bound of
\* OvertakingIsBounded, for any candidates.
THEOREM OvertakingBound ==
    ASSUME NEW ea \in Nat, NEW eb \in Nat, NEW at \in Nat,
           NEW a \in CandidateAt(ea), NEW b \in CandidateAt(eb), Precedes(a, b, at)
    PROVE  ea <= eb + (BATCH_SLA_S - INTERACTIVE_SLA_S + INTERACTIVE_BOOST)
                    + FAIRNESS_PENALTY * Over(b)
<1>1. Over(a) \in Nat /\ Over(b) \in Nat
  BY OverType
<1>2. claim_score(a, at) \in Int /\ claim_score(b, at) \in Int
  BY ScoreFromAge
<1>3. claim_score(a, at) >= ea - 3000 - at
  BY <1>1, ScoreFromAge
<1>4. claim_score(b, at) <= eb + 21600 - at + 30 * Over(b)
  <2>1. CASE b.class = "Interactive"
    <3>1. claim_score(b, at) = eb + 600 - at - 3600 + 30 * Over(b)
      BY <2>1, ScoreFromAge
    <3> QED BY <1>1, <3>1
  <2>2. CASE b.class # "Interactive"
    <3>1. claim_score(b, at) = eb + 21600 - at + 30 * Over(b)
      BY <2>2, ScoreFromAge
    <3> QED BY <1>1, <3>1
  <2> QED BY <2>1, <2>2
<1>5. claim_score(a, at) <= claim_score(b, at)
  BY <1>2 DEF Precedes
<1>6. ea <= eb + 24600 + 30 * Over(b)
  BY <1>1, <1>2, <1>3, <1>4, <1>5
<1> QED
  BY <1>6 DEF INTERACTIVE_SLA_S, BATCH_SLA_S, INTERACTIVE_BOOST, FAIRNESS_PENALTY

\* Of two candidates of one class and age, the one whose tenant runs above its
\* share comes second (HogYields), for any candidates.
THEOREM HogComesSecond ==
    ASSUME NEW e \in Nat, NEW at \in Nat, NEW a \in CandidateAt(e), NEW b \in CandidateAt(e),
           a.class = b.class, Over(a) > 0, Over(b) = 0
    PROVE  Precedes(b, a, at) /\ ~Precedes(a, b, at)
<1>1. Over(a) \in Nat /\ Over(b) \in Nat
  BY OverType
<1>2. claim_score(b, at) < claim_score(a, at)
  BY <1>1, ScoreFromAge
<1> QED BY <1>2, ScoreFromAge DEF Precedes

-----------------------------------------------------------------------------
(* The sort. *)

\* R orders S strictly and totally.
StrictTotal(R, S) ==
    /\ \A x \in S : <<x, x>> \notin R
    /\ \A x, y \in S : x # y => <<x, y>> \in R \/ <<y, x>> \in R
    /\ \A x, y, z \in S : <<x, y>> \in R /\ <<y, z>> \in R => <<x, z>> \in R

\* sort_by really sorts: every element has one place, and the places follow
\* the order.  (The number of predecessors is an injection of S into
\* 1 .. Cardinality(S), hence onto it.)
LEMMA SortBySorts ==
    ASSUME NEW S, IsFiniteSet(S), NEW R, StrictTotal(R, S)
    PROVE  /\ Cardinality(S) \in Nat
           /\ sort_by(S, R) \in Bijection(1 .. Cardinality(S), S)
           /\ \A p, q \in 1 .. Cardinality(S) :
                p < q => <<sort_by(S, R)[p], sort_by(S, R)[q]>> \in R
<1> DEFINE n == Cardinality(S)
           before(x) == {y \in S : <<y, x>> \in R}
           place == [x \in S |-> Cardinality(before(x)) + 1]
           at(p) == CHOOSE x \in S : Cardinality(before(x)) = p - 1
           s == sort_by(S, R)
<1>0. n \in Nat
  BY FS_CardinalityType
<1>a. \A x \in S : before(x) \subseteq S \ {x}
  BY DEF StrictTotal
<1>b. \A x, y \in S : <<x, y>> \in R => before(x) \cup {x} \subseteq before(y)
  BY DEF StrictTotal
<1>c. s = [p \in 1 .. n |-> at(p)]
  BY DEF sort_by
<1> HIDE DEF before
<1>1. ASSUME NEW x \in S
      PROVE  IsFiniteSet(before(x)) /\ Cardinality(before(x)) \in Nat
             /\ Cardinality(before(x)) + 1 <= n
  <2>1. before(x) \subseteq S \ {x}
    BY <1>a
  <2>2. IsFiniteSet(S \ {x}) /\ Cardinality(S \ {x}) = n - 1
    BY FS_RemoveElement
  <2>3. IsFiniteSet(before(x)) /\ Cardinality(before(x)) <= n - 1
    BY <2>1, <2>2, FS_Subset
  <2>4. Cardinality(before(x)) \in Nat
    BY <2>3, FS_CardinalityType
  <2> QED BY <1>0, <2>3, <2>4
<1>2. ASSUME NEW x \in S, NEW y \in S, <<x, y>> \in R
      PROVE  Cardinality(before(x)) < Cardinality(before(y))
  <2>1. x \notin before(x) /\ before(x) \cup {x} \subseteq before(y)
    BY <1>2, <1>a, <1>b
  <2>2. Cardinality(before(x) \cup {x}) = Cardinality(before(x)) + 1
    BY <1>1, <2>1, FS_AddElement
  <2>3. Cardinality(before(x) \cup {x}) <= Cardinality(before(y))
    BY <1>1, <2>1, FS_Subset
  <2> QED BY <1>1, <2>2, <2>3
<1>3. place \in Injection(S, 1 .. n)
  <2>1. place \in [S -> 1 .. n]
    BY <1>0, <1>1
  <2>2. ASSUME NEW x \in S, NEW y \in S, place[x] = place[y] PROVE x = y
    <3>1. Cardinality(before(x)) = Cardinality(before(y))
      BY <1>1, <2>2
    <3>2. Cardinality(before(x)) \in Nat /\ Cardinality(before(y)) \in Nat
      BY <1>1
    <3>3. <<x, y>> \notin R /\ <<y, x>> \notin R
      BY <1>2, <3>1, <3>2
    <3> QED BY <3>3 DEF StrictTotal
  <2> HIDE DEF place
  <2> QED BY <2>1, <2>2 DEF Injection, IsInjective
<1>4. place \in Surjection(S, 1 .. n)
  <2>1. IsFiniteSet(1 .. n) /\ Cardinality(1 .. n) = n
    BY <1>0, FS_Interval
  <2> HIDE DEF place
  <2> QED BY <1>3, <2>1, FS_Injection
<1>5. ASSUME NEW p \in 1 .. n
      PROVE  s[p] \in S /\ Cardinality(before(s[p])) = p - 1
  <2>1. PICK x \in S : place[x] = p
    BY <1>4 DEF Surjection
  <2>2. Cardinality(before(x)) = p - 1
    BY <1>1, <2>1
  <2>3. at(p) \in S /\ Cardinality(before(at(p))) = p - 1
    BY <2>2
  <2> HIDE DEF at, s
  <2> QED BY <1>c, <2>3
<1>6. s \in [1 .. n -> S]
  <2> HIDE DEF at, s
  <2> QED BY <1>5, <1>c
<1>7. ASSUME NEW p \in 1 .. n, NEW q \in 1 .. n, p < q PROVE <<s[p], s[q]>> \in R
  <2> DEFINE x == s[p]  y == s[q]
  <2>1. x \in S /\ y \in S /\ Cardinality(before(x)) = p - 1 /\ Cardinality(before(y)) = q - 1
    BY <1>5
  <2> HIDE DEF x, y, s
  <2>2. Cardinality(before(x)) < Cardinality(before(y))
    BY <1>0, <1>7, <2>1
  <2>3. x # y /\ <<y, x>> \notin R
    BY <1>1, <1>2, <2>1, <2>2
  <2>4. <<x, y>> \in R
    BY <2>1, <2>3 DEF StrictTotal
  <2> QED BY <2>4 DEF x, y
<1>8. ASSUME NEW x \in S PROVE \E p \in 1 .. n : s[p] = x
  <2> DEFINE p == Cardinality(before(x)) + 1
  <2>1. p \in 1 .. n
    BY <1>0, <1>1
  <2>a. p - 1 = Cardinality(before(x))
    BY <1>1
  <2>2. Cardinality(before(s[p])) = Cardinality(before(x)) /\ s[p] \in S
    BY <1>5, <2>1, <2>a
  <2> HIDE DEF p, s
  <2>3. <<x, s[p]>> \notin R /\ <<s[p], x>> \notin R
    BY <1>1, <1>2, <2>2
  <2> QED BY <2>1, <2>2, <2>3 DEF StrictTotal
<1> HIDE DEF s, n
<1>9. \A p, q \in 1 .. n : s[p] = s[q] => p = q
  <2> SUFFICES ASSUME NEW p \in 1 .. n, NEW q \in 1 .. n, s[p] = s[q], p # q PROVE FALSE
    OBVIOUS
  <2>1. s[p] \in S /\ <<s[p], s[p]>> \in R
    BY <1>0, <1>6, <1>7
  <2> QED BY <2>1 DEF StrictTotal
<1>10. s \in Bijection(1 .. n, S)
  BY <1>6, <1>8, <1>9 DEF Bijection, Injection, Surjection, IsInjective
<1> QED BY <1>0, <1>7, <1>10 DEF s, n

-----------------------------------------------------------------------------
(* The ranking of any list of candidates. *)

Candidates == UNION {CandidateAt(e) : e \in Nat}

\* The parts of the sort key of a candidate are numbers.
LEMMA KeyType ==
    ASSUME NEW c \in Candidates, NEW at \in Nat
    PROVE  claim_score(c, at) \in Int /\ c.deadline_unix \in Int /\ c.tenant \in Nat
<1>1. PICK e \in Nat : c \in CandidateAt(e)
  BY DEF Candidates
<1> QED BY <1>1, ScoreFromAge

\* The comparator orders the keys lexicographically, so it is a strict weak
\* order on all candidates.
LEMMA WeakOrder ==
    ASSUME NEW at \in Nat, NEW a \in Candidates, NEW b \in Candidates, NEW c \in Candidates
    PROVE  /\ ~Precedes(a, a, at)
           /\ Precedes(a, b, at) => ~Precedes(b, a, at)
           /\ Precedes(a, b, at) /\ ~Precedes(c, b, at) => Precedes(a, c, at)
           /\ ~Precedes(b, a, at) /\ Precedes(b, c, at) => Precedes(a, c, at)
           /\ ~Precedes(b, a, at) /\ ~Precedes(c, b, at) => ~Precedes(c, a, at)
           /\ ~Precedes(a, b, at) /\ ~Precedes(b, a, at) => Key(a, at) = Key(b, at)
<1> DEFINE s(x) == claim_score(x, at)
           d(x) == x.deadline_unix
           t(x) == x.tenant
<1>1. /\ s(a) \in Int /\ s(b) \in Int /\ s(c) \in Int
      /\ d(a) \in Int /\ d(b) \in Int /\ d(c) \in Int
      /\ t(a) \in Nat /\ t(b) \in Nat /\ t(c) \in Nat
  BY KeyType
<1>2. \A x, y : Precedes(x, y, at) <=>
         s(x) < s(y) \/ (s(x) = s(y) /\ (d(x) < d(y) \/ (d(x) = d(y) /\ t(x) < t(y))))
  BY DEF Precedes
<1>3. \A x : Key(x, at) = <<s(x), d(x), t(x)>>
  BY DEF Key
<1> HIDE DEF s, d, t
<1>4. ~Precedes(a, a, at) /\ (Precedes(a, b, at) => ~Precedes(b, a, at))
  BY <1>1, <1>2
<1>5. Precedes(a, b, at) /\ ~Precedes(c, b, at) => Precedes(a, c, at)
  BY <1>1, <1>2
<1>6. ~Precedes(b, a, at) /\ Precedes(b, c, at) => Precedes(a, c, at)
  BY <1>1, <1>2
<1>7. ~Precedes(b, a, at) /\ ~Precedes(c, b, at) => ~Precedes(c, a, at)
  BY <1>1, <1>2
<1>8. ~Precedes(a, b, at) /\ ~Precedes(b, a, at) => s(a) = s(b) /\ d(a) = d(b) /\ t(a) = t(b)
  BY <1>1, <1>2
<1>9. ~Precedes(a, b, at) /\ ~Precedes(b, a, at) => Key(a, at) = Key(b, at)
  BY <1>3, <1>8
<1> QED BY <1>4, <1>5, <1>6, <1>7, <1>9

\* With ties broken by the index, it is a strict total order on the indices.
LEMMA IndexOrderIsTotal ==
    ASSUME NEW n \in Nat, NEW cands \in [1 .. n -> Candidates], NEW at \in Nat
    PROVE  StrictTotal(IndexOrder(cands, at), 1 .. n)
<1> DEFINE P(i, k) == Precedes(cands[i], cands[k], at)
           R == IndexOrder(cands, at)
<1>1. \A i, k \in 1 .. n : <<i, k>> \in R <=> P(i, k) \/ (~P(k, i) /\ i < k)
  BY DEF IndexOrder
<1>2. \A i, k, l \in 1 .. n :
         /\ ~P(i, i) /\ (P(i, k) => ~P(k, i))
         /\ P(i, k) /\ ~P(l, k) => P(i, l)
         /\ ~P(k, i) /\ P(k, l) => P(i, l)
         /\ ~P(k, i) /\ ~P(l, k) => ~P(l, i)
  BY WeakOrder
<1> HIDE DEF P, R
<1>3. \A i \in 1 .. n : <<i, i>> \notin R
  BY <1>1, <1>2
<1>4. \A i, k \in 1 .. n : i # k => <<i, k>> \in R \/ <<k, i>> \in R
  BY <1>1, <1>2
<1>5. \A i, k, l \in 1 .. n : <<i, k>> \in R /\ <<k, l>> \in R => <<i, l>> \in R
  <2> SUFFICES ASSUME NEW i \in 1 .. n, NEW k \in 1 .. n, NEW l \in 1 .. n,
                      <<i, k>> \in R, <<k, l>> \in R
               PROVE  <<i, l>> \in R
    OBVIOUS
  <2>1. CASE P(i, k)
    BY <2>1, <1>1, <1>2
  <2>2. CASE ~P(k, i) /\ i < k /\ P(k, l)
    BY <2>2, <1>1, <1>2
  <2>3. CASE ~P(k, i) /\ i < k /\ ~P(l, k) /\ k < l
    <3>1. i < l /\ ~P(l, i)
      BY <2>3, <1>2
    <3> QED BY <3>1, <1>1
  <2> QED BY <2>1, <2>2, <2>3, <1>1
<1> QED BY <1>3, <1>4, <1>5 DEF StrictTotal, R

\* claim_order ranks every admissible candidate once, and nobody behind a
\* candidate the comparator puts after it.
LEMMA ClaimOrderSorts ==
    ASSUME NEW n \in Nat, NEW cands \in [1 .. n -> Candidates], NEW at \in Nat
    PROVE  LET S == Admissible(cands)
               m == Cardinality(S)
               o == claim_order(cands, at)
           IN  /\ S \subseteq 1 .. n /\ IsFiniteSet(S) /\ m \in Nat
               /\ o \in Bijection(1 .. m, S)
               /\ \A p, q \in 1 .. m :
                     p < q => ~Precedes(cands[o[q]], cands[o[p]], at)
<1> DEFINE S == Admissible(cands)
           m == Cardinality(S)
           o == claim_order(cands, at)
           R == IndexOrder(cands, at)
<1>1. S \subseteq 1 .. n
  BY DEF Admissible
<1>2. IsFiniteSet(S)
  BY <1>1, FS_Interval, FS_Subset
<1>3. StrictTotal(R, S)
  BY <1>1, IndexOrderIsTotal DEF StrictTotal
<1>4. /\ m \in Nat /\ o \in Bijection(1 .. m, S)
      /\ \A p, q \in 1 .. m : p < q => <<o[p], o[q]>> \in R
  BY <1>2, <1>3, SortBySorts DEF claim_order
<1> HIDE DEF S, m, o
<1>5. \A p \in 1 .. m : o[p] \in 1 .. n
  BY <1>1, <1>4 DEF Bijection, Injection
<1>6. ASSUME NEW p \in 1 .. m, NEW q \in 1 .. m, p < q
      PROVE  ~Precedes(cands[o[q]], cands[o[p]], at)
  <2>1. Precedes(cands[o[p]], cands[o[q]], at) \/ ~Precedes(cands[o[q]], cands[o[p]], at)
    BY <1>4, <1>6 DEF IndexOrder
  <2>2. cands[o[p]] \in Candidates /\ cands[o[q]] \in Candidates
    BY <1>5
  <2> QED BY <2>1, <2>2, WeakOrder
<1> QED BY <1>1, <1>2, <1>4, <1>6 DEF S, m, o

\* One half of the independence from the row order: d is c in another order,
\* and no place of c's ranking is better than the same place of d's.  If place
\* p were, the p candidates c ranks up to it would all be admissible in d, and
\* d has fewer than p candidates that are not after them.
LEMMA NoPlaceIsBetter ==
    ASSUME NEW n \in Nat, NEW at \in Nat, NEW f \in Bijection(1 .. n, 1 .. n),
           NEW c \in [1 .. n -> Candidates], NEW d \in [1 .. n -> Candidates],
           \A i \in 1 .. n : d[i] = c[f[i]],
           NEW p \in 1 .. Cardinality(Admissible(c)),
           p \in 1 .. Cardinality(Admissible(d))
    PROVE  ~Precedes(c[claim_order(c, at)[p]], d[claim_order(d, at)[p]], at)
<1> DEFINE S == Admissible(c)
           T == Admissible(d)
           oc == claim_order(c, at)
           od == claim_order(d, at)
           K == c[oc[p]]
           A == {i \in S : ~Precedes(K, c[i], at)}
           B == {i \in T : ~Precedes(K, d[i], at)}
<1>1. /\ S \subseteq 1 .. n /\ IsFiniteSet(S) /\ Cardinality(S) \in Nat
      /\ oc \in Bijection(1 .. Cardinality(S), S)
      /\ \A q, r \in 1 .. Cardinality(S) : q < r => ~Precedes(c[oc[r]], c[oc[q]], at)
  BY ClaimOrderSorts
<1>2. /\ T \subseteq 1 .. n /\ IsFiniteSet(T) /\ Cardinality(T) \in Nat
      /\ od \in Bijection(1 .. Cardinality(T), T)
      /\ \A q, r \in 1 .. Cardinality(T) : q < r => ~Precedes(d[od[r]], d[od[q]], at)
  BY ClaimOrderSorts
<1>3. /\ f \in [1 .. n -> 1 .. n]
      /\ \A i, k \in 1 .. n : f[i] = f[k] => i = k
      /\ \A i \in 1 .. n : \E k \in 1 .. n : f[k] = i
  BY DEF Bijection, Injection, Surjection, IsInjective
<1>4. \A i \in 1 .. n : i \in T <=> f[i] \in S
  BY <1>3 DEF Admissible
<1> SUFFICES ASSUME Precedes(K, d[od[p]], at) PROVE FALSE
  OBVIOUS
<1> HIDE DEF S, T, oc, od
<1>5. /\ oc \in [1 .. Cardinality(S) -> S] /\ od \in [1 .. Cardinality(T) -> T]
      /\ \A q, r \in 1 .. Cardinality(S) : oc[q] = oc[r] => q = r
      /\ \A i \in T : \E q \in 1 .. Cardinality(T) : od[q] = i
  BY <1>1, <1>2 DEF Bijection, Injection, Surjection, IsInjective
<1>6. p \in 1 .. Cardinality(S) /\ p \in 1 .. Cardinality(T) /\ p \in Nat
  BY <1>1 DEF S, T
<1>7. K \in Candidates
  BY <1>1, <1>5, <1>6
<1>8. IsFiniteSet(A) /\ IsFiniteSet(B) /\ Cardinality(A) \in Nat /\ Cardinality(B) \in Nat
  <2>1. A \subseteq S /\ B \subseteq T
    OBVIOUS
  <2> HIDE DEF A, B
  <2> QED BY <1>1, <1>2, <2>1, FS_Subset, FS_CardinalityType
<1>9. p <= Cardinality(A)
  <2> DEFINE h == [q \in 1 .. p |-> oc[q]]
  <2>1. \A q \in 1 .. p : oc[q] \in A
    <3> SUFFICES ASSUME NEW q \in 1 .. p PROVE oc[q] \in A
      OBVIOUS
    <3>a. q \in 1 .. Cardinality(S)
      <4>1. Cardinality(S) \in Nat
        BY <1>1
      <4> QED BY <4>1, <1>6
    <3>b. oc[q] \in S
      BY <3>a, <1>5
    <3>1. q \in 1 .. Cardinality(S) /\ oc[q] \in S /\ c[oc[q]] \in Candidates
      BY <3>a, <3>b, <1>1
    <3>2. CASE q = p
      BY <3>1, <3>2, <1>7, WeakOrder
    <3>3. CASE q < p
      BY <3>1, <3>3, <1>1, <1>6
    <3> QED BY <3>2, <3>3, <1>6
  <2>2. h \in Injection(1 .. p, A)
    <3> HIDE DEF A
    <3>1. h \in [1 .. p -> A]
      BY <2>1
    <3>2. \A q \in 1 .. p : h[q] = oc[q] /\ q \in 1 .. Cardinality(S)
      BY <1>1, <1>6
    <3> HIDE DEF h
    <3>3. \A q, r \in 1 .. p : h[q] = h[r] => q = r
      BY <1>5, <3>2
    <3> QED BY <3>1, <3>3 DEF Injection, IsInjective
  <2>3. Cardinality(1 .. p) = p
    BY <1>6, FS_Interval
  <2> HIDE DEF h, A
  <2> QED BY <1>8, <2>2, <2>3, FS_Injection
<1>10. Cardinality(A) <= Cardinality(B)
  <2> DEFINE g == [i \in B |-> f[i]]
  <2>1. \A i \in B : f[i] \in A
    BY <1>2, <1>3, <1>4
  <2>2. \A a \in A : \E i \in B : f[i] = a
    BY <1>1, <1>3, <1>4
  <2> HIDE DEF A, B
  <2>3. g \in Surjection(B, A)
    BY <2>1, <2>2 DEF Surjection
  <2> HIDE DEF g
  <2> QED BY <2>3, <1>8, FS_Surjection
<1>11. Cardinality(B) <= p - 1
  <2> DEFINE h == [q \in 1 .. (p - 1) |-> od[q]]
             Img == {od[q] : q \in 1 .. (p - 1)}
  <2>1. B \subseteq Img
    <3> SUFFICES ASSUME NEW i \in B PROVE i \in Img
      OBVIOUS
    <3>1. i \in T /\ ~Precedes(K, d[i], at)
      OBVIOUS
    <3>2. PICK q \in 1 .. Cardinality(T) : od[q] = i
      BY <1>5, <3>1
    <3>3. d[i] \in Candidates /\ d[od[p]] \in Candidates
      BY <1>2, <1>5, <1>6, <3>1
    <3>4. q < p
      <4> SUFFICES ASSUME p <= q PROVE FALSE
        BY <1>6, <3>2
      <4>1. ~Precedes(d[od[q]], d[od[p]], at)
        <5>1. CASE p = q
          BY <5>1, <3>3, WeakOrder
        <5>2. CASE p < q
          BY <5>2, <1>2, <1>6
        <5> QED BY <5>1, <5>2, <1>6, <3>2
      <4> QED BY <4>1, <3>1, <3>2, <3>3, <1>7, WeakOrder
    <3> QED BY <3>2, <3>4, <1>6
  <2>2. h \in Surjection(1 .. (p - 1), Img)
    BY DEF Surjection
  <2>3. IsFiniteSet(1 .. (p - 1)) /\ Cardinality(1 .. (p - 1)) = p - 1
    BY <1>6, FS_Interval
  <2> HIDE DEF h, Img
  <2>4. IsFiniteSet(Img) /\ Cardinality(Img) <= p - 1
    BY <2>2, <2>3, FS_Surjection
  <2>5. Cardinality(Img) \in Nat
    BY <2>4, FS_CardinalityType
  <2> HIDE DEF B
  <2>6. Cardinality(B) <= Cardinality(Img)
    BY <2>1, <2>4, FS_Subset
  <2> QED BY <1>6, <1>8, <2>4, <2>5, <2>6
<1> HIDE DEF A, B, K
<1> QED BY <1>6, <1>8, <1>9, <1>10, <1>11

\* In whatever order the rows come, claim_order ranks the same scores,
\* deadlines and tenants: the ranking "is deterministic across workers and
\* across DB row order", for any list of candidates and any permutation of it.
THEOREM RankingIgnoresRowOrder ==
    ASSUME NEW n \in Nat, NEW at \in Nat, NEW f \in Bijection(1 .. n, 1 .. n),
           NEW c \in [1 .. n -> Candidates], NEW d \in [1 .. n -> Candidates],
           \A i \in 1 .. n : d[i] = c[f[i]]
    PROVE  LET oc == claim_order(c, at)
               od == claim_order(d, at)
           IN  [p \in DOMAIN od |-> Key(d[od[p]], at)] = [p \in DOMAIN oc |-> Key(c[oc[p]], at)]
<1> DEFINE S == Admissible(c)
           T == Admissible(d)
           oc == claim_order(c, at)
           od == claim_order(d, at)
           g == [i \in 1 .. n |-> CHOOSE k \in 1 .. n : f[k] = i]
<1>1. /\ S \subseteq 1 .. n /\ IsFiniteSet(S) /\ oc \in Bijection(1 .. Cardinality(S), S)
      /\ Cardinality(S) \in Nat
  BY ClaimOrderSorts
<1>2. /\ T \subseteq 1 .. n /\ IsFiniteSet(T) /\ od \in Bijection(1 .. Cardinality(T), T)
      /\ Cardinality(T) \in Nat
  BY ClaimOrderSorts
<1>3. /\ f \in [1 .. n -> 1 .. n]
      /\ \A i, k \in 1 .. n : f[i] = f[k] => i = k
      /\ \A i \in 1 .. n : \E k \in 1 .. n : f[k] = i
  BY DEF Bijection, Injection, Surjection, IsInjective
<1>4. \A i \in 1 .. n : i \in T <=> f[i] \in S
  BY <1>3 DEF Admissible
<1>5. g \in [1 .. n -> 1 .. n] /\ \A i \in 1 .. n : f[g[i]] = i
  BY <1>3
<1> HIDE DEF g, S, T, oc, od
<1>6. g \in Bijection(1 .. n, 1 .. n)
  <2>1. \A i, k \in 1 .. n : g[i] = g[k] => i = k
    BY <1>5
  <2>2. \A i \in 1 .. n : f[i] \in 1 .. n /\ g[f[i]] \in 1 .. n /\ f[g[f[i]]] = f[i]
    BY <1>3, <1>5
  <2>3. \A i \in 1 .. n : \E k \in 1 .. n : g[k] = i
    BY <1>3, <2>2
  <2>4. g \in Injection(1 .. n, 1 .. n)
    BY <1>5, <2>1 DEF Injection, IsInjective
  <2>5. g \in Surjection(1 .. n, 1 .. n)
    BY <1>5, <2>3 DEF Surjection
  <2> QED BY <2>4, <2>5 DEF Bijection
<1>7. \A i \in 1 .. n : c[i] = d[g[i]]
  BY <1>5
<1>8. Cardinality(S) = Cardinality(T)
  <2> DEFINE r == [i \in T |-> f[i]]
  <2>1. r \in [T -> S]
    BY <1>2, <1>3, <1>4
  <2>2. \A i, k \in T : r[i] = r[k] => i = k
    BY <1>2, <1>3
  <2>3. \A i \in S : \E k \in T : r[k] = i
    BY <1>1, <1>3, <1>4
  <2>4. r \in Bijection(T, S)
    <3> HIDE DEF r
    <3> QED BY <2>1, <2>2, <2>3 DEF Bijection, Injection, Surjection, IsInjective
  <2> QED BY <2>4, <1>2, FS_Bijection DEF ExistsBijection
<1>9. oc \in [1 .. Cardinality(S) -> S] /\ od \in [1 .. Cardinality(S) -> T]
  BY <1>1, <1>2, <1>8 DEF Bijection, Injection
<1>10. ASSUME NEW p \in 1 .. Cardinality(S) PROVE Key(d[od[p]], at) = Key(c[oc[p]], at)
  <2>1. ~Precedes(c[oc[p]], d[od[p]], at)
    BY <1>8, NoPlaceIsBetter DEF S, T, oc, od
  <2>2. ~Precedes(d[od[p]], c[oc[p]], at)
    BY <1>6, <1>7, <1>8, NoPlaceIsBetter DEF S, T, oc, od
  <2>3. c[oc[p]] \in Candidates /\ d[od[p]] \in Candidates
    BY <1>1, <1>2, <1>9
  <2> QED BY <2>1, <2>2, <2>3, WeakOrder
<1>11. DOMAIN oc = 1 .. Cardinality(S) /\ DOMAIN od = 1 .. Cardinality(S)
  BY <1>9
<1>12. [p \in DOMAIN od |-> Key(d[od[p]], at)] = [p \in DOMAIN oc |-> Key(c[oc[p]], at)]
  BY <1>10, <1>11
<1> QED BY <1>12 DEF oc, od

-----------------------------------------------------------------------------
(* The specification. *)

\* TypeOK made inductive: nothing is pending or running of a job that was not
\* submitted, so every candidate has an age.
IInv ==
    /\ TypeOK
    /\ left \in [Jobs -> Nat] /\ busy \in [Jobs -> Nat]
    /\ \A j \in Jobs : enqueue[j] = -1 => left[j] = 0 /\ busy[j] = 0

\* The types of what is kept of a job.
LEMMA JobType ==
    ASSUME IInv, NEW j \in Jobs
    PROVE  /\ j \in Nat /\ SpecOf[j].tenant \in Nat /\ SpecOf[j].seeds \in Nat
           /\ left[j] \in Nat /\ busy[j] \in Nat
           /\ enqueue[j] \in Int /\ (enqueue[j] = -1 \/ enqueue[j] \in Nat)
<1>1. Jobs \subseteq Nat /\ Clock \subseteq Nat
  BY SchedulerAssumption
<1>2. SpecOf[j] \in [tenant : Nat, backend : {"web", "android", "ios"}, seeds : 1 .. MAX_JOB_SEEDS]
  BY SchedulerAssumption
<1>3. enqueue[j] \in Clock \cup {-1}
  BY DEF IInv, TypeOK
<1>4. left[j] \in Nat /\ busy[j] \in Nat
  BY DEF IInv
<1>5. SpecOf[j].tenant \in Nat /\ SpecOf[j].seeds \in 1 .. MAX_JOB_SEEDS
  BY <1>2
<1>6. enqueue[j] = -1 \/ enqueue[j] \in Nat
  BY <1>1, <1>3
<1>7. enqueue[j] \in Int
  BY <1>6
<1>8. SpecOf[j].seeds \in Nat
  <2>1. 1 .. MAX_JOB_SEEDS \subseteq Nat
    OBVIOUS
  <2> QED BY <1>5, <2>1, Zenon
<1>9. j \in Nat
  BY <1>1
<1> QED BY <1>4, <1>5, <1>6, <1>7, <1>8, <1>9

\* The running shards of a lane are finitely many.
LEMMA RunningIsFinite ==
    ASSUME IInv, NEW lane
    PROVE  IsFiniteSet(Running(lane))
<1> DEFINE J == {j \in Jobs : tier(SpecOf[j].backend) = lane}
           shards(j) == {j} \X (1 .. busy[j])
           F == [j \in J |-> shards(j)]
           SS == {shards(j) : j \in J}
<1>1. IsFiniteSet(J)
  BY SchedulerAssumption, FS_Subset
<1>2. \A j \in J : busy[j] \in Nat
  BY DEF IInv
<1>3. \A j \in J : IsFiniteSet(shards(j))
  <2> TAKE j \in J
  <2>1. IsFiniteSet({j}) /\ IsFiniteSet(1 .. busy[j])
    <3>1. busy[j] \in Int /\ 1 \in Int
      BY <1>2
    <3> QED BY <3>1, FS_Singleton, FS_Interval
  <2> QED BY <2>1, FS_Product
<1> HIDE DEF J, shards
<1>4. F \in Surjection(J, SS)
  BY DEF Surjection
<1>5. IsFiniteSet(SS)
  <2> HIDE DEF F, SS
  <2> QED BY <1>1, <1>4, FS_Surjection
<1>6. \A T \in SS : IsFiniteSet(T)
  BY <1>3
<1>7. IsFiniteSet(UNION SS)
  <2> HIDE DEF SS
  <2> QED BY <1>5, <1>6, FS_UNION
<1>8. Running(lane) = UNION SS
  BY DEF Running, SS, shards, J
<1> QED BY <1>7, <1>8

\* So the loads and the number of active tenants are natural numbers.
LEMMA LoadType ==
    ASSUME IInv, NEW lane, NEW caps, NEW t
    PROVE  /\ running(t, lane) \in Nat /\ running_total(caps, lane) \in Nat
           /\ Cardinality(Active(caps)) \in Nat
<1>1. IsFiniteSet(Running(lane))
  BY RunningIsFinite
<1>2. running(t, lane) \in Nat
  <2> DEFINE T == {s \in Running(lane) : SpecOf[s[1]].tenant = t}
  <2>1. T \subseteq Running(lane)
    OBVIOUS
  <2>2. running(t, lane) = Cardinality(T)
    BY DEF running
  <2> HIDE DEF T
  <2> QED BY <1>1, <2>1, <2>2, FS_Subset, FS_CardinalityType
<1>3. running_total(caps, lane) \in Nat
  <2> DEFINE T == {s \in Running(lane) : SpecOf[s[1]].tenant \in Active(caps)}
  <2>1. T \subseteq Running(lane)
    OBVIOUS
  <2>2. running_total(caps, lane) = Cardinality(T)
    BY DEF running_total
  <2> HIDE DEF T
  <2> QED BY <1>1, <2>1, <2>2, FS_Subset, FS_CardinalityType
<1>4. Cardinality(Active(caps)) \in Nat
  <2> DEFINE C == Claimable(caps)
             F == [j \in C |-> SpecOf[j].tenant]
             A == Active(caps)
  <2>1. IsFiniteSet(C)
    BY SchedulerAssumption, FS_Subset DEF Claimable
  <2>2. A = {SpecOf[j].tenant : j \in C}
    BY DEF Active
  <2> HIDE DEF A, C
  <2>3. F \in Surjection(C, A)
    BY <2>2 DEF Surjection
  <2> HIDE DEF F
  <2>4. IsFiniteSet(A)
    BY <2>1, <2>3, FS_Surjection
  <2> QED BY <2>4, FS_CardinalityType DEF A
<1> QED BY <1>2, <1>3, <1>4

\* A claimable job makes a candidate of its age.
LEMMA CandidateType ==
    ASSUME IInv, NEW caps, NEW j \in Claimable(caps)
    PROVE  /\ enqueue[j] \in Nat
           /\ Candidate(j, caps) \in CandidateAt(enqueue[j])
           /\ Candidate(j, caps).job = j
<1>1. j \in Jobs /\ left[j] > 0 /\ SpecOf[j].tenant \in Nat /\ j \in Nat
      /\ enqueue[j] \in Nat
  <2>1. j \in Jobs /\ left[j] > 0
    BY DEF Claimable
  <2>2. enqueue[j] # -1
    BY <2>1 DEF IInv
  <2> QED BY <2>1, <2>2, JobType
<1> DEFINE lane == tier(SpecOf[j].backend)
           class == class_for(SpecOf[j].seeds)
           load == running(SpecOf[j].tenant, lane)
           share == fair_share(running_total(caps, lane), Cardinality(Active(caps)))
           due == deadline_unix(enqueue[j], class)
<1>2. lane \in {"Mac", "Elastic"} /\ class \in Classes
  BY DEF tier, class_for, Classes
<1>3. load \in Nat
  BY LoadType
<1>4. share \in Nat
  <2> DEFINE a == running_total(caps, lane)
             b == Cardinality(Active(caps))
  <2>1. a \in Nat /\ b \in Nat
    BY LoadType
  <2>2. share = IF b = 0 THEN 0 ELSE a \div b
    BY DEF fair_share
  <2> HIDE DEF a, b, share
  <2> QED BY <2>1, <2>2
<1>5. due \in Int
  BY <1>1 DEF deadline_unix, INTERACTIVE_SLA_S, BATCH_SLA_S
<1>6. lane_cap \in Nat
  BY SchedulerAssumption DEF lane_cap, Unlimited
<1>7. Candidate(j, caps) =
        [job |-> j, tenant |-> SpecOf[j].tenant, tier |-> lane, class |-> class,
         deadline_unix |-> due, tenant_running |-> load, tenant_fair_share |-> share,
         tenant_lane_cap |-> lane_cap]
  BY DEF Candidate
<1>8. due = deadline_unix(enqueue[j], class)
  OBVIOUS
<1> HIDE DEF lane, class, load, share, due
<1> QED BY <1>1, <1>2, <1>3, <1>4, <1>5, <1>6, <1>7, <1>8 DEF CandidateAt

\* The rows are gathered in a strict total order.
LEMMA RowOrderIsTotal ==
    ASSUME IInv
    PROVE  StrictTotal(RowOrder, Jobs)
<1> DEFINE t(i) == SpecOf[i].tenant
           e(i) == enqueue[i]
<1>1. \A i \in Jobs : t(i) \in Nat /\ e(i) \in Int /\ i \in Nat
  BY JobType
<1>2. \A i, k \in Jobs : <<i, k>> \in RowOrder <=>
         t(i) < t(k) \/ (t(i) = t(k) /\ (e(i) < e(k) \/ (e(i) = e(k) /\ i < k)))
  BY DEF RowOrder
<1> HIDE DEF t, e
<1>3. \A i \in Jobs : <<i, i>> \notin RowOrder
  BY <1>1, <1>2
<1>4. \A i, k \in Jobs : i # k => <<i, k>> \in RowOrder \/ <<k, i>> \in RowOrder
  BY <1>1, <1>2
<1>5. ASSUME NEW i \in Jobs, NEW k \in Jobs, NEW l \in Jobs,
             <<i, k>> \in RowOrder, <<k, l>> \in RowOrder
      PROVE  <<i, l>> \in RowOrder
  BY <1>1, <1>2, <1>5
<1> QED BY <1>3, <1>4, <1>5 DEF StrictTotal

\* gather_candidates lists one candidate per claimable job.
LEMMA GatherType ==
    ASSUME IInv, NEW caps
    PROVE  \E n \in Nat :
             /\ gather_candidates(caps) \in [1 .. n -> Candidates]
             /\ \A p \in 1 .. n : LET c == gather_candidates(caps)[p]
                                  IN  /\ c.job \in Claimable(caps)
                                      /\ enqueue[c.job] \in Nat
                                      /\ c \in CandidateAt(enqueue[c.job])
<1> DEFINE C == Claimable(caps)
           n == Cardinality(C)
           js == sort_by(C, RowOrder)
           cands == gather_candidates(caps)
<1>1. C \subseteq Jobs /\ IsFiniteSet(C)
  BY SchedulerAssumption, FS_Subset DEF Claimable
<1>2. StrictTotal(RowOrder, C)
  BY <1>1, RowOrderIsTotal DEF StrictTotal
<1>3. n \in Nat /\ js \in Bijection(1 .. n, C)
  BY <1>1, <1>2, SortBySorts
<1>4. cands = [p \in DOMAIN js |-> Candidate(js[p], caps)]
  BY DEF gather_candidates
<1> HIDE DEF n, js, cands, C
<1>5. js \in [1 .. n -> C]
  BY <1>3 DEF Bijection, Injection
<1>6. cands = [p \in 1 .. n |-> Candidate(js[p], caps)]
  BY <1>4, <1>5
<1>7. ASSUME NEW p \in 1 .. n
      PROVE  /\ cands[p] \in Candidates
             /\ cands[p].job \in C /\ enqueue[cands[p].job] \in Nat
             /\ cands[p] \in CandidateAt(enqueue[cands[p].job])
  <2>1. js[p] \in C /\ cands[p] = Candidate(js[p], caps)
    BY <1>5, <1>6
  <2>2. /\ enqueue[js[p]] \in Nat /\ cands[p] \in CandidateAt(enqueue[js[p]])
        /\ cands[p].job = js[p]
    BY <2>1, CandidateType DEF C
  <2> QED BY <2>1, <2>2 DEF Candidates
<1>8. cands \in [1 .. n -> Candidates]
  BY <1>6, <1>7
<1> QED BY <1>3, <1>7, <1>8 DEF cands, C

\* The claim takes a candidate that has a pending shard.
LEMMA ClaimedJob ==
    ASSUME IInv, NEW caps, claim_order(gather_candidates(caps), now) # <<>>
    PROVE  gather_candidates(caps)[claim_order(gather_candidates(caps), now)[1]].job
             \in Claimable(caps)
<1> DEFINE cands == gather_candidates(caps)
           o == claim_order(cands, now)
           S == Admissible(cands)
           m == Cardinality(S)
<1>1. PICK n \in Nat :
        /\ cands \in [1 .. n -> Candidates]
        /\ \A p \in 1 .. n : cands[p].job \in Claimable(caps)
  BY GatherType
<1>2. now \in Nat
  BY SchedulerAssumption DEF IInv, TypeOK
<1>3. /\ S \subseteq 1 .. n /\ m \in Nat /\ o \in Bijection(1 .. m, S)
  BY <1>1, <1>2, ClaimOrderSorts
<1>4. o = [p \in 1 .. m |-> o[p]]
  BY <1>3 DEF Bijection, Injection
<1>5. o # <<>>
  OBVIOUS
<1> HIDE DEF cands, o, S, m
<1>6. m # 0
  BY <1>4, <1>5
<1>7. o[1] \in S
  BY <1>3, <1>6 DEF Bijection, Injection
<1> QED BY <1>1, <1>3, <1>7 DEF cands, o

\* The inductive invariant holds: a claim moves one shard from pending to
\* running, whichever candidate comes first.
THEOREM SchedulerInvariant == Spec => []IInv
<1>1. Init => IInv
  <2> SUFFICES ASSUME Init PROVE IInv
    OBVIOUS
  <2>1. \A j \in Jobs : SpecOf[j].seeds \in 1 .. MAX_JOB_SEEDS
    BY SchedulerAssumption
  <2>2. \A j \in Jobs : left[j] + busy[j] <= SpecOf[j].seeds
    <3> SUFFICES ASSUME NEW j \in Jobs PROVE left[j] + busy[j] <= SpecOf[j].seeds
      OBVIOUS
    <3> DEFINE n == SpecOf[j].seeds
    <3>1. n \in 1 .. MAX_JOB_SEEDS /\ left[j] = 0 /\ busy[j] = 0
      BY <2>1 DEF Init
    <3> HIDE DEF n
    <3>2. left[j] + busy[j] <= n
      BY <3>1
    <3> QED BY <3>2 DEF n
  <2>3. left \in [Jobs -> Nat] /\ busy \in [Jobs -> Nat]
    BY DEF Init
  <2>4. now \in Clock /\ enqueue \in [Jobs -> Clock \cup {-1}]
    BY DEF Init
  <2>5. \A j \in Jobs : left[j] = 0 /\ busy[j] = 0
    BY DEF Init
  <2> QED BY <2>2, <2>3, <2>4, <2>5 DEF IInv, TypeOK
<1>2. IInv /\ [Next]_vars => IInv'
  <2> SUFFICES ASSUME IInv, [Next]_vars PROVE IInv'
    OBVIOUS
  <2>0. /\ now \in Clock /\ enqueue \in [Jobs -> Clock \cup {-1}]
        /\ left \in [Jobs -> Nat] /\ busy \in [Jobs -> Nat]
        /\ \A j \in Jobs : enqueue[j] = -1 => left[j] = 0 /\ busy[j] = 0
        /\ \A j \in Jobs : left[j] + busy[j] <= SpecOf[j].seeds
    BY DEF IInv, TypeOK
  <2>a. \A j \in Jobs : SpecOf[j].seeds \in Nat /\ left[j] \in Nat /\ busy[j] \in Nat
    BY JobType
  <2>b. SUFFICES
        /\ now' \in Clock /\ enqueue' \in [Jobs -> Clock \cup {-1}]
        /\ left' \in [Jobs -> Nat] /\ busy' \in [Jobs -> Nat]
        /\ \A j \in Jobs : enqueue'[j] = -1 => left'[j] = 0 /\ busy'[j] = 0
        /\ \A j \in Jobs : left'[j] + busy'[j] <= SpecOf[j].seeds
    BY DEF IInv, TypeOK
  <2>1. ASSUME NEW j \in Jobs, submit_job(j) PROVE <2>b!1
    <3>1. /\ now' = now /\ busy' = busy /\ enqueue[j] = -1
          /\ enqueue' = [enqueue EXCEPT ![j] = now]
          /\ left' = [left EXCEPT ![j] = SpecOf[j].seeds]
      BY <2>1 DEF submit_job
    <3>2. now # -1
      BY <2>0, SchedulerAssumption
    <3>3. \A i \in Jobs : enqueue'[i] = -1 => left'[i] = 0 /\ busy'[i] = 0
      BY <3>1, <3>2, <2>0
    <3>4. busy[j] = 0 /\ left'[j] = SpecOf[j].seeds /\ \A i \in Jobs \ {j} : left'[i] = left[i]
      BY <3>1, <2>0
    <3>5. \A i \in Jobs : left'[i] + busy'[i] <= SpecOf[i].seeds
      BY <3>1, <3>4, <2>0, <2>a
    <3>6. enqueue' \in [Jobs -> Clock \cup {-1}] /\ left' \in [Jobs -> Nat]
      BY <3>1, <2>0, <2>a
    <3> QED BY <3>1, <3>3, <3>5, <3>6, <2>0
  <2>2. ASSUME NEW j \in Jobs, result(j) PROVE <2>b!1
    <3>1. /\ now' = now /\ enqueue' = enqueue /\ left' = left /\ busy[j] > 0
          /\ busy' = [busy EXCEPT ![j] = @ - 1]
      BY <2>2 DEF result
    <3>2. busy'[j] = busy[j] - 1 /\ busy[j] # 0 /\ \A i \in Jobs \ {j} : busy'[i] = busy[i]
      BY <3>1, <2>0, <2>a
    <3>3. busy' \in [Jobs -> Nat]
      BY <3>1, <2>0, <2>a
    <3>4. \A i \in Jobs : left'[i] + busy'[i] <= SpecOf[i].seeds
      BY <3>1, <3>2, <2>0, <2>a
    <3>5. \A i \in Jobs : enqueue'[i] = -1 => left'[i] = 0 /\ busy'[i] = 0
      BY <3>1, <3>2, <2>0
    <3> QED BY <3>1, <3>3, <3>4, <3>5, <2>0
  <2>3. ASSUME NEW caps \in {Mac, Linux}, claim_across_tenants(caps) PROVE <2>b!1
    <3> DEFINE j == gather_candidates(caps)[claim_order(gather_candidates(caps), now)[1]].job
    <3>1. /\ now' = now /\ enqueue' = enqueue
          /\ claim_order(gather_candidates(caps), now) # <<>>
          /\ left' = [left EXCEPT ![j] = @ - 1]
          /\ busy' = [busy EXCEPT ![j] = @ + 1]
      BY <2>3 DEF claim_across_tenants
    <3>2. j \in Claimable(caps)
      BY <3>1, ClaimedJob
    <3> HIDE DEF j
    <3>3. j \in Jobs /\ left[j] > 0
      BY <3>2 DEF Claimable
    <3>4. /\ left'[j] = left[j] - 1 /\ \A i \in Jobs \ {j} : left'[i] = left[i]
          /\ busy'[j] = busy[j] + 1 /\ \A i \in Jobs \ {j} : busy'[i] = busy[i]
      BY <3>1, <3>3, <2>0
    <3>5. left' \in [Jobs -> Nat] /\ busy' \in [Jobs -> Nat]
      BY <3>1, <3>3, <2>0, <2>a
    <3>6. \A i \in Jobs : left'[i] + busy'[i] <= SpecOf[i].seeds
      BY <3>3, <3>4, <2>0, <2>a
    <3>7. \A i \in Jobs : enqueue'[i] = -1 => left'[i] = 0 /\ busy'[i] = 0
      BY <3>1, <3>3, <3>4, <2>0, <2>a
    <3> QED BY <3>1, <3>5, <3>6, <3>7, <2>0
  <2>4. ASSUME NEW t \in Clock, Passes(t) PROVE <2>b!1
    BY <2>4, <2>0 DEF Passes
  <2>5. CASE UNCHANGED vars
    BY <2>5, <2>0 DEF vars
  <2> QED BY <2>1, <2>2, <2>3, <2>4, <2>5 DEF Next
<1> QED BY <1>1, <1>2, PTL DEF Spec

\* The type invariant: no job ever has more pending and running shards than
\* it was submitted with.
THEOREM SchedulerTypeOK == Spec => []TypeOK
<1>1. IInv => TypeOK
  BY DEF IInv
<1> QED BY <1>1, SchedulerInvariant, PTL

\* What the ranking of a worker on a Mac is: admissible candidates of jobs
\* with an age, in an order the comparator agrees with.
LEMMA RankingType ==
    ASSUME IInv, NEW caps
    PROVE  /\ now \in Nat
           /\ \A p \in DOMAIN Ranking(caps) :
                LET c == Ranking(caps)[p]
                IN  /\ enqueue[c.job] \in Nat /\ c \in CandidateAt(enqueue[c.job])
                    /\ c \in Candidates
           /\ \A p, q \in DOMAIN Ranking(caps) :
                /\ p \in Nat /\ q \in Nat
                /\ p < q => ~Precedes(Ranking(caps)[q], Ranking(caps)[p], now)
<1> DEFINE cands == gather_candidates(caps)
           o == claim_order(cands, now)
           r == Ranking(caps)
           m == Cardinality(Admissible(cands))
<1>1. PICK n \in Nat :
        /\ cands \in [1 .. n -> Candidates]
        /\ \A p \in 1 .. n : /\ enqueue[cands[p].job] \in Nat
                             /\ cands[p] \in CandidateAt(enqueue[cands[p].job])
  BY GatherType
<1>2. now \in Nat
  BY SchedulerAssumption DEF IInv, TypeOK
<1>3. /\ Admissible(cands) \subseteq 1 .. n /\ m \in Nat
      /\ o \in Bijection(1 .. m, Admissible(cands))
      /\ \A p, q \in 1 .. m : p < q => ~Precedes(cands[o[q]], cands[o[p]], now)
  BY <1>1, <1>2, ClaimOrderSorts
<1>4. r = [p \in DOMAIN o |-> cands[o[p]]]
  BY DEF Ranking
<1> HIDE DEF cands, o, r, m
<1>5. o \in [1 .. m -> 1 .. n]
  BY <1>3 DEF Bijection, Injection
<1>6. DOMAIN r = 1 .. m /\ \A p \in 1 .. m : r[p] = cands[o[p]] /\ o[p] \in 1 .. n
  BY <1>4, <1>5
<1>7. \A p \in DOMAIN r : /\ enqueue[r[p].job] \in Nat
                          /\ r[p] \in CandidateAt(enqueue[r[p].job]) /\ r[p] \in Candidates
  BY <1>1, <1>6
<1>8. \A p, q \in DOMAIN r : /\ p \in Nat /\ q \in Nat
                             /\ p < q => ~Precedes(r[q], r[p], now)
  BY <1>3, <1>6
<1> QED BY <1>2, <1>7, <1>8 DEF r

\* OvertakingIsBounded for every set of jobs and every load: a candidate is
\* ranked behind another only if that one was submitted at most 24 600
\* seconds after it, plus 30 for each shard of its tenant above the share.
THEOREM OvertakingAlwaysBounded == Spec => []OvertakingIsBounded
<1>1. IInv => OvertakingIsBounded
  <2> DEFINE r == Ranking(Mac)
  <2> SUFFICES ASSUME IInv, NEW p \in DOMAIN r, NEW q \in DOMAIN r, p < q
               PROVE  enqueue[r[p].job] <= enqueue[r[q].job]
                        + (BATCH_SLA_S - INTERACTIVE_SLA_S + INTERACTIVE_BOOST)
                        + FAIRNESS_PENALTY * Over(r[q])
    BY DEF OvertakingIsBounded
  <2> DEFINE a == r[p]
             b == r[q]
             ea == enqueue[a.job]
             eb == enqueue[b.job]
  <2>1. /\ now \in Nat /\ ea \in Nat /\ eb \in Nat
        /\ a \in CandidateAt(ea) /\ b \in CandidateAt(eb)
        /\ a \in Candidates /\ b \in Candidates
        /\ ~Precedes(b, a, now)
    BY RankingType
  <2> HIDE DEF a, b, ea, eb
  <2>2. CASE Precedes(a, b, now)
    <3>1. ea <= eb + (BATCH_SLA_S - INTERACTIVE_SLA_S + INTERACTIVE_BOOST)
                   + FAIRNESS_PENALTY * Over(b)
      BY <2>1, <2>2, OvertakingBound
    <3> QED BY <3>1 DEF a, b, ea, eb
  <2>3. CASE ~Precedes(a, b, now)
    <3>1. claim_score(a, now) = claim_score(b, now)
      <4>1. Key(a, now) = Key(b, now)
        BY <2>1, <2>3, WeakOrder
      <4> QED BY <4>1 DEF Key
    <3>2. Over(a) \in Nat /\ Over(b) \in Nat
      BY <2>1, OverType
    <3>3. claim_score(a, now) >= ea - 3000 - now
      BY <2>1, <3>2, ScoreFromAge
    <3>4. claim_score(b, now) <= eb + 21600 - now + 30 * Over(b)
      <4>1. CASE b.class = "Interactive"
        <5>1. claim_score(b, now) = eb + 600 - now - 3600 + 30 * Over(b)
          BY <4>1, <2>1, ScoreFromAge
        <5> QED BY <3>2, <5>1, <2>1
      <4>2. CASE b.class # "Interactive"
        <5>1. claim_score(b, now) = eb + 21600 - now + 30 * Over(b)
          BY <4>2, <2>1, ScoreFromAge
        <5> QED BY <3>2, <5>1, <2>1
      <4> QED BY <4>1, <4>2
    <3>5. claim_score(a, now) \in Int /\ claim_score(b, now) \in Int
      BY <2>1, KeyType
    <3>6. ea <= eb + 24600 + 30 * Over(b)
      BY <2>1, <3>1, <3>2, <3>3, <3>4, <3>5
    <3> QED
      BY <3>6 DEF a, b, ea, eb, INTERACTIVE_SLA_S, BATCH_SLA_S, INTERACTIVE_BOOST,
                  FAIRNESS_PENALTY
  <2> QED BY <2>2, <2>3
<1> QED BY <1>1, SchedulerInvariant, PTL

\* HogYields for every set of jobs and every load: of two ranked jobs of one
\* class and age, the one whose tenant is above its share comes second.
THEOREM HogAlwaysYields == Spec => []HogYields
<1>1. IInv => HogYields
  <2> DEFINE r == Ranking(Mac)
  <2> SUFFICES ASSUME IInv, NEW p \in DOMAIN r, NEW q \in DOMAIN r,
                      r[p].class = r[q].class, enqueue[r[p].job] = enqueue[r[q].job],
                      Over(r[p]) > 0, Over(r[q]) = 0
               PROVE  q < p
    BY DEF HogYields
  <2>1. /\ now \in Nat /\ p \in Nat /\ q \in Nat /\ enqueue[r[p].job] \in Nat
        /\ r[p] \in CandidateAt(enqueue[r[p].job])
        /\ r[q] \in CandidateAt(enqueue[r[p].job])
        /\ p < q => ~Precedes(r[q], r[p], now)
    BY RankingType
  <2>2. Precedes(r[q], r[p], now)
    <3> HIDE DEF r
    <3> QED BY <2>1, HogComesSecond
  <2>3. p # q
    OBVIOUS
  <2> QED BY <2>1, <2>2, <2>3
<1> QED BY <1>1, SchedulerInvariant, PTL

\* RowOrderIsIrrelevant for every set of jobs and every load.
THEOREM RowOrderNeverMatters == Spec => []RowOrderIsIrrelevant
<1>1. IInv => RowOrderIsIrrelevant
  <2> DEFINE cands == gather_candidates(Mac)
             permuted(f) == [p \in DOMAIN cands |-> cands[f[p]]]
             keys(cs) == [p \in DOMAIN claim_order(cs, now) |->
                            Key(cs[claim_order(cs, now)[p]], now)]
  <2> SUFFICES ASSUME IInv, NEW f \in Bijection(DOMAIN cands, DOMAIN cands)
               PROVE  keys(permuted(f)) = keys(cands)
    BY DEF RowOrderIsIrrelevant, Key
  <2>1. PICK n \in Nat : cands \in [1 .. n -> Candidates]
    BY GatherType
  <2>2. now \in Nat
    BY SchedulerAssumption DEF IInv, TypeOK
  <2> DEFINE d == permuted(f)
  <2> HIDE DEF cands
  <2>3. DOMAIN cands = 1 .. n /\ f \in Bijection(1 .. n, 1 .. n)
    BY <2>1
  <2>4. f \in [1 .. n -> 1 .. n]
    BY <2>3 DEF Bijection, Injection
  <2>5. d \in [1 .. n -> Candidates] /\ \A i \in 1 .. n : d[i] = cands[f[i]]
    BY <2>1, <2>3, <2>4
  <2> HIDE DEF d
  <2>6. keys(d) = keys(cands)
    BY <2>1, <2>2, <2>3, <2>5, RankingIgnoresRowOrder
  <2> QED BY <2>6 DEF d
<1> QED BY <1>1, SchedulerInvariant, PTL
=============================================================================
