-------------------------- MODULE NodeSignalsProofs --------------------------
(***************************************************************************)
(* What the planner of the read probes lists, and what a life of reports,  *)
(* probe runs and restarts leaves on a node's record.                      *)
(***************************************************************************)
EXTENDS NodeSignals, FiniteSetTheorems, TLAPS

-----------------------------------------------------------------------------
(* Sets in order.                                                          *)

StrictOrder(S, R) ==
    /\ \A x \in S : <<x, x>> \notin R
    /\ \A x, y, z \in S : <<x, y>> \in R /\ <<y, z>> \in R => <<x, z>> \in R
    /\ \A x, y \in S : x = y \/ <<x, y>> \in R \/ <<y, x>> \in R

\* A finite set in ascending order lists each member once.
LEMMA AscendingLists ==
    ASSUME NEW S, IsFiniteSet(S), NEW R, StrictOrder(S, R)
    PROVE  /\ Cardinality(S) \in Nat
           /\ Ascending(S, R) \in [1..Cardinality(S) -> S]
           /\ \A x \in S : \E k \in 1..Cardinality(S) : Ascending(S, R)[k] = x
           /\ \A j, k \in 1..Cardinality(S) :
                  j < k => <<Ascending(S, R)[j], Ascending(S, R)[k]>> \in R
<1> DEFINE N == Cardinality(S)
           below(x) == {y \in S : <<y, x>> \in R}
           rank == [x \in S |-> Cardinality(below(x))]
           place == [x \in S |-> rank[x] + 1]
<1>1. N \in Nat
  BY FS_CardinalityType
<1>2. \A x \in S : IsFiniteSet(below(x)) /\ rank[x] \in Nat /\ rank[x] < N
  <2> SUFFICES ASSUME NEW x \in S
               PROVE  IsFiniteSet(below(x)) /\ rank[x] \in Nat /\ rank[x] < N
    OBVIOUS
  <2>1. below(x) \in SUBSET S /\ x \notin below(x)
    BY DEF StrictOrder
  <2>2. IsFiniteSet(below(x)) /\ rank[x] <= N /\ rank[x] # N
    BY <2>1, FS_Subset
  <2>3. rank[x] \in Nat
    BY <2>2, FS_CardinalityType
  <2> QED
    BY <1>1, <2>2, <2>3
<1>13. \A x \in S : rank[x] \in Nat /\ rank[x] < N
  BY <1>2
<1>3. \A x, y \in S : <<x, y>> \in R => rank[x] < rank[y]
  <2> SUFFICES ASSUME NEW x \in S, NEW y \in S, <<x, y>> \in R
               PROVE  rank[x] < rank[y]
    OBVIOUS
  <2>1. below(x) \in SUBSET below(y) /\ x \in below(y) /\ x \notin below(x)
    BY DEF StrictOrder
  <2>2. /\ IsFiniteSet(below(y)) /\ rank[x] = Cardinality(below(x))
        /\ rank[y] = Cardinality(below(y)) /\ below(x) # below(y)
    BY <1>2, <2>1
  <2> HIDE DEF below, rank
  <2>3. rank[x] <= rank[y] /\ rank[x] # rank[y]
    BY <2>1, <2>2, FS_Subset
  <2> QED
    BY <1>13, <2>3
<1>12. \A x \in S : rank[x] = Cardinality({y \in S : <<y, x>> \in R})
  OBVIOUS
<1> HIDE DEF rank, below
<1>4. \A x, y \in S : rank[x] = rank[y] => x = y
  <2> SUFFICES ASSUME NEW x \in S, NEW y \in S, rank[x] = rank[y], x # y
               PROVE  FALSE
    OBVIOUS
  <2>1. <<x, y>> \in R \/ <<y, x>> \in R
    BY DEF StrictOrder
  <2>2. rank[x] < rank[y] \/ rank[y] < rank[x]
    BY <1>3, <2>1
  <2> QED
    BY <1>13, <2>2
<1>5. place \in Injection(S, 1..N)
  <2>1. place \in [S -> 1..N]
    BY <1>1, <1>13
  <2> QED
    BY <1>13, <1>4, <2>1 DEF Injection, IsInjective
<1>6. \A k \in 1..N : \E x \in S : rank[x] = k - 1
  <2>1. IsFiniteSet(1..N) /\ Cardinality(1..N) = N
    BY <1>1, FS_Interval
  <2>2. place \in Surjection(S, 1..N)
    BY <1>5, <2>1, FS_Injection
  <2>3. \A k \in 1..N : \E x \in S : place[x] = k
    BY <2>2 DEF Surjection
  <2> SUFFICES ASSUME NEW k \in 1..N
               PROVE  \E x \in S : rank[x] = k - 1
    OBVIOUS
  <2>4. PICK x \in S : place[x] = k
    BY <2>3
  <2> QED
    BY <1>1, <1>13, <2>4
<1>7. \A k \in 1..N : Ascending(S, R)[k] \in S /\ rank[Ascending(S, R)[k]] = k - 1
  BY <1>6, <1>12 DEF Ascending
<1>8. \A k \in 1..N : (CHOOSE x \in S : Cardinality({y \in S : <<y, x>> \in R}) = k - 1) \in S
  BY <1>6, <1>12
<1>9. Ascending(S, R) \in [1..N -> S]
  BY <1>8 DEF Ascending
<1>10. \A x \in S : \E k \in 1..N : Ascending(S, R)[k] = x
  <2> SUFFICES ASSUME NEW x \in S
               PROVE  \E k \in 1..N : Ascending(S, R)[k] = x
    OBVIOUS
  <2>1. rank[x] + 1 \in 1..N /\ (rank[x] + 1) - 1 = rank[x]
    BY <1>1, <1>13
  <2> QED
    BY <1>4, <1>7, <2>1
<1>11. \A j, k \in 1..N : j < k => <<Ascending(S, R)[j], Ascending(S, R)[k]>> \in R
  <2> SUFFICES ASSUME NEW j \in 1..N, NEW k \in 1..N, j < k
               PROVE  <<Ascending(S, R)[j], Ascending(S, R)[k]>> \in R
    OBVIOUS
  <2> DEFINE x == Ascending(S, R)[j]
             y == Ascending(S, R)[k]
  <2>1. x \in S /\ y \in S /\ rank[x] = j - 1 /\ rank[y] = k - 1
    BY <1>7
  <2> HIDE DEF x, y
  <2>2. x # y /\ ~(rank[y] < rank[x])
    BY <1>1, <2>1
  <2>3. <<x, y>> \in R
    BY <1>3, <2>1, <2>2 DEF StrictOrder
  <2> QED
    BY <2>3 DEF x, y
<1> QED
  BY <1>1, <1>9, <1>10, <1>11

LEMMA NumbersAreOrdered ==
    ASSUME NEW S \in SUBSET Int
    PROVE  StrictOrder(S, LessThan(S))
<1>1. \A x, y \in S : <<x, y>> \in LessThan(S) <=> x < y
  BY DEF LessThan
<1> QED
  BY <1>1 DEF StrictOrder

LEMMA AscendingNumbers ==
    ASSUME NEW S \in SUBSET Int, IsFiniteSet(S)
    PROVE  LET at == Ascending(S, LessThan(S))
               N == Cardinality(S)
           IN  /\ N \in Nat /\ at \in [1..N -> S]
               /\ \A x \in S : \E k \in 1..N : at[k] = x
               /\ \A j, k \in 1..N : j < k => <<at[j], at[k]>> \in LessThan(S)
<1> DEFINE R == LessThan(S)
<1>1. StrictOrder(S, R)
  BY NumbersAreOrdered
<1> HIDE DEF R
<1>2. /\ Cardinality(S) \in Nat
      /\ Ascending(S, R) \in [1..Cardinality(S) -> S]
      /\ \A x \in S : \E k \in 1..Cardinality(S) : Ascending(S, R)[k] = x
      /\ \A j, k \in 1..Cardinality(S) :
             j < k => <<Ascending(S, R)[j], Ascending(S, R)[k]>> \in R
  BY <1>1, AscendingLists, Zenon
<1> QED
  BY <1>2 DEF R

\* A finite set of numbers that is not empty has a least one.
LEMMA LeastExists ==
    ASSUME NEW S \in SUBSET Int, IsFiniteSet(S), S # {}
    PROVE  Min(S) \in S /\ \A x \in S : Min(S) <= x
<1> DEFINE at == Ascending(S, LessThan(S))
           N == Cardinality(S)
<1>1. /\ N \in Nat /\ at \in [1..N -> S]
      /\ \A x \in S : \E k \in 1..N : at[k] = x
      /\ \A j, k \in 1..N : j < k => <<at[j], at[k]>> \in LessThan(S)
  BY AscendingNumbers, Zenon
<1> HIDE DEF at
<1>2. 1 \in 1..N
  <2>1. PICK x \in S : TRUE
    OBVIOUS
  <2>2. PICK k \in 1..N : at[k] = x
    BY <1>1
  <2> QED
    BY <1>1, <2>2
<1>3. \A x \in S : at[1] <= x
  <2> SUFFICES ASSUME NEW x \in S
               PROVE  at[1] <= x
    OBVIOUS
  <2>1. PICK k \in 1..N : at[k] = x
    BY <1>1
  <2>2. at[1] \in S /\ x \in Int /\ at[1] \in Int
    BY <1>1, <1>2
  <2>3. CASE k = 1
    <3>1. at[1] = x
      BY <2>1, <2>3
    <3> QED
      BY <2>2, <3>1
  <2>4. CASE 1 < k
    <3>1. <<at[1], at[k]>> \in LessThan(S)
      BY <1>1, <1>2, <2>4
    <3>2. at[1] < at[k]
      BY <3>1 DEF LessThan
    <3> QED
      BY <2>1, <2>2, <3>2
  <2> QED
    BY <1>1, <2>3, <2>4
<1>4. at[1] \in S
  BY <1>1, <1>2
<1> QED
  BY <1>3, <1>4 DEF Min

\* What is picked of a sequence is what it has at those positions, in its order.
LEMMA PickedLists ==
    ASSUME NEW T, NEW seq \in Seq(T), NEW positions \in SUBSET DOMAIN seq
    PROVE  /\ Picked(seq, positions) \in Seq(T)
           /\ \E at \in [DOMAIN Picked(seq, positions) -> positions] :
                  /\ \A k \in DOMAIN Picked(seq, positions) :
                         Picked(seq, positions)[k] = seq[at[k]]
                  /\ \A i \in positions : \E k \in DOMAIN Picked(seq, positions) : at[k] = i
                  /\ \A j, k \in DOMAIN Picked(seq, positions) : j < k => at[j] < at[k]
<1> DEFINE at == Ascending(positions, LessThan(positions))
           N == Cardinality(positions)
           picked == Picked(seq, positions)
<1>1. IsFiniteSet(positions) /\ positions \in SUBSET Int /\ DOMAIN seq = 1..Len(seq)
      /\ Len(seq) \in Nat
  <2>1. Len(seq) \in Nat /\ DOMAIN seq = 1..Len(seq)
    OBVIOUS
  <2>2. IsFiniteSet(DOMAIN seq)
    BY <2>1, FS_Interval
  <2> QED
    BY <2>1, <2>2, FS_Subset
<1>2. /\ N \in Nat /\ at \in [1..N -> positions]
      /\ \A x \in positions : \E k \in 1..N : at[k] = x
      /\ \A j, k \in 1..N : j < k => <<at[j], at[k]>> \in LessThan(positions)
  BY <1>1, AscendingNumbers, Zenon
<1>3. picked = [k \in DOMAIN at |-> seq[at[k]]]
  BY DEF Picked
<1> HIDE DEF at, picked
<1>4. DOMAIN picked = 1..N
  BY <1>2, <1>3
<1>5. \A k \in 1..N : picked[k] = seq[at[k]] /\ seq[at[k]] \in T
  BY <1>1, <1>2, <1>3
<1>6. picked \in [1..N -> T]
  BY <1>2, <1>3, <1>5
<1>7. picked \in Seq(T)
  BY <1>2, <1>6
<1>8. \A j, k \in 1..N : j < k => at[j] < at[k]
  BY <1>2 DEF LessThan
<1> QED
  BY <1>2, <1>4, <1>5, <1>7, <1>8 DEF picked

-----------------------------------------------------------------------------
(* The discovered paths.                                                   *)

LEMMA PositionFinds ==
    ASSUME NEW seq, NEW x \in Range(seq)
    PROVE  Position(seq, x) \in DOMAIN seq /\ seq[Position(seq, x)] = x
<1>1. \E i \in DOMAIN seq : seq[i] = x
  BY DEF Range
<1> QED
  BY <1>1 DEF Position

\* Two readable paths never take the same place.
LEMMA PrecedenceTells ==
    ASSUME NEW keys \in SUBSET Paths
    PROVE  /\ \A p \in Readable(keys) : Precedence(p) \in Nat \X Nat \X Nat \X Nat
           /\ \A p, q \in Readable(keys) : Precedence(p) = Precedence(q) => p = q
<1> DEFINE Listed(p) ==
               \E c \in DOMAIN CLUSTER_ORDER :
                   p[2] = CLUSTER_ORDER[c] /\ p[3] \in Range(CLUSTER_READ_PRIORITIES[c])
           place(p) == Position(CLUSTER_READ_PRIORITIES[Position(CLUSTER_ORDER, p[2])], p[3])
<1>1. /\ DOMAIN CLUSTER_ORDER = {1, 2, 3} /\ Len(CLUSTER_ORDER) = 3
      /\ CLUSTER_ORDER[1] = 40 /\ CLUSTER_ORDER[2] = 258 /\ CLUSTER_ORDER[3] = 29
  BY DEF CLUSTER_ORDER, WINDOW_COVERING_CLUSTER, DESCRIPTOR_CLUSTER
<1>2. Range(CLUSTER_ORDER) = {40, 258, 29}
  BY <1>1 DEF Range
<1>3. \A c \in {1, 2, 3} : DOMAIN CLUSTER_READ_PRIORITIES[c] \subseteq Nat
  BY DEF CLUSTER_READ_PRIORITIES
<1>4. \A p \in Paths : /\ p[1] \in Nat /\ p[2] \in Nat /\ p[3] \in Nat
                       /\ p = <<p[1], p[2], p[3]>>
  BY DEF Paths
<1>5. \A p \in Readable(keys) : p \in Paths /\ (p[2] \in {3, 6, 8} \/ Listed(p))
  BY DEF Readable, EXTRA_DISCOVERED_CLUSTERS
<1>6. ASSUME NEW p \in Readable(keys), p[2] \in Range(CLUSTER_ORDER)
      PROVE  LET c == Position(CLUSTER_ORDER, p[2])
             IN  /\ c \in {1, 2, 3} /\ CLUSTER_ORDER[c] = p[2]
                 /\ place(p) \in Nat /\ CLUSTER_READ_PRIORITIES[c][place(p)] = p[3]
                 /\ Precedence(p) = <<c, place(p), p[1], 0>>
  <2> DEFINE c == Position(CLUSTER_ORDER, p[2])
  <2>1. c \in {1, 2, 3} /\ CLUSTER_ORDER[c] = p[2]
    BY <1>1, <1>6, PositionFinds
  <2>2. Listed(p)
    BY <1>2, <1>5, <1>6
  <2>3. p[3] \in Range(CLUSTER_READ_PRIORITIES[c])
    BY <1>1, <2>1, <2>2
  <2>4. /\ place(p) \in DOMAIN CLUSTER_READ_PRIORITIES[c]
        /\ CLUSTER_READ_PRIORITIES[c][place(p)] = p[3]
    BY <2>3, PositionFinds
  <2> QED
    BY <1>3, <1>6, <2>1, <2>4 DEF Precedence
<1>7. ASSUME NEW p \in Readable(keys), p[2] \notin Range(CLUSTER_ORDER)
      PROVE  Precedence(p) = <<4, p[1], p[2], p[3]>>
  BY <1>1, <1>7 DEF Precedence
<1>8. \A p \in Readable(keys) : Precedence(p) \in Nat \X Nat \X Nat \X Nat
  BY <1>4, <1>5, <1>6, <1>7
<1>9. ASSUME NEW p \in Readable(keys), NEW q \in Readable(keys), Precedence(p) = Precedence(q)
      PROVE  p = q
  <2>1. CASE p[2] \in Range(CLUSTER_ORDER) /\ q[2] \in Range(CLUSTER_ORDER)
    BY <1>4, <1>5, <1>6, <1>9, <2>1
  <2>2. CASE p[2] \notin Range(CLUSTER_ORDER) /\ q[2] \notin Range(CLUSTER_ORDER)
    BY <1>4, <1>5, <1>7, <1>9, <2>2
  <2>3. CASE p[2] \in Range(CLUSTER_ORDER) /\ q[2] \notin Range(CLUSTER_ORDER)
    BY <1>6, <1>7, <1>9, <2>3
  <2>4. CASE p[2] \notin Range(CLUSTER_ORDER) /\ q[2] \in Range(CLUSTER_ORDER)
    BY <1>6, <1>7, <1>9, <2>4
  <2> QED
    BY <2>1, <2>2, <2>3, <2>4
<1> QED
  BY <1>8, <1>9

LEMMA ReadablesAreOrdered ==
    ASSUME NEW keys \in SUBSET Paths
    PROVE  StrictOrder(Readable(keys), InReadingOrder(Readable(keys)))
<1> DEFINE S == Readable(keys)
           Less(a, b) == \/ a[1] < b[1]
                         \/ a[1] = b[1] /\ a[2] < b[2]
                         \/ a[1] = b[1] /\ a[2] = b[2] /\ a[3] < b[3]
                         \/ a[1] = b[1] /\ a[2] = b[2] /\ a[3] = b[3] /\ a[4] < b[4]
<1>1. \A p, q \in S : <<p, q>> \in InReadingOrder(S) <=> Less(Precedence(p), Precedence(q))
  <2> SUFFICES ASSUME NEW p \in S, NEW q \in S
               PROVE  Before(p, q) <=> Less(Precedence(p), Precedence(q))
    BY DEF InReadingOrder
  <2> DEFINE a == Precedence(p)
             b == Precedence(q)
  <2>1. Before(p, q) <=> \E i \in 1..4 : a[i] < b[i] /\ \A j \in 1..(i - 1) : a[j] = b[j]
    BY DEF Before
  <2> HIDE DEF a, b
  <2>2. 1..0 = {} /\ 1..1 = {1} /\ 1..2 = {1, 2} /\ 1..3 = {1, 2, 3} /\ 1..4 = {1, 2, 3, 4}
    OBVIOUS
  <2>3. (\E i \in 1..4 : a[i] < b[i] /\ \A j \in 1..(i - 1) : a[j] = b[j]) <=> Less(a, b)
    BY <2>2
  <2> QED
    BY <2>1, <2>3 DEF a, b
<1>2. /\ \A p \in S : Precedence(p) \in Nat \X Nat \X Nat \X Nat
      /\ \A p, q \in S : Precedence(p) = Precedence(q) => p = q
  BY PrecedenceTells
<1> HIDE DEF S
<1>3. \A p \in S : <<p, p>> \notin InReadingOrder(S)
  BY <1>1, <1>2
<1>4. ASSUME NEW p \in S, NEW q \in S, NEW r \in S,
             <<p, q>> \in InReadingOrder(S), <<q, r>> \in InReadingOrder(S)
      PROVE  <<p, r>> \in InReadingOrder(S)
  <2> DEFINE a == Precedence(p)
             b == Precedence(q)
             c == Precedence(r)
  <2>1. Less(a, b) /\ Less(b, c)
    BY <1>1, <1>4
  <2>2. {a, b, c} \subseteq Nat \X Nat \X Nat \X Nat
    BY <1>2
  <2> HIDE DEF a, b, c
  <2>3. Less(a, c)
    BY <2>1, <2>2
  <2> QED
    BY <1>1, <2>3 DEF a, b, c
<1>5. ASSUME NEW p \in S, NEW q \in S, p # q
      PROVE  <<p, q>> \in InReadingOrder(S) \/ <<q, p>> \in InReadingOrder(S)
  <2> DEFINE a == Precedence(p)
             b == Precedence(q)
  <2>1. {a, b} \subseteq Nat \X Nat \X Nat \X Nat /\ a # b
    BY <1>2, <1>5
  <2> HIDE DEF a, b
  <2>2. Less(a, b) \/ Less(b, a)
    BY <2>1
  <2> QED
    BY <1>1, <2>2 DEF a, b
<1> QED
  BY <1>3, <1>4, <1>5 DEF StrictOrder, S

-----------------------------------------------------------------------------
(* The plan.                                                               *)

\* A record the planner may be given.
Plannable(n) ==
    IsFiniteSet(n.keys) /\ n.keys \subseteq Paths /\ n.path \in Paths \cup {NoPath}

LEMMA NoPathIsNone == \A p \in Paths : p # NoPath
<1> SUFFICES ASSUME NEW p \in Paths
             PROVE  p # NoPath
  OBVIOUS
<1>1. PICK e \in Nat, c \in Nat, a \in Nat : p = <<e, c, a>>
  BY DEF Paths
<1>2. DOMAIN p = {1, 2, 3}
  BY <1>1
<1>3. DOMAIN NoPath = {}
  BY DEF NoPath
<1> QED
  BY <1>2, <1>3

LEMMA CandidatesType ==
    ASSUME NEW paths \in Seq(Paths), NEW weight \in {"generic", "specific", "override"}
    PROVE  Candidates(paths, weight) \in Seq(Candidate)
<1>1. Len(paths) \in Nat /\ DOMAIN paths = 1..Len(paths)
      /\ \A i \in DOMAIN paths : paths[i] \in Paths
  OBVIOUS
<1>2. Candidates(paths, weight) \in [1..Len(paths) -> Candidate]
  BY <1>1 DEF Candidates, Candidate
<1> QED
  BY <1>1, <1>2

LEMMA EndpointsType ==
    ASSUME NEW keys \in SUBSET Paths, IsFiniteSet(keys), NEW cluster
    PROVE  endpoints_with_cluster(keys, cluster) \in Seq(Nat)
<1> DEFINE matching == {q \in keys : q[2] = cluster}
           endpoints == {p[1] : p \in matching}
           N == Cardinality(endpoints)
<1>1. IsFiniteSet(matching)
  BY FS_Subset
<1>2. IsFiniteSet(endpoints)
  <2> DEFINE endpoint == [p \in matching |-> p[1]]
  <2>1. endpoint \in Surjection(matching, endpoints)
    BY DEF Surjection
  <2> HIDE DEF endpoint, endpoints, matching
  <2> QED
    BY <1>1, <2>1, FS_Surjection
<1>3. endpoints \in SUBSET Nat
  BY DEF Paths
<1>4. endpoints_with_cluster(keys, cluster) = Ascending(endpoints, LessThan(endpoints))
  BY DEF endpoints_with_cluster
<1> HIDE DEF endpoints
<1>5. N \in Nat /\ Ascending(endpoints, LessThan(endpoints)) \in [1..N -> endpoints]
  BY <1>2, <1>3, NumbersAreOrdered, AscendingLists
<1>6. Ascending(endpoints, LessThan(endpoints)) \in [1..N -> Nat]
  BY <1>3, <1>5
<1> QED
  BY <1>4, <1>5, <1>6

LEMMA DiscoveredType ==
    ASSUME NEW keys \in SUBSET Paths, IsFiniteSet(keys)
    PROVE  discovered_candidates(keys) \in Seq(Candidate)
<1> DEFINE ordered == Ascending(Readable(keys), InReadingOrder(Readable(keys)))
           N == Cardinality(Readable(keys))
           last == Min({Len(ordered), MAX_DISCOVERED_CANDIDATES})
<1>1. Readable(keys) \in SUBSET keys /\ IsFiniteSet(Readable(keys))
  BY FS_Subset DEF Readable
<1>2. N \in Nat /\ ordered \in [1..N -> Readable(keys)]
  BY <1>1, ReadablesAreOrdered, AscendingLists
<1>3. ordered \in [1..N -> Paths]
  BY <1>1, <1>2
<1> HIDE DEF ordered
<1>4. ordered \in Seq(Paths) /\ Len(ordered) = N
  BY <1>2, <1>3
<1>5. last \in Nat /\ last <= Len(ordered)
  BY <1>2, <1>4 DEF Min, MAX_DISCOVERED_CANDIDATES
<1> HIDE DEF last
<1>6. SubSeq(ordered, 1, last) \in Seq(Paths)
  BY <1>4, <1>5
<1> QED
  BY <1>6, CandidatesType DEF discovered_candidates, ordered, last

\* What the planner lists before it drops anything, reason by reason, are attribute
\* paths.
LEMMA ReasonsType ==
    ASSUME NEW n, Plannable(n)
    PROVE  {Candidates(Preferred, "override"), device_specific_candidates(n.keys),
            cached_success_candidate(n), discovered_candidates(n.keys),
            Candidates(Fallback, "generic"), descriptor_candidates(n.keys)}
               \subseteq Seq(Candidate)
<1>1. IsFiniteSet(n.keys) /\ n.keys \in SUBSET Paths
  BY DEF Plannable
<1>2. /\ Candidates(Preferred, "override") \in Seq(Candidate)
      /\ Candidates(Fallback, "generic") \in Seq(Candidate)
  BY SignalsAssumption, CandidatesType
<1>3. device_specific_candidates(n.keys) \in Seq(Candidate)
  <2> DEFINE endpoints == endpoints_with_cluster(n.keys, WINDOW_COVERING_CLUSTER)
             listed == [i \in DOMAIN endpoints |->
                            <<endpoints[i], WINDOW_COVERING_CLUSTER, 10>>]
  <2>1. endpoints \in Seq(Nat)
    BY <1>1, EndpointsType
  <2> HIDE DEF endpoints
  <2>2. listed \in Seq(Paths)
    <3>1. /\ Len(endpoints) \in Nat /\ DOMAIN endpoints = 1..Len(endpoints)
          /\ \A i \in DOMAIN endpoints : endpoints[i] \in Nat
      BY <2>1
    <3>2. \A i \in DOMAIN endpoints :
              <<endpoints[i], WINDOW_COVERING_CLUSTER, 10>> \in Paths
      BY <3>1 DEF Paths, WINDOW_COVERING_CLUSTER
    <3> QED
      BY <3>1, <3>2
  <2>3. (IF endpoints = <<>> THEN WindowCovering ELSE listed) \in Seq(Paths)
    BY <2>2, SignalsAssumption
  <2> QED
    BY <2>3, CandidatesType DEF device_specific_candidates, endpoints
<1>4. descriptor_candidates(n.keys) \in Seq(Candidate)
  <2> DEFINE endpoints == endpoints_with_cluster(n.keys, DESCRIPTOR_CLUSTER)
             listed == [i \in DOMAIN endpoints |-> <<endpoints[i], DESCRIPTOR_CLUSTER, 0>>]
  <2>1. endpoints \in Seq(Nat)
    BY <1>1, EndpointsType
  <2> HIDE DEF endpoints
  <2>2. listed \in Seq(Paths)
    <3>1. /\ Len(endpoints) \in Nat /\ DOMAIN endpoints = 1..Len(endpoints)
          /\ \A i \in DOMAIN endpoints : endpoints[i] \in Nat
      BY <2>1
    <3>2. \A i \in DOMAIN endpoints : <<endpoints[i], DESCRIPTOR_CLUSTER, 0>> \in Paths
      BY <3>1 DEF Paths, DESCRIPTOR_CLUSTER
    <3> QED
      BY <3>1, <3>2
  <2>4. <<0, DESCRIPTOR_CLUSTER, 0>> \in Paths
    BY DEF Paths, DESCRIPTOR_CLUSTER
  <2>3. (IF endpoints = <<>> THEN <<<<0, DESCRIPTOR_CLUSTER, 0>>>> ELSE listed) \in Seq(Paths)
    BY <2>2, <2>4
  <2> QED
    BY <2>3, CandidatesType DEF descriptor_candidates, endpoints
<1>5. cached_success_candidate(n) \in Seq(Candidate)
  <2>1. CASE n.path = NoPath
    BY <2>1 DEF cached_success_candidate
  <2>2. CASE n.path # NoPath
    <3>1. <<n.path>> \in Seq(Paths)
      BY <2>2 DEF Plannable
    <3> QED
      BY <2>2, <3>1, CandidatesType DEF cached_success_candidate
  <2> QED
    BY <2>1, <2>2
<1>6. discovered_candidates(n.keys) \in Seq(Candidate)
  BY <1>1, DiscoveredType
<1> QED
  BY <1>2, <1>3, <1>4, <1>5, <1>6

LEMMA OrderedType ==
    ASSUME NEW effective_mode, NEW n, Plannable(n)
    PROVE  ordered_candidates(effective_mode, n) \in Seq(Candidate)
BY ReasonsType DEF ordered_candidates

\* Where the candidates of `kept` come from, in the order of `all`: each is the first
\* there for its path.
FirstsOf(kept, all) ==
    \E at \in [DOMAIN kept -> DOMAIN all] :
        /\ \A k \in DOMAIN kept :
               kept[k] = all[at[k]] /\ \A j \in 1..(at[k] - 1) : all[j].path # kept[k].path
        /\ \A j, k \in DOMAIN kept : j < k => at[j] < at[k]

LEMMA FirstOfPath ==
    ASSUME NEW candidates \in Seq(Candidate), NEW i \in DOMAIN candidates
    PROVE  \E f \in DOMAIN candidates :
               /\ candidates[f].path = candidates[i].path
               /\ \A j \in 1..(f - 1) : candidates[j].path # candidates[f].path
<1> DEFINE same == {j \in DOMAIN candidates : candidates[j].path = candidates[i].path}
<1>1. DOMAIN candidates = 1..Len(candidates) /\ Len(candidates) \in Nat
  OBVIOUS
<1>2. IsFiniteSet(DOMAIN candidates)
  BY <1>1, FS_Interval
<1>3. IsFiniteSet(same) /\ same \in SUBSET Int /\ same # {}
  BY <1>1, <1>2, FS_Subset
<1>4. \A j \in DOMAIN candidates : j \in same <=> candidates[j].path = candidates[i].path
  OBVIOUS
<1>5. same \subseteq DOMAIN candidates
  OBVIOUS
<1> HIDE DEF same
<1>6. Min(same) \in same /\ \A j \in same : Min(same) <= j
  BY <1>3, LeastExists
<1>7. \A j \in 1..(Min(same) - 1) : j \in DOMAIN candidates /\ j \notin same
  BY <1>1, <1>5, <1>6
<1> QED
  BY <1>4, <1>5, <1>6, <1>7

\* Of every path its first candidate stays, in the order of the list:
\* dedupe_candidates.
THEOREM DedupeKeepsFirsts ==
    ASSUME NEW candidates \in Seq(Candidate)
    PROVE  /\ dedupe_candidates(candidates) \in Seq(Candidate)
           /\ NoRepeats(dedupe_candidates(candidates))
           /\ PathsOf(dedupe_candidates(candidates)) = PathsOf(candidates)
           /\ FirstsOf(dedupe_candidates(candidates), candidates)
<1> DEFINE firsts == {i \in DOMAIN candidates :
                         \A j \in 1..(i - 1) : candidates[j].path # candidates[i].path}
           kept == dedupe_candidates(candidates)
<1>1. kept = Picked(candidates, firsts)
  BY DEF dedupe_candidates
<1>2. /\ firsts \subseteq DOMAIN candidates
      /\ \A i \in firsts : \A j \in 1..(i - 1) : candidates[j].path # candidates[i].path
      /\ \A i \in DOMAIN candidates :
             (\A j \in 1..(i - 1) : candidates[j].path # candidates[i].path) => i \in firsts
  OBVIOUS
<1> HIDE DEF firsts, kept
<1>3. kept \in Seq(Candidate)
  BY <1>1, <1>2, PickedLists
<1>4. PICK at \in [DOMAIN kept -> firsts] :
          /\ \A k \in DOMAIN kept : kept[k] = candidates[at[k]]
          /\ \A i \in firsts : \E k \in DOMAIN kept : at[k] = i
          /\ \A j, k \in DOMAIN kept : j < k => at[j] < at[k]
  BY <1>1, <1>2, PickedLists
<1>5. DOMAIN kept \subseteq Nat /\ DOMAIN candidates = 1..Len(candidates)
      /\ Len(candidates) \in Nat
  BY <1>3
<1>6. FirstsOf(kept, candidates)
  <2>1. at \in [DOMAIN kept -> DOMAIN candidates]
    BY <1>2
  <2>2. \A k \in DOMAIN kept :
            /\ kept[k] = candidates[at[k]]
            /\ \A j \in 1..(at[k] - 1) : candidates[j].path # kept[k].path
    BY <1>2, <1>4
  <2> QED
    BY <1>4, <2>1, <2>2 DEF FirstsOf
<1>7. NoRepeats(kept)
  <2> SUFFICES ASSUME NEW j \in DOMAIN kept, NEW k \in DOMAIN kept, j < k,
                      kept[j].path = kept[k].path
               PROVE  FALSE
    BY <1>5 DEF NoRepeats
  <2>1. at[j] \in firsts /\ at[k] \in firsts /\ at[j] < at[k]
    BY <1>4
  <2>2. at[j] \in 1..(at[k] - 1)
    BY <1>2, <1>5, <2>1
  <2> QED
    BY <1>2, <1>4, <2>1, <2>2
<1>8. PathsOf(kept) = PathsOf(candidates)
  <2>1. PathsOf(kept) \subseteq PathsOf(candidates)
    BY <1>2, <1>4 DEF PathsOf
  <2>2. ASSUME NEW i \in DOMAIN candidates
        PROVE  \E k \in DOMAIN kept : kept[k].path = candidates[i].path
    <3>1. PICK f \in DOMAIN candidates :
              /\ candidates[f].path = candidates[i].path
              /\ \A j \in 1..(f - 1) : candidates[j].path # candidates[f].path
      BY FirstOfPath
    <3>2. PICK k \in DOMAIN kept : at[k] = f
      BY <1>2, <1>4, <3>1
    <3> QED
      BY <1>4, <3>1, <3>2
  <2>3. PathsOf(candidates) \subseteq PathsOf(kept)
    BY <2>2 DEF PathsOf
  <2> QED
    BY <2>1, <2>3
<1> QED
  BY <1>3, <1>6, <1>7, <1>8 DEF kept

\* A plan has every path there is a reason to try and none that is known as
\* unsupported, each once, in the order of the reasons and with the weight of its first:
\* plan.
THEOREM PlanIsComplete ==
    ASSUME NEW effective_mode, NEW n, Plannable(n)
    PROVE  /\ plan(effective_mode, n) \in Seq(Candidate)
           /\ NoRepeats(plan(effective_mode, n))
           /\ PathsOf(plan(effective_mode, n)) =
                  PathsOf(ordered_candidates(effective_mode, n)) \ n.unsupported
           /\ FirstsOf(plan(effective_mode, n), ordered_candidates(effective_mode, n))
<1> DEFINE all == ordered_candidates(effective_mode, n)
           deduped == dedupe_candidates(all)
           supported == {i \in DOMAIN deduped : deduped[i].path \notin n.unsupported}
           planned == plan(effective_mode, n)
<1>1. all \in Seq(Candidate)
  BY OrderedType
<1>2. planned = Picked(deduped, supported)
  BY DEF plan
<1> HIDE DEF all
<1>3. /\ deduped \in Seq(Candidate) /\ NoRepeats(deduped)
      /\ PathsOf(deduped) = PathsOf(all) /\ FirstsOf(deduped, all)
  BY <1>1, DedupeKeepsFirsts
<1> HIDE DEF planned, deduped
<1>4. planned \in Seq(Candidate)
  BY <1>2, <1>3, PickedLists
<1>5. supported \in SUBSET DOMAIN deduped
  OBVIOUS
<1>6. \A i \in DOMAIN deduped : i \in supported <=> deduped[i].path \notin n.unsupported
  OBVIOUS
<1> HIDE DEF supported
<1>7. PICK at \in [DOMAIN planned -> supported] :
          /\ \A k \in DOMAIN planned : planned[k] = deduped[at[k]]
          /\ \A i \in supported : \E k \in DOMAIN planned : at[k] = i
          /\ \A j, k \in DOMAIN planned : j < k => at[j] < at[k]
  <2>1. \E at \in [DOMAIN Picked(deduped, supported) -> supported] :
            /\ \A k \in DOMAIN Picked(deduped, supported) :
                   Picked(deduped, supported)[k] = deduped[at[k]]
            /\ \A i \in supported :
                   \E k \in DOMAIN Picked(deduped, supported) : at[k] = i
            /\ \A j, k \in DOMAIN Picked(deduped, supported) : j < k => at[j] < at[k]
    BY <1>3, <1>5, PickedLists
  <2> QED
    BY <1>2, <2>1
<1>8. DOMAIN planned \subseteq Nat /\ DOMAIN deduped \subseteq Nat
  BY <1>3, <1>4
<1>9. NoRepeats(planned)
  <2> SUFFICES ASSUME NEW j \in DOMAIN planned, NEW k \in DOMAIN planned, j < k,
                      planned[j].path = planned[k].path
               PROVE  FALSE
    BY <1>8 DEF NoRepeats
  <2>1. at[j] \in DOMAIN deduped /\ at[k] \in DOMAIN deduped /\ at[j] < at[k]
    BY <1>5, <1>7
  <2>2. at[j] = at[k]
    BY <1>3, <1>7, <2>1 DEF NoRepeats
  <2> QED
    BY <1>8, <2>1, <2>2
<1>10. PathsOf(planned) = PathsOf(all) \ n.unsupported
  <2>1. PathsOf(planned) \subseteq PathsOf(deduped) \ n.unsupported
    BY <1>5, <1>6, <1>7 DEF PathsOf
  <2>2. PathsOf(deduped) \ n.unsupported \subseteq PathsOf(planned)
    BY <1>6, <1>7 DEF PathsOf
  <2> QED
    BY <1>3, <2>1, <2>2
<1>11. FirstsOf(planned, all)
  <2>1. PICK from \in [DOMAIN deduped -> DOMAIN all] :
            /\ \A k \in DOMAIN deduped :
                   /\ deduped[k] = all[from[k]]
                   /\ \A j \in 1..(from[k] - 1) : all[j].path # deduped[k].path
            /\ \A j, k \in DOMAIN deduped : j < k => from[j] < from[k]
    BY <1>3 DEF FirstsOf
  <2> DEFINE origin == [k \in DOMAIN planned |-> from[at[k]]]
  <2>2. origin \in [DOMAIN planned -> DOMAIN all]
    BY <1>5, <1>7, <2>1
  <2>3. \A k \in DOMAIN planned : origin[k] = from[at[k]] /\ at[k] \in DOMAIN deduped
    BY <1>5, <1>7
  <2> HIDE DEF origin
  <2>4. \A k \in DOMAIN planned :
            /\ planned[k] = all[origin[k]]
            /\ \A j \in 1..(origin[k] - 1) : all[j].path # planned[k].path
    BY <1>7, <2>1, <2>3
  <2>5. \A j, k \in DOMAIN planned : j < k => origin[j] < origin[k]
    BY <1>7, <2>1, <2>3
  <2> QED
    BY <2>2, <2>4, <2>5 DEF FirstsOf
<1> QED
  BY <1>4, <1>9, <1>10, <1>11 DEF planned, all

LEMMA PathsOfConcatenation ==
    ASSUME NEW a \in Seq(Candidate), NEW b \in Seq(Candidate)
    PROVE  a \o b \in Seq(Candidate) /\ PathsOf(a \o b) = PathsOf(a) \cup PathsOf(b)
<1>1. a \o b \in Seq(Candidate)
  OBVIOUS
<1>2. ASSUME NEW i \in DOMAIN (a \o b)
      PROVE  (a \o b)[i].path \in PathsOf(a) \cup PathsOf(b)
  <2>1. \/ i \in DOMAIN a /\ (a \o b)[i] = a[i]
        \/ i - Len(a) \in DOMAIN b /\ (a \o b)[i] = b[i - Len(a)]
    OBVIOUS
  <2> QED
    BY <2>1 DEF PathsOf
<1>3. ASSUME NEW i \in DOMAIN a
      PROVE  a[i].path \in PathsOf(a \o b)
  <2>1. i \in DOMAIN (a \o b) /\ (a \o b)[i] = a[i]
    OBVIOUS
  <2> QED
    BY <2>1 DEF PathsOf
<1>4. ASSUME NEW i \in DOMAIN b
      PROVE  b[i].path \in PathsOf(a \o b)
  <2>1. Len(a) + i \in DOMAIN (a \o b) /\ (a \o b)[Len(a) + i] = b[i]
    OBVIOUS
  <2> QED
    BY <2>1 DEF PathsOf
<1> QED
  BY <1>1, <1>2, <1>3, <1>4 DEF PathsOf

\* The path that worked is among those there is a reason to try.
LEMMA CachedIsOrdered ==
    ASSUME NEW effective_mode, NEW n, Plannable(n), n.path # NoPath
    PROVE  n.path \in PathsOf(ordered_candidates(effective_mode, n))
<1> DEFINE specific == IF effective_mode = "conservative" THEN <<>>
                       ELSE device_specific_candidates(n.keys)
           descriptors == IF effective_mode = "diagnostic" THEN descriptor_candidates(n.keys)
                          ELSE <<>>
           preferred == Candidates(Preferred, "override")
           cached == cached_success_candidate(n)
           discovered == discovered_candidates(n.keys)
           fallback == Candidates(Fallback, "generic")
<1>1. /\ {preferred, specific, cached, discovered, fallback, descriptors} \subseteq Seq(Candidate)
      /\ ordered_candidates(effective_mode, n) =
             preferred \o specific \o cached \o discovered \o fallback \o descriptors
  BY ReasonsType DEF ordered_candidates
<1>2. n.path \in PathsOf(cached)
  BY DEF cached_success_candidate, Candidates, PathsOf
<1> HIDE DEF preferred, specific, cached, discovered, fallback, descriptors
<1>3. /\ preferred \o specific \in Seq(Candidate)
      /\ n.path \in PathsOf(preferred \o specific \o cached)
      /\ preferred \o specific \o cached \in Seq(Candidate)
  BY <1>1, <1>2, PathsOfConcatenation
<1>4. /\ n.path \in PathsOf(preferred \o specific \o cached \o discovered)
      /\ preferred \o specific \o cached \o discovered \in Seq(Candidate)
  BY <1>1, <1>3, PathsOfConcatenation
<1>5. /\ n.path \in PathsOf(preferred \o specific \o cached \o discovered \o fallback)
      /\ preferred \o specific \o cached \o discovered \o fallback \in Seq(Candidate)
  BY <1>1, <1>4, PathsOfConcatenation
<1> QED
  BY <1>1, <1>5, PathsOfConcatenation

\* What the planner lists depends on the keys and on the path that worked.
LEMMA OrderedDepends ==
    ASSUME NEW effective_mode, NEW n, NEW m, n.keys = m.keys, n.path = m.path
    PROVE  /\ ordered_candidates(effective_mode, n) = ordered_candidates(effective_mode, m)
           /\ n.unsupported = m.unsupported => plan(effective_mode, n) = plan(effective_mode, m)
<1>1. ordered_candidates(effective_mode, n) = ordered_candidates(effective_mode, m)
  BY DEF ordered_candidates, cached_success_candidate
<1> QED
  BY <1>1 DEF plan

-----------------------------------------------------------------------------
(* The outcomes of a run.                                                  *)

LEMMA NextAttempt ==
    ASSUME NEW todo \in Seq(Candidate), todo # <<>>
    PROVE  /\ Head(todo) \in Candidate /\ Tail(todo) \in Seq(Candidate)
           /\ PathsOf(todo) = {Head(todo).path} \cup PathsOf(Tail(todo))
           /\ NoRepeats(todo) => /\ NoRepeats(Tail(todo))
                                 /\ Head(todo).path \notin PathsOf(Tail(todo))
<1>1. /\ Head(todo) \in Candidate /\ Tail(todo) \in Seq(Candidate)
      /\ 1 \in DOMAIN todo /\ Head(todo) = todo[1]
  OBVIOUS
<1>2. \A i \in DOMAIN Tail(todo) : i + 1 \in DOMAIN todo /\ Tail(todo)[i] = todo[i + 1]
                                   /\ i \in Nat /\ i # 0
  OBVIOUS
<1>3. \A i \in DOMAIN todo : i = 1 \/ (i - 1 \in DOMAIN Tail(todo) /\ Tail(todo)[i - 1] = todo[i])
  OBVIOUS
<1>4. PathsOf(todo) = {Head(todo).path} \cup PathsOf(Tail(todo))
  <2>1. ASSUME NEW i \in DOMAIN todo
        PROVE  todo[i].path \in {Head(todo).path} \cup PathsOf(Tail(todo))
    <3>1. CASE i = 1
      BY <1>1, <3>1
    <3>2. CASE i - 1 \in DOMAIN Tail(todo) /\ Tail(todo)[i - 1] = todo[i]
      BY <3>2, Zenon DEF PathsOf
    <3> QED
      BY <1>3, <3>1, <3>2
  <2>2. Head(todo).path \in PathsOf(todo)
    BY <1>1, Zenon DEF PathsOf
  <2>3. \A i \in DOMAIN Tail(todo) : Tail(todo)[i].path \in PathsOf(todo)
    BY <1>2, Zenon DEF PathsOf
  <2> QED
    BY <2>1, <2>2, <2>3 DEF PathsOf
<1>5. ASSUME NoRepeats(todo)
      PROVE  NoRepeats(Tail(todo)) /\ Head(todo).path \notin PathsOf(Tail(todo))
  <2>1. \A i, j \in DOMAIN Tail(todo) : Tail(todo)[i].path = Tail(todo)[j].path => i = j
    BY <1>2, <1>5 DEF NoRepeats
  <2>2. \A i \in DOMAIN Tail(todo) : Tail(todo)[i].path # Head(todo).path
    BY <1>1, <1>2, <1>5 DEF NoRepeats
  <2> QED
    BY <2>1, <2>2 DEF NoRepeats, PathsOf
<1> QED
  BY <1>1, <1>4, <1>5

LEMMA NextOutcome ==
    ASSUME NEW outcomes \in Seq(Result), NEW o \in Result
    PROVE  /\ Append(outcomes, o) \in Seq(Result) /\ Append(outcomes, o) # <<>>
           /\ PathsOf(Append(outcomes, o)) = PathsOf(outcomes) \cup {o.path}
           /\ NoRepeats(outcomes) /\ o.path \notin PathsOf(outcomes) =>
                  NoRepeats(Append(outcomes, o))
<1> DEFINE longer == Append(outcomes, o)
<1>1. longer \in Seq(Result) /\ longer # <<>>
  <2>1. longer \in Seq(Result) /\ Len(longer) = Len(outcomes) + 1 /\ Len(outcomes) \in Nat
    OBVIOUS
  <2> QED
    BY <2>1
<1>2. \A i \in DOMAIN outcomes : i \in DOMAIN longer /\ longer[i] = outcomes[i]
  OBVIOUS
<1>3. Len(outcomes) + 1 \in DOMAIN longer /\ longer[Len(outcomes) + 1] = o
  OBVIOUS
<1>4. \A i \in DOMAIN longer :
          (i \in DOMAIN outcomes /\ longer[i] = outcomes[i]) \/ (i = Len(outcomes) + 1 /\ longer[i] = o)
  OBVIOUS
<1> HIDE DEF longer
<1>5. PathsOf(longer) = PathsOf(outcomes) \cup {o.path}
  <2>1. PathsOf(longer) \subseteq PathsOf(outcomes) \cup {o.path}
    BY <1>4 DEF PathsOf
  <2>2. PathsOf(outcomes) \cup {o.path} \subseteq PathsOf(longer)
    BY <1>2, <1>3 DEF PathsOf
  <2> QED
    BY <2>1, <2>2
<1>6. ASSUME NoRepeats(outcomes), o.path \notin PathsOf(outcomes)
      PROVE  NoRepeats(longer)
  <2>1. \A i \in DOMAIN outcomes : outcomes[i].path # o.path
    BY <1>6 DEF PathsOf
  <2> QED
    BY <1>4, <1>6, <2>1 DEF NoRepeats
<1> QED
  BY <1>1, <1>5, <1>6 DEF longer

LEMMA WithLists ==
    ASSUME NEW outcomes \in Seq(Result), NEW answer, NEW weights
    PROVE  /\ With(outcomes, answer, weights) # {} =>
                  Min(With(outcomes, answer, weights)) \in With(outcomes, answer, weights)
           /\ \A i \in With(outcomes, answer, weights) :
                  i \in DOMAIN outcomes /\ outcomes[i].answer = answer
<1>1. DOMAIN outcomes = 1..Len(outcomes) /\ Len(outcomes) \in Nat
  OBVIOUS
<1>2. IsFiniteSet(DOMAIN outcomes)
  BY <1>1, FS_Interval
<1>3. With(outcomes, answer, weights) \in SUBSET DOMAIN outcomes
  BY DEF With
<1>4. With(outcomes, answer, weights) \in SUBSET Int /\ IsFiniteSet(With(outcomes, answer, weights))
  BY <1>1, <1>2, <1>3, FS_Subset
<1>5. \A i \in With(outcomes, answer, weights) : outcomes[i].answer = answer
  BY DEF With
<1> QED
  BY <1>3, <1>4, <1>5, LeastExists

\* A run succeeds exactly when one of its attempts did; it has failed when none did and
\* an attempt that is not device-specific failed; its last attempt decides otherwise:
\* _aggregate_probe_outcomes.
THEOREM DecisiveIsFair ==
    ASSUME NEW outcomes \in Seq(Result), outcomes # <<>>
    PROVE  LET decisive == Decisive(outcomes)
           IN  /\ \E i \in DOMAIN outcomes : decisive = outcomes[i]
               /\ decisive.answer = "yes" <=> \E i \in DOMAIN outcomes : outcomes[i].answer = "yes"
               /\ decisive.answer # "yes" =>
                      IF \E i \in DOMAIN outcomes :
                             outcomes[i].answer = "no" /\ outcomes[i].weight \in GENERIC
                      THEN decisive.answer = "no"
                      ELSE decisive = outcomes[Len(outcomes)]
<1> DEFINE specific == With(outcomes, "yes", {"specific"})
           generic == With(outcomes, "yes", GENERIC)
           failed == With(outcomes, "no", GENERIC)
<1>1. Len(outcomes) \in DOMAIN outcomes
  OBVIOUS
<1>2. \A i \in DOMAIN outcomes : outcomes[i] \in Result
  OBVIOUS
<1>3. \A i \in DOMAIN outcomes :
          /\ outcomes[i].answer = "yes" <=> i \in specific \cup generic
          /\ outcomes[i].answer = "no" /\ outcomes[i].weight \in GENERIC <=> i \in failed
  BY <1>2 DEF With, GENERIC, Result
<1>4. Decisive(outcomes) =
          outcomes[IF specific # {} THEN Min(specific)
                   ELSE IF generic # {} THEN Min(generic)
                   ELSE IF failed # {} THEN Min(failed)
                   ELSE Len(outcomes)]
  BY DEF Decisive
<1>5. /\ specific # {} => Min(specific) \in specific
      /\ generic # {} => Min(generic) \in generic
      /\ failed # {} => Min(failed) \in failed
      /\ specific \subseteq DOMAIN outcomes /\ generic \subseteq DOMAIN outcomes
      /\ failed \subseteq DOMAIN outcomes
  BY WithLists
<1> HIDE DEF specific, generic, failed
<1>6. CASE specific # {} \/ generic # {}
  <2>1. \/ Decisive(outcomes) = outcomes[Min(specific)] /\ Min(specific) \in specific
        \/ Decisive(outcomes) = outcomes[Min(generic)] /\ Min(generic) \in generic
    BY <1>4, <1>5, <1>6
  <2>2. \E i \in DOMAIN outcomes :
            Decisive(outcomes) = outcomes[i] /\ outcomes[i].answer = "yes"
    BY <1>3, <1>5, <2>1
  <2> QED
    BY <2>2
<1>7. CASE specific = {} /\ generic = {} /\ failed # {}
  <2>1. Decisive(outcomes) = outcomes[Min(failed)] /\ Min(failed) \in failed
    BY <1>4, <1>5, <1>7
  <2>2. Min(failed) \in DOMAIN outcomes /\ outcomes[Min(failed)].answer = "no"
        /\ outcomes[Min(failed)].weight \in GENERIC
    BY <1>3, <1>5, <2>1
  <2> QED
    BY <1>3, <1>7, <2>1, <2>2
<1>8. CASE specific = {} /\ generic = {} /\ failed = {}
  BY <1>1, <1>3, <1>4, <1>8
<1> QED
  BY <1>6, <1>7, <1>8

-----------------------------------------------------------------------------
(* The record.                                                             *)

\* A run tries no path twice, and none that is known as unsupported.
RunApart ==
    /\ NoRepeats(run.outcomes)
    /\ PathsOf(run.todo) \cap PathsOf(run.outcomes) = {}
    /\ (PathsOf(run.todo) \cup PathsOf(run.outcomes)) \cap node.unsupported = {}

\* A success has its path, and is no limit.
RecordBacked ==
    /\ node.ok = "yes" => node.path \in Paths \ node.unsupported
    /\ node.limited => node.ok # "yes"

\* As long as neither the keys nor the mode have changed, there is still a reason to
\* try what the run tries.
RunReasoned ==
    ~replanned => PathsOf(run.todo) \cup PathsOf(run.outcomes)
                      \subseteq PathsOf(ordered_candidates(mode, node))

\* The inductive invariant.
SignalsInv == TypeOK /\ RunApart /\ RecordBacked /\ RunReasoned /\ ExhaustedIsLimited

LEMMA BoundsAreNumbers ==
    /\ Kinds = {"down", "up", "generic", "specific"} /\ Critical \in Nat
    /\ MaxEvents["down"] \in Nat /\ MaxEvents["up"] \in Nat
    /\ MaxEvents["generic"] \in Nat /\ MaxEvents["specific"] \in Nat
BY SignalsAssumption DEF Kinds

LEMMA IdleIsApart ==
    ASSUME run = Idle
    PROVE  /\ run \in [todo : Seq(Candidate), outcomes : Seq(Result)]
           /\ NoRepeats(run.todo) /\ RunApart /\ RunReasoned
<1>1. run.todo = <<>> /\ run.outcomes = <<>>
  BY DEF Idle
<1>2. PathsOf(<<>>) = {} /\ NoRepeats(<<>>)
  BY DEF PathsOf, NoRepeats
<1>3. run \in [todo : Seq(Candidate), outcomes : Seq(Result)]
  BY DEF Idle
<1> QED
  BY <1>1, <1>2, <1>3 DEF RunApart, RunReasoned

LEMMA NodeIsPlannable ==
    ASSUME TypeOK
    PROVE  Plannable(node)
BY DEF TypeOK, NodeRecord, Plannable

\* A path there is a reason to try, and that is not known as unsupported, is planned.
LEMMA ReasonedIsPlanned ==
    ASSUME NEW effective_mode, NEW n, Plannable(n),
           NEW path \in PathsOf(ordered_candidates(effective_mode, n)), path \notin n.unsupported
    PROVE  path \in PathsOf(plan(effective_mode, n)) /\ plan(effective_mode, n) # <<>>
<1>1. path \in PathsOf(plan(effective_mode, n))
  BY PlanIsComplete
<1>2. PathsOf(<<>>) = {}
  BY DEF PathsOf
<1> QED
  BY <1>1, <1>2

\* A record as it is before the first report and the first probe run.
LEMMA FreshIsSound ==
    ASSUME NEW keys \in SUBSET Paths, IsFiniteSet(keys), mode \in Modes,
           node = [Fresh EXCEPT !.keys = keys], log = [k \in Kinds |-> 0],
           run = Idle, outage = 0, replanned \in BOOLEAN
    PROVE  SignalsInv
<1>1. /\ node \in NodeRecord /\ node.keys = keys /\ node.unsupported = {}
      /\ node.ok = "none" /\ ~node.limited
  <2>1. 0 \in 0..MaxEvents["down"] /\ 0 \in 0..Critical
        /\ 0 \in 0..(MaxEvents["generic"] + MaxEvents["specific"])
    BY BoundsAreNumbers
  <2>2. node \in NodeRecord
    BY <2>1 DEF Fresh, NodeRecord
  <2> QED
    BY <2>2 DEF Fresh
<1>2. /\ log \in [Kinds -> Nat] /\ \A k \in Kinds : log[k] <= MaxEvents[k]
      /\ outage \in 0..Critical
  BY BoundsAreNumbers
<1>3. RecordBacked /\ ExhaustedIsLimited
  BY <1>1 DEF RecordBacked, ExhaustedIsLimited
<1> QED
  BY <1>1, <1>2, <1>3, IdleIsApart DEF SignalsInv, TypeOK

LEMMA BeginKeeps ==
    ASSUME SignalsInv, BeginRun
    PROVE  SignalsInv'
<1> DEFINE planned == plan(mode, node)
<1>1. /\ run'.todo = planned /\ run'.outcomes = <<>> /\ run' # Idle
      /\ run' = [todo |-> planned, outcomes |-> <<>>]
      /\ mode' = mode /\ node' = node /\ log' = log /\ outage' = outage /\ replanned' = FALSE
  BY DEF BeginRun, Idle
<1>2. /\ planned \in Seq(Candidate) /\ NoRepeats(planned)
      /\ PathsOf(planned) = PathsOf(ordered_candidates(mode, node)) \ node.unsupported
  BY NodeIsPlannable, PlanIsComplete DEF SignalsInv
<1>3. PathsOf(<<>>) = {} /\ NoRepeats(<<>>) /\ <<>> \in Seq(Result)
  BY DEF PathsOf, NoRepeats
<1> HIDE DEF planned
<1>4. TypeOK'
  BY <1>1, <1>2, <1>3 DEF SignalsInv, TypeOK
<1>5. RunApart'
  BY <1>1, <1>2, <1>3 DEF RunApart
<1>6. RunReasoned'
  BY <1>1, <1>2, <1>3 DEF RunReasoned
<1>7. RecordBacked' /\ ExhaustedIsLimited'
  BY <1>1 DEF SignalsInv, RecordBacked, ExhaustedIsLimited
<1> QED
  BY <1>4, <1>5, <1>6, <1>7 DEF SignalsInv

LEMMA AttemptKeeps ==
    ASSUME SignalsInv, NEW answer \in {"yes", "no", "unsupported"}, AttemptReadProbe(answer)
    PROVE  SignalsInv'
<1> DEFINE candidate == Head(run.todo)
           kind == IF candidate.weight \in GENERIC THEN "generic" ELSE "specific"
           count == CountedFailures(answer, candidate)
           outcome == Outcome(candidate, answer)
           rest == IF LastAttempt(answer, candidate) THEN <<>> ELSE Tail(run.todo)
<1>1. /\ run.todo # <<>> /\ mode' = mode /\ outage' = outage /\ replanned' = replanned
      /\ answer = "no" => log[kind] < MaxEvents[kind]
      /\ node' = [node EXCEPT !.diagnostics = TRUE, !.failures = count]
      /\ log' = [log EXCEPT ![kind] = @ + IF answer = "no" THEN 1 ELSE 0]
      /\ run' = [todo |-> rest, outcomes |-> Append(run.outcomes, outcome)]
  BY DEF AttemptReadProbe
<1>2. /\ mode \in Modes /\ replanned \in BOOLEAN /\ node \in NodeRecord
      /\ IsFiniteSet(node.keys) /\ log \in [Kinds -> Nat]
      /\ \A k \in Kinds : log[k] <= MaxEvents[k]
      /\ outage \in 0..Critical
      /\ run.todo \in Seq(Candidate) /\ run.outcomes \in Seq(Result)
      /\ NoRepeats(run.todo)
  BY DEF SignalsInv, TypeOK
<1>3. /\ candidate \in Candidate /\ Tail(run.todo) \in Seq(Candidate)
      /\ PathsOf(run.todo) = {candidate.path} \cup PathsOf(Tail(run.todo))
      /\ NoRepeats(Tail(run.todo)) /\ candidate.path \notin PathsOf(Tail(run.todo))
  BY <1>1, <1>2, NextAttempt
<1>4. outcome \in Result /\ outcome.path = candidate.path
  BY <1>3 DEF Outcome, Candidate, Result
<1>5. kind \in {"generic", "specific"} /\ (candidate.weight \in GENERIC => kind = "generic")
  OBVIOUS
<1>6. count \in 0..(MaxEvents["generic"] + MaxEvents["specific"])
  <2>1. /\ log["generic"] \in Nat /\ log["generic"] <= MaxEvents["generic"]
        /\ log["specific"] \in Nat /\ log["specific"] <= MaxEvents["specific"]
    BY <1>2, BoundsAreNumbers
  <2>2. count = log["generic"] + log["specific"]
                    + IF answer = "no" /\ candidate.weight \in GENERIC THEN 1 ELSE 0
    BY DEF CountedFailures
  <2>3. CASE answer = "no" /\ candidate.weight \in GENERIC
    <3>1. log["generic"] < MaxEvents["generic"]
      BY <1>1, <1>5, <2>3
    <3>2. count = log["generic"] + log["specific"] + 1
      BY <2>2, <2>3
    <3> QED
      BY <2>1, <3>1, <3>2, BoundsAreNumbers
  <2>4. CASE ~(answer = "no" /\ candidate.weight \in GENERIC)
    BY <2>1, <2>2, <2>4, BoundsAreNumbers
  <2> QED
    BY <2>3, <2>4
<1>7. log' \in [Kinds -> Nat] /\ \A k \in Kinds : log'[k] <= MaxEvents[k]
  <2> HIDE DEF kind
  <2>1. kind \in Kinds /\ log[kind] \in Nat /\ MaxEvents[kind] \in Nat
    BY <1>2, <1>5, BoundsAreNumbers
  <2>2. log[kind] + (IF answer = "no" THEN 1 ELSE 0) \in Nat
        /\ log[kind] + (IF answer = "no" THEN 1 ELSE 0) <= MaxEvents[kind]
    BY <1>1, <1>2, <2>1
  <2> QED
    BY <1>1, <1>2, <2>1, <2>2
<1>8. /\ rest \in Seq(Candidate) /\ NoRepeats(rest)
      /\ PathsOf(rest) \subseteq PathsOf(Tail(run.todo))
  <2>1. PathsOf(<<>>) = {} /\ NoRepeats(<<>>) /\ <<>> \in Seq(Candidate)
    BY DEF PathsOf, NoRepeats
  <2> QED
    BY <1>3, <2>1
<1> HIDE DEF candidate, kind, count, outcome, rest
<1>9. /\ node' \in NodeRecord /\ node'.keys = node.keys /\ node'.path = node.path
      /\ node'.unsupported = node.unsupported /\ node'.ok = node.ok
      /\ node'.limited = node.limited
  BY <1>1, <1>2, <1>6 DEF NodeRecord
<1>10. candidate.path \notin PathsOf(run.outcomes)
  BY <1>3 DEF SignalsInv, RunApart
<1>11. /\ run'.todo = rest /\ run'.outcomes \in Seq(Result) /\ run'.outcomes # <<>>
       /\ PathsOf(run'.outcomes) = PathsOf(run.outcomes) \cup {candidate.path}
       /\ NoRepeats(run'.outcomes)
       /\ run' \in [todo : Seq(Candidate), outcomes : Seq(Result)]
  <2>1. run'.todo = rest /\ run'.outcomes = Append(run.outcomes, outcome)
    BY <1>1
  <2>2. NoRepeats(run.outcomes)
    BY DEF SignalsInv, RunApart
  <2>3. /\ run'.outcomes \in Seq(Result) /\ run'.outcomes # <<>>
        /\ PathsOf(run'.outcomes) = PathsOf(run.outcomes) \cup {candidate.path}
        /\ NoRepeats(run'.outcomes)
    BY <1>2, <1>4, <1>10, <2>1, <2>2, NextOutcome
  <2>4. run' \in [todo : Seq(Candidate), outcomes : Seq(Result)]
    BY <1>1, <1>8, <2>1, <2>3
  <2> QED
    BY <2>1, <2>3, <2>4
<1>12. TypeOK'
  BY <1>1, <1>2, <1>7, <1>8, <1>9, <1>11 DEF TypeOK
<1>13. RunApart'
  BY <1>3, <1>8, <1>9, <1>10, <1>11 DEF SignalsInv, RunApart
<1>14. RunReasoned'
  <2>1. ordered_candidates(mode', node') = ordered_candidates(mode, node)
    BY <1>1, <1>9, OrderedDepends
  <2> QED
    BY <1>1, <1>3, <1>8, <1>11, <2>1 DEF SignalsInv, RunReasoned
<1>15. RecordBacked' /\ ExhaustedIsLimited'
  BY <1>9, <1>11 DEF SignalsInv, RecordBacked, ExhaustedIsLimited, Idle
<1> QED
  BY <1>12, <1>13, <1>14, <1>15 DEF SignalsInv

LEMMA AggregateKeeps ==
    ASSUME SignalsInv, AggregateOutcomes
    PROVE  SignalsInv'
<1> DEFINE outcomes == run.outcomes
           decisive == Decisive(outcomes)
           unsupported == {o.path : o \in {p \in Range(outcomes) : p.answer = "unsupported"}}
<1>1. /\ outcomes \in Seq(Result) /\ outcomes # <<>> /\ node \in NodeRecord
      /\ IsFiniteSet(node.keys)
  BY DEF SignalsInv, TypeOK, AggregateOutcomes
<1>2. PICK pinged \in IF PingEnabled THEN {"yes", "no"} ELSE {node.ping} :
          node' = [node EXCEPT
                       !.ok = IF decisive.answer = "unsupported" THEN "none"
                              ELSE decisive.answer,
                       !.limited = decisive.answer = "unsupported",
                       !.path = IF decisive.answer = "yes" THEN decisive.path ELSE @,
                       !.unsupported = @ \cup unsupported,
                       !.ping = pinged]
  BY Zenon DEF AggregateOutcomes
<1>3. /\ run' = Idle /\ mode' = mode /\ log' = log /\ outage' = outage
      /\ replanned' = replanned
  BY DEF AggregateOutcomes
<1>4. PICK d \in DOMAIN outcomes : decisive = outcomes[d]
  BY <1>1, DecisiveIsFair
<1>5. decisive \in Result
  BY <1>1, <1>4
<1>6. \A i \in DOMAIN outcomes : outcomes[i] \in Result
  BY <1>1
<1>7. unsupported \subseteq Paths
  BY <1>6 DEF Range, Result
<1>8. decisive.answer # "unsupported" => decisive.path \notin node.unsupported \cup unsupported
  <2> SUFFICES ASSUME decisive.answer # "unsupported"
               PROVE  decisive.path \notin node.unsupported \cup unsupported
    OBVIOUS
  <2>1. decisive.path \notin node.unsupported
    BY <1>4 DEF SignalsInv, RunApart, PathsOf
  <2>2. \A i \in DOMAIN outcomes : outcomes[i].path = decisive.path => i = d
    BY <1>4 DEF SignalsInv, RunApart, NoRepeats
  <2>3. \A o \in Range(outcomes) : o.answer = "unsupported" => o.path # decisive.path
    BY <1>4, <2>2 DEF Range
  <2> QED
    BY <2>1, <2>3
<1>9. decisive.path \in PathsOf(outcomes)
  BY <1>4 DEF PathsOf
<1> HIDE DEF outcomes, decisive, unsupported
<1>10. pinged \in {"yes", "no", "none"}
  BY <1>1, <1>2 DEF NodeRecord
<1>11. decisive.answer \in {"yes", "no", "unsupported"} /\ decisive.path \in Paths
  BY <1>5 DEF Result
<1>12. /\ node' \in NodeRecord /\ node'.keys = node.keys
       /\ node'.unsupported = node.unsupported \cup unsupported
       /\ node'.ok = IF decisive.answer = "unsupported" THEN "none" ELSE decisive.answer
       /\ node'.limited = (decisive.answer = "unsupported")
       /\ node'.path = IF decisive.answer = "yes" THEN decisive.path ELSE node.path
  <2> DEFINE ok == IF decisive.answer = "unsupported" THEN "none" ELSE decisive.answer
             limited == decisive.answer = "unsupported"
             path == IF decisive.answer = "yes" THEN decisive.path ELSE node.path
             known == node.unsupported \cup unsupported
  <2>1. /\ ok \in {"yes", "no", "none"} /\ limited \in BOOLEAN
        /\ path \in Paths \cup {NoPath} /\ known \in SUBSET Paths
    BY <1>1, <1>7, <1>11 DEF NodeRecord
  <2>2. node' = [node EXCEPT !.ok = ok, !.limited = limited, !.path = path,
                             !.unsupported = known, !.ping = pinged]
    BY <1>2, Zenon
  <2> HIDE DEF ok, limited, path, known
  <2>3. /\ node' \in NodeRecord /\ node'.keys = node.keys /\ node'.unsupported = known
        /\ node'.ok = ok /\ node'.limited = limited /\ node'.path = path
    BY <1>1, <1>10, <2>1, <2>2 DEF NodeRecord
  <2> QED
    BY <2>3 DEF ok, limited, path, known
<1>13. RecordBacked'
  BY <1>8, <1>11, <1>12 DEF RecordBacked
<1>14. TypeOK' /\ RunApart' /\ RunReasoned'
  <2>1. /\ run' \in [todo : Seq(Candidate), outcomes : Seq(Result)]
        /\ NoRepeats(run'.todo)
    BY <1>3, IdleIsApart DEF Idle, NoRepeats
  <2>2. TypeOK'
    BY <1>1, <1>3, <1>12, <2>1 DEF SignalsInv, TypeOK
  <2> QED
    BY <1>3, <2>2 DEF RunApart, RunReasoned, Idle, PathsOf, NoRepeats
<1>15. ExhaustedIsLimited'
  <2> SUFFICES ASSUME ~replanned, decisive.answer # "unsupported"
               PROVE  plan(mode, node') # <<>>
    BY <1>3, <1>12 DEF ExhaustedIsLimited
  <2>1. Plannable(node')
    BY <1>1, <1>12 DEF NodeRecord, Plannable
  <2>2. decisive.path \in PathsOf(ordered_candidates(mode, node'))
    <3>1. CASE decisive.answer = "yes"
      <4>1. node'.path = decisive.path /\ decisive.path # NoPath
        BY <1>11, <1>12, <3>1, NoPathIsNone
      <4> QED
        BY <2>1, <4>1, CachedIsOrdered
    <3>2. CASE decisive.answer = "no"
      <4>1. ordered_candidates(mode, node') = ordered_candidates(mode, node)
        BY <1>12, <3>2, OrderedDepends
      <4>2. decisive.path \in PathsOf(ordered_candidates(mode, node))
        BY <1>9 DEF SignalsInv, RunReasoned, outcomes
      <4> QED
        BY <4>1, <4>2
    <3> QED
      BY <1>11, <3>1, <3>2
  <2> QED
    BY <1>8, <1>12, <2>1, <2>2, ReasonedIsPlanned
<1> QED
  BY <1>13, <1>14, <1>15 DEF SignalsInv

LEMMA ReportKeeps ==
    ASSUME SignalsInv, NEW told \in {"yes", "no", "missing"}, NEW keys \in KeySets,
           ProcessReport(told, keys)
    PROVE  SignalsInv'
<1> DEFINE available == told = "yes" \/ (told = "missing" /\ node.available)
           changed == available # node.available
           kind == IF available THEN "up" ELSE "down"
           age == IF told = "no" THEN 0 ELSE node.down
<1>1. /\ changed => log[kind] < MaxEvents[kind]
      /\ log' = IF changed THEN [log EXCEPT ![kind] = @ + 1] ELSE log
      /\ node' = [node EXCEPT !.available = available, !.down = age,
                              !.flaps = log'["down"], !.keys = keys]
      /\ outage' = IF available \/ changed THEN 0 ELSE outage
      /\ replanned' = (replanned \/ keys # node.keys)
      /\ mode' = mode /\ run' = run
  BY DEF ProcessReport
<1>2. /\ mode \in Modes /\ replanned \in BOOLEAN /\ node \in NodeRecord
      /\ log \in [Kinds -> Nat] /\ \A k \in Kinds : log[k] <= MaxEvents[k]
      /\ outage \in 0..Critical
      /\ run \in [todo : Seq(Candidate), outcomes : Seq(Result)] /\ NoRepeats(run.todo)
  BY DEF SignalsInv, TypeOK
<1>3. IsFiniteSet(keys) /\ keys \in SUBSET Paths
  BY SignalsAssumption
<1>4. kind \in {"up", "down"} /\ available \in BOOLEAN /\ age \in 0..Critical
  BY <1>2, BoundsAreNumbers DEF NodeRecord
<1> HIDE DEF available, changed, kind, age
<1>5. log' \in [Kinds -> Nat] /\ \A k \in Kinds : log'[k] <= MaxEvents[k]
  <2>1. CASE changed
    <3>1. kind \in Kinds /\ log[kind] \in Nat /\ MaxEvents[kind] \in Nat
      BY <1>2, <1>4, BoundsAreNumbers
    <3>2. log[kind] + 1 \in Nat /\ log[kind] + 1 <= MaxEvents[kind]
      BY <1>1, <2>1, <3>1
    <3> QED
      BY <1>1, <1>2, <2>1, <3>1, <3>2
  <2>2. CASE ~changed
    BY <1>1, <1>2, <2>2
  <2> QED
    BY <2>1, <2>2
<1>6. log'["down"] \in 0..MaxEvents["down"]
  BY <1>5, BoundsAreNumbers
<1>7. /\ node' \in NodeRecord /\ node'.keys = keys /\ node'.path = node.path
      /\ node'.unsupported = node.unsupported /\ node'.ok = node.ok
      /\ node'.limited = node.limited
  <2> DEFINE flaps == log'["down"]
  <2>1. node' = [node EXCEPT !.available = available, !.down = age,
                             !.flaps = flaps, !.keys = keys]
    BY <1>1
  <2>2. flaps \in 0..MaxEvents["down"]
    BY <1>6
  <2> HIDE DEF flaps
  <2> QED
    BY <1>2, <1>3, <1>4, <2>1, <2>2 DEF NodeRecord
<1>8. outage' \in 0..Critical
  BY <1>1, <1>2, BoundsAreNumbers
<1>9. TypeOK' /\ RunApart' /\ RecordBacked'
  BY <1>1, <1>2, <1>3, <1>5, <1>7, <1>8 DEF SignalsInv, TypeOK, RunApart, RecordBacked
<1>10. ASSUME ~replanned'
       PROVE  /\ ~replanned
              /\ ordered_candidates(mode', node') = ordered_candidates(mode, node)
              /\ plan(mode', node') = plan(mode, node)
  <2>1. ~replanned /\ keys = node.keys
    BY <1>1, <1>10
  <2>2. /\ node'.keys = node.keys /\ node'.path = node.path
        /\ node'.unsupported = node.unsupported /\ mode' = mode
    BY <1>1, <1>7, <2>1
  <2> QED
    BY <2>1, <2>2, OrderedDepends
<1>11. RunReasoned' /\ ExhaustedIsLimited'
  BY <1>1, <1>7, <1>10 DEF SignalsInv, RunReasoned, ExhaustedIsLimited
<1> QED
  BY <1>9, <1>11 DEF SignalsInv

\* A step that changes nothing the plan or the run depends on.
LEMMA AsideKeeps ==
    ASSUME SignalsInv, TypeOK', mode' = mode, run' = run, replanned' = replanned,
           node'.keys = node.keys, node'.path = node.path,
           node'.unsupported = node.unsupported, node'.ok = node.ok,
           node'.limited = node.limited
    PROVE  SignalsInv'
<1>1. /\ ordered_candidates(mode', node') = ordered_candidates(mode, node)
      /\ plan(mode', node') = plan(mode, node)
  BY OrderedDepends
<1> QED
  BY <1>1 DEF SignalsInv, RunApart, RecordBacked, RunReasoned, ExhaustedIsLimited

LEMMA AgeKeeps ==
    ASSUME SignalsInv, MinutesPass \/ \E k \in Kinds : EventAges(k)
    PROVE  SignalsInv'
<1>1. /\ node \in NodeRecord /\ outage \in 0..Critical
      /\ log \in [Kinds -> Nat] /\ \A k \in Kinds : log[k] <= MaxEvents[k]
  BY DEF SignalsInv, TypeOK
<1>2. CASE MinutesPass
  <2>1. \A age \in 0..Critical : Older(age) \in 0..Critical
    BY BoundsAreNumbers DEF Older
  <2> DEFINE age == Older(node.down)
  <2>2. node' = [node EXCEPT !.down = age] /\ outage' = Older(outage)
        /\ mode' = mode /\ log' = log /\ run' = run /\ replanned' = replanned
    BY <1>2 DEF MinutesPass
  <2>3. age \in 0..Critical /\ outage' \in 0..Critical
    BY <1>1, <2>1, <2>2 DEF NodeRecord
  <2> HIDE DEF age
  <2>4. /\ node' \in NodeRecord /\ node'.keys = node.keys /\ node'.path = node.path
        /\ node'.unsupported = node.unsupported /\ node'.ok = node.ok
        /\ node'.limited = node.limited
    BY <1>1, <2>2, <2>3 DEF NodeRecord
  <2>5. TypeOK'
    BY <2>2, <2>3, <2>4 DEF SignalsInv, TypeOK
  <2> QED
    BY <2>2, <2>4, <2>5, AsideKeeps
<1>3. ASSUME NEW k \in Kinds, EventAges(k)
      PROVE  SignalsInv'
  <2>1. /\ log[k] > 0 /\ log' = [log EXCEPT ![k] = @ - 1]
        /\ mode' = mode /\ node' = node /\ run' = run /\ outage' = outage
        /\ replanned' = replanned
    BY <1>3 DEF EventAges
  <2>2. log[k] \in Nat /\ MaxEvents[k] \in Nat
    BY <1>1, BoundsAreNumbers
  <2>3. log' \in [Kinds -> Nat] /\ \A j \in Kinds : log'[j] <= MaxEvents[j]
    BY <1>1, <2>1, <2>2
  <2>4. TypeOK'
    BY <2>1, <2>3 DEF SignalsInv, TypeOK
  <2> QED
    BY <2>1, <2>4, AsideKeeps
<1> QED
  BY <1>2, <1>3

LEMMA RestartKeeps ==
    ASSUME SignalsInv, Restart
    PROVE  SignalsInv'
<1>1. /\ run' = Idle /\ mode' \in Modes /\ replanned' = (replanned \/ mode' # mode)
      /\ node' = node /\ log' = log /\ outage' = outage
  BY DEF Restart
<1>2. /\ run' \in [todo : Seq(Candidate), outcomes : Seq(Result)]
      /\ NoRepeats(run'.todo) /\ RunApart' /\ RunReasoned'
  BY <1>1 DEF RunApart, RunReasoned, Idle, PathsOf, NoRepeats
<1>3. TypeOK' /\ RecordBacked'
  BY <1>1, <1>2 DEF SignalsInv, TypeOK, RecordBacked
<1>4. ASSUME ~replanned', run # Idle
      PROVE  plan(mode, node) # <<>>
  <2>1. run.todo # <<>> \/ run.outcomes # <<>>
    BY <1>4 DEF SignalsInv, TypeOK, Idle
  <2>2. PICK path \in PathsOf(run.todo) \cup PathsOf(run.outcomes) : TRUE
    <3>1. /\ run.todo # <<>> => 1 \in DOMAIN run.todo
          /\ run.outcomes # <<>> => 1 \in DOMAIN run.outcomes
      BY DEF SignalsInv, TypeOK
    <3> QED
      BY <2>1, <3>1 DEF PathsOf
  <2>3. path \in PathsOf(ordered_candidates(mode, node)) /\ path \notin node.unsupported
    BY <1>1, <1>4, <2>2 DEF SignalsInv, RunReasoned, RunApart
  <2> QED
    BY <2>3, NodeIsPlannable, ReasonedIsPlanned DEF SignalsInv
<1>5. ExhaustedIsLimited'
  BY <1>1, <1>4 DEF SignalsInv, TypeOK, ExhaustedIsLimited
<1> QED
  BY <1>2, <1>3, <1>5 DEF SignalsInv

\* Every step of the record's life keeps the invariant.
LEMMA SignalsKeep == SignalsInv /\ SignalsNext => SignalsInv'
<1> SUFFICES ASSUME SignalsInv, SignalsNext
             PROVE  SignalsInv'
  OBVIOUS
<1> QED
  BY BeginKeeps, AttemptKeeps, AggregateKeeps, ReportKeeps, AgeKeeps, RestartKeeps
  DEF SignalsNext

LEMMA SuccessIsBacked == SignalsInv => OkIsBacked
<1> SUFFICES ASSUME SignalsInv, node.ok = "yes"
             PROVE  /\ node.path \notin node.unsupported
                    /\ node.path \in PathsOf(plan(mode, node))
  BY DEF OkIsBacked
<1>1. node.path \in Paths \ node.unsupported
  BY DEF SignalsInv, RecordBacked
<1>2. node.path # NoPath
  BY <1>1, NoPathIsNone
<1> QED
  BY <1>1, <1>2, NodeIsPlannable, CachedIsOrdered, ReasonedIsPlanned DEF SignalsInv
=============================================================================
