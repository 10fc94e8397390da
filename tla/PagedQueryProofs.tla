-------------------------- MODULE PagedQueryProofs --------------------------
(***************************************************************************)
(* Proofs about PagedQuery, for every set of rows, every table, every      *)
(* query and any number of writes during a walk.                           *)
(*                                                                         *)
(* Where the creation time is among the sort keys, a row has a rank: the   *)
(* number of rows that come before it.  A page is the rows with the ranks  *)
(* from page * size to (page + 1) * size, and a write moves the rank of    *)
(* any other row by one at the most (RankMoves).  PageInv follows from     *)
(* that: the rows the client has passed by lie before the next page and    *)
(* are no more than were removed, and those it will get again lie behind   *)
(* its beginning and are no more than were inserted.                       *)
(***************************************************************************)
EXTENDS PagedQuery, FiniteSetTheorems, TLAPS

\* A set of natural numbers has a least one.
LEMMA LeastNatural ==
  ASSUME NEW T \in SUBSET Nat, T # {}
  PROVE  \E x \in T : \A y \in T : x <= y
<1> DEFINE R == {ss \in Nat \X Nat : ss[1] < ss[2]}
<1>1. PICK x \in T : \A y \in T : ~(<<y, x>> \in R)
  <2>1. IsWellFoundedOn(R, Nat)
    BY NatLessThanWellFounded, Zenon DEF OpToRel
  <2> HIDE DEF R
  <2>2. T \subseteq Nat
    BY Zenon
  <2> QED BY <2>1, <2>2, WFMin, Zenon
<1>2. ASSUME NEW y \in T PROVE x <= y
  <2>1. ~(y < x)
    BY <1>1, <1>2, Zenon
  <2> QED BY <1>2, <2>1
<1> QED BY <1>2, Zenon

\* A finite set of natural numbers has a greatest one: that with the fewest above it.
LEMMA GreatestNatural ==
  ASSUME NEW S \in SUBSET Nat, IsFiniteSet(S), S # {}
  PROVE  Max(S) \in S /\ \A y \in S : y <= Max(S)
<1> DEFINE Above(x) == {y \in S : x < y}
           Sizes == {Cardinality(Above(x)) : x \in S}
<1>1. \A x \in S : Above(x) \in SUBSET S
  BY Zenon
<1>2. \A x \in S : IsFiniteSet(Above(x)) /\ Cardinality(Above(x)) \in Nat
  BY <1>1, FS_Subset, FS_CardinalityType, Zenon
<1>3. Sizes \in SUBSET Nat /\ Sizes # {}
  BY <1>2, Zenon
<1>4. PICK x \in S : \A z \in S : Cardinality(Above(x)) <= Cardinality(Above(z))
  <2>1. PICK c \in Sizes : \A d \in Sizes : c <= d
    <3> HIDE DEF Sizes
    <3> QED BY <1>3, LeastNatural, Zenon
  <2> QED BY <2>1, Zenon
<1>5. ASSUME NEW y \in S, x < y PROVE FALSE
  <2>1. Above(y) \in SUBSET Above(x) /\ y \in Above(x) /\ y \notin Above(y)
    <3>1. \A z \in S : y < z => x < z
      BY <1>5
    <3>2. ~(y < y)
      BY <1>5
    <3> QED BY <1>5, <3>1, <3>2, Zenon
  <2>2. /\ Cardinality(Above(y)) <= Cardinality(Above(x))
        /\ Cardinality(Above(x)) # Cardinality(Above(y))
    BY <2>1, <1>2, FS_Subset, Zenon
  <2> HIDE DEF Above
  <2> QED BY <2>2, <1>2, <1>4
<1>6. \A y \in S : y <= x
  BY <1>5
<1> QED BY <1>6, Zenon DEF Max

-----------------------------------------------------------------------------
(* The order of a listing.                                                 *)

Row == [created : Nat, cell : Value \cup {Null}]
SortKey == [field : {"created", "cell"}, direction : {"asc", "desc"}]

\* The values of a row that an order compares are integers.
LEMMA KeysAreIntegers ==
  ASSUME NEW o \in Seq(SortKey), NEW a \in Row, NEW n \in DOMAIN o
  PROVE  a[o[n].field] \in Int
<1>1. o[n] \in SortKey
  OBVIOUS
<1>2. o[n].field \in {"created", "cell"}
  BY <1>1, Zenon DEF SortKey
<1>3. a["created"] \in Nat /\ a["cell"] \in Value \cup {Null}
  BY Zenon DEF Row
<1>4. \A v \in Value : v \in Int
  BY PageAssumption
<1>5. Null \in Int
  BY DEF Null
<1>6. a["created"] \in Int /\ a["cell"] \in Int
  BY <1>3, <1>4, <1>5
<1> QED BY <1>2, <1>6, Zenon

\* An order by the time of creation, whatever it compares before, orders two rows.
LEMMA PrecedesTotal ==
  ASSUME NEW o \in Seq(SortKey), NEW a \in Row, NEW b \in Row, a.created # b.created,
         \E n \in DOMAIN o : o[n].field = "created"
  PROVE  Precedes(o, a, b) \/ Precedes(o, b, a)
<1> DEFINE D == {n \in DOMAIN o : a[o[n].field] # b[o[n].field]}
<1>1. D \in SUBSET Nat /\ D # {}
  OBVIOUS
<1>2. PICK n \in D : \A m \in D : n <= m
  BY <1>1, LeastNatural, Zenon
<1>3. n \in DOMAIN o /\ DOMAIN o = 1..Len(o) /\ Len(o) \in Nat
  OBVIOUS
<1>4. \A m \in 1..(n - 1) : a[o[m].field] = b[o[m].field]
  BY <1>2, <1>3
<1>5. a[o[n].field] \in Int /\ b[o[n].field] \in Int /\ a[o[n].field] # b[o[n].field]
  BY <1>2, <1>3, KeysAreIntegers, Zenon
<1>6. a[o[n].field] < b[o[n].field] \/ a[o[n].field] > b[o[n].field]
  BY <1>5
<1>7. /\ a[o[n].field] < b[o[n].field] <=> b[o[n].field] > a[o[n].field]
      /\ b[o[n].field] < a[o[n].field] <=> a[o[n].field] > b[o[n].field]
  BY <1>5, Zenon
<1> QED BY <1>3, <1>4, <1>6, <1>7, Zenon DEF Precedes

\* And it is an order.
LEMMA PrecedesOrder ==
  ASSUME NEW o \in Seq(SortKey), NEW a \in Row, NEW b \in Row, NEW c \in Row,
         Precedes(o, a, b)
  PROVE  ~Precedes(o, b, a) /\ (Precedes(o, b, c) => Precedes(o, a, c))
<1> DEFINE key(r, n) == r[o[n].field]
           lower(r, s, n) == IF o[n].direction = "asc" THEN key(r, n) < key(s, n)
                                                       ELSE key(r, n) > key(s, n)
           first(r, s, n) == (\A m \in 1..(n - 1) : key(r, m) = key(s, m)) /\ lower(r, s, n)
<1>1. DOMAIN o = 1..Len(o) /\ Len(o) \in Nat
  OBVIOUS
<1>2. \A n \in DOMAIN o : key(a, n) \in Int /\ key(b, n) \in Int /\ key(c, n) \in Int
  BY KeysAreIntegers, Zenon
<1>3. \A r, s : Precedes(o, r, s) <=> \E n \in DOMAIN o : first(r, s, n)
  BY Zenon DEF Precedes
<1> HIDE DEF key
<1>4. PICK m \in DOMAIN o : first(a, b, m)
  BY <1>3, Zenon
<1>5. ASSUME NEW n \in DOMAIN o, first(b, a, n) PROVE FALSE
  BY <1>1, <1>2, <1>4, <1>5, SMTT(30)
<1>6. ASSUME NEW n \in DOMAIN o, first(b, c, n) PROVE \E k \in DOMAIN o : first(a, c, k)
  <2>1. CASE m <= n
    <3>1. first(a, c, m)
      BY <1>1, <1>2, <1>4, <1>6, <2>1, SMTT(30)
    <3> QED BY <3>1, Zenon
  <2>2. CASE n < m
    <3>1. first(a, c, n)
      BY <1>1, <1>2, <1>4, <1>6, <2>2
    <3> QED BY <3>1, Zenon
  <2> QED BY <2>1, <2>2, <1>1
<1> HIDE DEF first
<1> QED BY <1>3, <1>5, <1>6, Zenon

Verdicts == {"apply", "pass", "reject", "fault"}

\* A filter gets one of the four verdicts.
LEMMA VerdictTyped == \A kind, f : Verdict(kind, f) \in Verdicts
<1> SUFFICES ASSUME NEW kind, NEW f PROVE Verdict(kind, f) \in Verdicts
  BY Zenon
<1>1. UuidVerdict(f) \in Verdicts
  BY Zenon DEF UuidVerdict, Verdicts
<1>2. DateVerdict(f) \in Verdicts
  BY Zenon DEF DateVerdict, Verdicts
<1>3. IntVerdict(f) \in Verdicts
  BY Zenon DEF IntVerdict, Verdicts
<1>4. TextVerdict(f) \in Verdicts
  BY Zenon DEF TextVerdict, Verdicts
<1>5. "reject" \in Verdicts /\ "pass" \in Verdicts /\ "fault" \in Verdicts /\ "apply" \in Verdicts
  BY Zenon DEF Verdicts
<1> QED BY <1>1, <1>2, <1>3, <1>4, <1>5, Zenon DEF Verdict

\* A query that is not refused sorts by columns of the table.
LEMMA SortKeys ==
  ASSUME NEW q \in Queries, Refusal(q) = "none"
  PROVE  OrderBy(q) \in Seq(SortKey)
<1> DEFINE A == [n \in 1..Len(q.sorts) |-> SortVerdict(q.sorts[n])]
           B == [n \in 1..Len(q.filters) |-> Verdict(q.kind, q.filters[n])]
           V == A \o B
           bad == {n \in DOMAIN V : V[n] \in {"reject", "fault"}}
           Sort == [field : STRING, direction : {"asc", "desc"}]
<1>1. /\ q.sorts \in Seq(Sort) /\ Len(q.sorts) \in Nat
      /\ Len(q.filters) \in Nat /\ q.dated \in {"no", "asc", "desc"}
  BY QueryAssumption
<1>2. A \in Seq(Verdicts) /\ Len(A) = Len(q.sorts)
  BY <1>1 DEF SortVerdict, Verdicts
<1>3. B \in Seq(Verdicts)
  BY <1>1, VerdictTyped
<1>4. Refusal(q) = IF bad = {} THEN "none" ELSE V[Min(bad)]
  BY Zenon DEF Refusal
<1> HIDE DEF B
<1>5. V \in Seq(Verdicts) /\ \A n \in 1..Len(q.sorts) : n \in DOMAIN V /\ V[n] = A[n]
  <2> HIDE DEF A
  <2> QED BY <1>1, <1>2, <1>3
<1>6. bad = {}
  <2> SUFFICES ASSUME bad # {} PROVE FALSE
    BY Zenon
  <2> HIDE DEF V
  <2>1. bad \in SUBSET Nat
    BY <1>5
  <2>2. \E x \in bad : \A y \in bad : x <= y
    <3> HIDE DEF bad
    <3> QED BY <2>1, LeastNatural, Zenon
  <2>3. Min(bad) \in bad
    <3> HIDE DEF bad
    <3> QED BY <2>2, Zenon DEF Min
  <2>4. V[Min(bad)] \in {"reject", "fault"}
    BY <2>3, Zenon
  <2> QED BY <1>4, <2>4, Zenon
<1>7. ASSUME NEW n \in 1..Len(q.sorts) PROVE q.sorts[n] \in SortKey
  <2>1. n \in DOMAIN V /\ V[n] = SortVerdict(q.sorts[n])
    BY <1>5, Zenon
  <2>2. V[n] \notin {"reject", "fault"}
    BY <1>6, <2>1, Zenon
  <2>3. q.sorts[n].field \in {"created", "cell"}
    BY <2>1, <2>2, Zenon DEF SortVerdict
  <2>4. q.sorts[n] \in Sort
    <3> HIDE DEF Sort
    <3> QED BY <1>1, <1>7
  <2> QED BY <2>3, <2>4, Zenon DEF SortKey
<1>8. q.sorts \in Seq(SortKey)
  BY <1>1, <1>7
<1>9. q.dated # "no" => <<[field |-> "created", direction |-> q.dated]>> \in Seq(SortKey)
  BY <1>1 DEF SortKey
<1> QED BY <1>8, <1>9 DEF OrderBy

-----------------------------------------------------------------------------
(* The rank of a row in a listing: how many come before it.                *)

IsTable(t) ==
  /\ DOMAIN t \in SUBSET Id
  /\ t \in [DOMAIN t -> Row]
  /\ \A i, j \in DOMAIN t : i # j => t[i].created # t[j].created

\* A query whose listing is ordered.
Sound(q) ==
  /\ q \in Queries /\ Refusal(q) = "none"
  /\ \E n \in DOMAIN OrderBy(q) : OrderBy(q)[n].field = "created"

Comes(q, t, j, i) == Precedes(OrderBy(q), t[j], t[i])
Ahead(q, t, i) == {j \in Matching(q, t) : Comes(q, t, j, i)}
Rank(q, t, i) == Cardinality(Ahead(q, t, i))

\* The rows in W whose rank is below b, and the others.
Before(q, t, W, b) == {j \in W : Rank(q, t, j) < b}
Behind(q, t, W, b) == {j \in W : Rank(q, t, j) >= b}

\* The rows that match are finitely many, and so are those ahead of a row.
LEMMA RankTyped ==
  ASSUME NEW q, NEW t, IsTable(t)
  PROVE  /\ Matching(q, t) \in SUBSET DOMAIN t /\ IsFiniteSet(Matching(q, t))
         /\ Cardinality(Matching(q, t)) \in Nat /\ Cardinality(Matching(q, t)) <= Cardinality(Id)
         /\ \A i : /\ Ahead(q, t, i) \in SUBSET Matching(q, t) /\ IsFiniteSet(Ahead(q, t, i))
                   /\ Rank(q, t, i) \in Nat
<1>1. Matching(q, t) \in SUBSET DOMAIN t
  BY Zenon DEF Matching
<1>2. IsFiniteSet(Id) /\ Matching(q, t) \in SUBSET Id
  BY <1>1, PageAssumption, Zenon DEF IsTable
<1>3. IsFiniteSet(Matching(q, t)) /\ Cardinality(Matching(q, t)) <= Cardinality(Id)
  BY <1>2, FS_Subset, Zenon
<1>4. Cardinality(Matching(q, t)) \in Nat
  BY <1>3, FS_CardinalityType, Zenon
<1>5. ASSUME NEW i
      PROVE  /\ Ahead(q, t, i) \in SUBSET Matching(q, t) /\ IsFiniteSet(Ahead(q, t, i))
             /\ Rank(q, t, i) \in Nat
  <2>1. Ahead(q, t, i) \in SUBSET Matching(q, t)
    BY Zenon DEF Ahead
  <2>2. IsFiniteSet(Ahead(q, t, i))
    BY <1>3, <2>1, FS_Subset, Zenon
  <2> QED BY <2>1, <2>2, FS_CardinalityType, Zenon DEF Rank
<1> QED BY <1>1, <1>3, <1>4, <1>5, Zenon

\* The rows of a listing that is sound come in a total order.
LEMMA ComesOrder ==
  ASSUME NEW q, NEW t, IsTable(t), Sound(q), 
         NEW i \in DOMAIN t, NEW j \in DOMAIN t, NEW k \in DOMAIN t
  PROVE  /\ i # j => Comes(q, t, i, j) \/ Comes(q, t, j, i)
         /\ Comes(q, t, i, j) => ~Comes(q, t, j, i)
         /\ Comes(q, t, i, j) /\ Comes(q, t, j, k) => Comes(q, t, i, k)
<1>1. t[i] \in Row /\ t[j] \in Row /\ t[k] \in Row
  BY Zenon DEF IsTable
<1>2. OrderBy(q) \in Seq(SortKey)
  BY SortKeys, Zenon DEF Sound
<1>3. \E n \in DOMAIN OrderBy(q) : OrderBy(q)[n].field = "created"
  BY Zenon DEF Sound
<1>4. i # j => t[i].created # t[j].created
  BY Zenon DEF IsTable
<1>5. i # j => Comes(q, t, i, j) \/ Comes(q, t, j, i)
  BY <1>1, <1>2, <1>3, <1>4, PrecedesTotal, Zenon DEF Comes
<1>6. /\ Comes(q, t, i, j) => ~Comes(q, t, j, i)
      /\ Comes(q, t, i, j) /\ Comes(q, t, j, k) => Comes(q, t, i, k)
  BY <1>1, <1>2, PrecedesOrder, Zenon DEF Comes
<1> QED BY <1>5, <1>6, Zenon

\* Ranks rise with the order, so that no two rows have the same, and each is below the
\* number of the rows.
LEMMA RanksRise ==
  ASSUME NEW q, NEW t, IsTable(t), Sound(q), NEW i \in Matching(q, t), NEW j \in Matching(q, t)
  PROVE  /\ Comes(q, t, i, j) => Rank(q, t, i) < Rank(q, t, j)
         /\ i # j => Rank(q, t, i) # Rank(q, t, j)
         /\ Rank(q, t, i) < Cardinality(Matching(q, t))
<1>1. /\ Matching(q, t) \in SUBSET DOMAIN t /\ IsFiniteSet(Matching(q, t))
      /\ Cardinality(Matching(q, t)) \in Nat
      /\ \A x : /\ Ahead(q, t, x) \in SUBSET Matching(q, t) /\ IsFiniteSet(Ahead(q, t, x))
                /\ Rank(q, t, x) \in Nat
  BY RankTyped, Zenon
<1>2. \A x \in Matching(q, t) : x \notin Ahead(q, t, x)
  BY <1>1, ComesOrder, Zenon DEF Ahead
<1>3. ASSUME NEW S, NEW T, IsFiniteSet(T), S \in SUBSET T, NEW x \in T, x \notin S
      PROVE  Cardinality(S) < Cardinality(T)
  <2>1. Cardinality(S) <= Cardinality(T) /\ Cardinality(S) # Cardinality(T) /\ IsFiniteSet(S)
    BY <1>3, FS_Subset, Zenon
  <2>2. Cardinality(S) \in Nat /\ Cardinality(T) \in Nat
    BY <1>3, <2>1, FS_CardinalityType, Zenon
  <2> QED BY <2>1, <2>2
<1>4. ASSUME NEW x \in Matching(q, t), NEW y \in Matching(q, t), Comes(q, t, x, y)
      PROVE  Rank(q, t, x) < Rank(q, t, y)
  <2>1. Ahead(q, t, x) \in SUBSET Ahead(q, t, y)
    BY <1>1, <1>4, ComesOrder, Zenon DEF Ahead
  <2>2. x \in Ahead(q, t, y) /\ x \notin Ahead(q, t, x)
    BY <1>2, <1>4, Zenon DEF Ahead
  <2> QED BY <1>1, <1>3, <2>1, <2>2, Zenon DEF Rank
<1>5. i # j => Rank(q, t, i) < Rank(q, t, j) \/ Rank(q, t, j) < Rank(q, t, i)
  BY <1>1, <1>4, ComesOrder, Zenon
<1>6. Rank(q, t, i) \in Nat /\ Rank(q, t, j) \in Nat
  BY <1>1, Zenon
<1>7. i # j => Rank(q, t, i) # Rank(q, t, j)
  BY <1>5, <1>6
<1>8. Rank(q, t, i) < Cardinality(Matching(q, t))
  BY <1>1, <1>2, <1>3, Zenon DEF Rank
<1> QED BY <1>4, <1>7, <1>8, Zenon

\* The listing of the database has every row at its rank.
LEMMA ListingRanks ==
  ASSUME NEW q, NEW t, IsTable(t), Sound(q), NEW s \in Listings(q, t)
  PROVE  /\ \A k \in 1..Cardinality(Matching(q, t)) :
              s[k] \in Matching(q, t) /\ Rank(q, t, s[k]) = k - 1
         /\ \A i \in Matching(q, t) : i = s[Rank(q, t, i) + 1]
<1> DEFINE n == Cardinality(Matching(q, t))
<1>1. /\ Matching(q, t) \in SUBSET DOMAIN t /\ IsFiniteSet(Matching(q, t)) /\ n \in Nat
  BY RankTyped, Zenon
<1>2. /\ s \in Injection(1..n, Matching(q, t))
      /\ \A m, k \in DOMAIN s : m < k => ~Comes(q, t, s[k], s[m])
  BY Zenon DEF Listings, Comes
<1>3. s \in [1..n -> Matching(q, t)] /\ \A m, k \in 1..n : s[m] = s[k] => m = k
  BY <1>2, Zenon DEF Injection, IsInjective
<1>4. DOMAIN s = 1..n
  BY <1>3, Zenon
<1>5. \A i \in Matching(q, t) : \E k \in 1..n : s[k] = i
  <2>1. Cardinality(1..n) = n
    BY <1>1, FS_Interval
  <2>2. s \in Surjection(1..n, Matching(q, t))
    BY <1>1, <1>2, <2>1, FS_Injection, Zenon
  <2> QED BY <2>2, Zenon DEF Surjection
<1> HIDE DEF n
<1>6. ASSUME NEW k \in 1..n PROVE Rank(q, t, s[k]) = k - 1
  <2> DEFINE f == [m \in 1..(k - 1) |-> s[m]]
  <2>1. k \in Nat /\ k - 1 \in Nat /\ \A m \in 1..(k - 1) : m \in 1..n /\ m < k
    BY <1>1, <1>6
  <2>2. \A m \in 1..n : s[m] \in Matching(q, t) /\ s[m] \in DOMAIN t
    BY <1>1, <1>3, Zenon
  <2>3. \A m \in 1..(k - 1) : s[m] \in Ahead(q, t, s[k])
    <3>1. \A m \in 1..(k - 1) : s[m] # s[k] /\ ~Comes(q, t, s[k], s[m])
      BY <1>2, <1>3, <1>4, <1>6, <2>1
    <3> QED BY <1>6, <2>1, <2>2, <3>1, ComesOrder, Zenon DEF Ahead
  <2>4. ASSUME NEW i \in Ahead(q, t, s[k]) PROVE \E m \in 1..(k - 1) : s[m] = i
    <3>1. i \in Matching(q, t) /\ Comes(q, t, i, s[k])
      BY <2>4, Zenon DEF Ahead
    <3>2. PICK m \in 1..n : s[m] = i
      BY <1>5, <3>1, Zenon
    <3>3. ~(k < m)
      BY <1>2, <1>4, <1>6, <3>1, <3>2, Zenon
    <3>4. m # k
      BY <1>6, <2>2, <3>1, <3>2, ComesOrder, Zenon
    <3>5. m \in 1..(k - 1)
      BY <1>1, <1>6, <3>2, <3>3, <3>4
    <3> QED BY <3>2, <3>5, Zenon
  <2>5. f \in Bijection(1..(k - 1), Ahead(q, t, s[k]))
    <3>1. f \in [1..(k - 1) -> Ahead(q, t, s[k])] /\ \A m \in 1..(k - 1) : f[m] = s[m]
      BY <2>3, Zenon
    <3> HIDE DEF f
    <3>2. DOMAIN f = 1..(k - 1)
      BY <3>1, Zenon
    <3>3. \A a, b \in DOMAIN f : f[a] = f[b] => a = b
      BY <1>3, <2>1, <3>1, <3>2, Zenon
    <3>4. \A i \in Ahead(q, t, s[k]) : \E m \in 1..(k - 1) : f[m] = i
      BY <2>4, <3>1, Zenon
    <3> QED BY <3>1, <3>3, <3>4, Zenon DEF Bijection, Injection, Surjection, IsInjective
  <2>6. ExistsBijection(1..(k - 1), Ahead(q, t, s[k]))
    BY <2>5, Zenon DEF ExistsBijection
  <2> QED BY <2>1, <2>6, FS_CountingElements, Zenon DEF Rank
<1>7. \A k \in 1..n : Rank(q, t, s[k]) + 1 = k
  BY <1>6
<1>8. \A i \in Matching(q, t) : i = s[Rank(q, t, i) + 1]
  BY <1>5, <1>7, Zenon
<1> QED BY <1>3, <1>6, <1>8, Zenon DEF n

-----------------------------------------------------------------------------
(* What a write does to the ranks.                                         *)

\* Two tables that differ in one row.
AgreeBut(t, u, i) ==
  /\ \A j : j # i => (j \in DOMAIN t <=> j \in DOMAIN u)
  /\ \A j \in DOMAIN t : j # i => t[j] = u[j]

LEMMA AgreeSymmetric == \A t, u, i : AgreeBut(t, u, i) => AgreeBut(u, t, i)
BY Zenon DEF AgreeBut

\* A write of one row changes nothing about whether others match or how they compare.
LEMMA AgreeListed ==
  ASSUME NEW q, NEW t, NEW u, NEW i, AgreeBut(t, u, i), NEW j, j # i
  PROVE  j \in Matching(q, t) <=> j \in Matching(q, u)
BY Zenon DEF AgreeBut, Matching

\* A set with one element at most makes another larger by one at most.
LEMMA OneMore ==
  ASSUME NEW X, IsFiniteSet(X), NEW E, \A x, y \in E : x = y, NEW Y \in SUBSET (X \cup E)
  PROVE  IsFiniteSet(Y) /\ Cardinality(Y) \in Nat /\ Cardinality(Y) <= Cardinality(X) + 1
<1>1. \E e : Y \in SUBSET (X \cup {e})
  <2>1. CASE E = {}
    BY <2>1, Zenon
  <2>2. CASE E # {}
    <3>1. PICK e : e \in E
      BY <2>2, Zenon
    <3>2. Y \in SUBSET (X \cup {e})
      BY <3>1, Zenon
    <3> QED BY <3>2, Zenon
  <2> QED BY <2>1, <2>2, Zenon
<1>2. PICK e : Y \in SUBSET (X \cup {e})
  BY <1>1, Zenon
<1>3. /\ IsFiniteSet(X \cup {e})
      /\ Cardinality(X \cup {e}) = IF e \in X THEN Cardinality(X) ELSE Cardinality(X) + 1
  BY FS_AddElement, Zenon
<1>4. IsFiniteSet(Y) /\ Cardinality(Y) <= Cardinality(X \cup {e})
  BY <1>2, <1>3, FS_Subset, Zenon
<1>5. Cardinality(Y) \in Nat /\ Cardinality(X) \in Nat /\ Cardinality(X \cup {e}) \in Nat
  BY <1>3, <1>4, FS_CardinalityType, Zenon
<1> QED BY <1>3, <1>4, <1>5

Counted(q, t, i) == IF i \in Matching(q, t) THEN 1 ELSE 0

\* The write of a row moves another up by one at most, and only if it matched.
LEMMA RankMoves ==
  ASSUME NEW q, NEW t, NEW u, NEW i, IsTable(t), IsTable(u), AgreeBut(t, u, i),
         NEW j \in DOMAIN t, j # i
  PROVE  Rank(q, t, j) <= Rank(q, u, j) + Counted(q, t, i)
<1>1. /\ IsFiniteSet(Ahead(q, t, j)) /\ IsFiniteSet(Ahead(q, u, j))
      /\ Rank(q, t, j) \in Nat /\ Rank(q, u, j) \in Nat
  BY RankTyped, Zenon
<1>2. \A k \in Ahead(q, t, j) : k # i => k \in Ahead(q, u, j)
  <2> SUFFICES ASSUME NEW k \in Ahead(q, t, j), k # i PROVE k \in Ahead(q, u, j)
    BY Zenon
  <2>1. k \in Matching(q, t) /\ k \in DOMAIN t /\ Comes(q, t, k, j)
    BY RankTyped, Zenon DEF Ahead
  <2>2. k \in Matching(q, u)
    BY <2>1, AgreeListed, Zenon
  <2>3. t[k] = u[k] /\ t[j] = u[j]
    BY <2>1, Zenon DEF AgreeBut
  <2> QED BY <2>1, <2>2, <2>3, Zenon DEF Ahead, Comes
<1>3. Rank(q, t, j) <= Rank(q, u, j) + 1
  <2>1. Ahead(q, t, j) \in SUBSET (Ahead(q, u, j) \cup {i})
    BY <1>2, Zenon
  <2> QED BY <1>1, <2>1, OneMore, Zenon DEF Rank
<1>4. ASSUME i \notin Matching(q, t) PROVE Rank(q, t, j) <= Rank(q, u, j)
  <2>1. Ahead(q, t, j) \in SUBSET Ahead(q, u, j)
    BY <1>2, <1>4, Zenon DEF Ahead
  <2> QED BY <1>1, <2>1, FS_Subset, Zenon DEF Rank
<1> QED BY <1>1, <1>3, <1>4 DEF Counted

\* Of the rows in W, one more at most lies before the horizon b after the write.
LEMMA MoreBefore ==
  ASSUME NEW q, NEW t, NEW u, NEW i, IsTable(t), IsTable(u), AgreeBut(t, u, i), Sound(q),
         NEW W \in SUBSET Matching(q, t), NEW b \in Nat
  PROVE  Cardinality(Before(q, u, W \ {i}, b))
           <= Cardinality(Before(q, t, W, b)) + Counted(q, t, i)
<1> DEFINE X == Before(q, t, W, b)
           Y == Before(q, u, W \ {i}, b)
           E == {j \in W : Rank(q, t, j) = b}
<1>1. IsFiniteSet(W) /\ \A j \in W : j \in DOMAIN t /\ j \in Matching(q, t)
  BY RankTyped, FS_Subset, Zenon
<1>2. IsFiniteSet(X)
  <2>1. X \in SUBSET W
    BY Zenon DEF Before
  <2> HIDE DEF X
  <2> QED BY <1>1, <2>1, FS_Subset, Zenon
<1>3. \A j \in W \ {i} : /\ Rank(q, t, j) \in Nat /\ Rank(q, u, j) \in Nat
                         /\ Rank(q, t, j) <= Rank(q, u, j) + Counted(q, t, i)
  BY <1>1, RankMoves, RankTyped, Zenon
<1>4. \A x, y \in E : x = y
  BY <1>1, RanksRise, Zenon
<1>5. CASE i \in Matching(q, t)
  <2>1. Y \in SUBSET (X \cup E)
    BY <1>3, <1>5 DEF Counted, Before
  <2> HIDE DEF X, Y, E
  <2>2. Cardinality(Y) <= Cardinality(X) + 1
    BY <1>2, <1>4, <2>1, OneMore, Zenon
  <2> QED BY <1>5, <2>2, Zenon DEF X, Y, Counted
<1>6. CASE i \notin Matching(q, t)
  <2>1. Y \in SUBSET X
    BY <1>3, <1>6 DEF Counted, Before
  <2> HIDE DEF X, Y
  <2>2. Cardinality(Y) <= Cardinality(X) /\ Cardinality(X) \in Nat
    BY <1>2, <2>1, FS_Subset, FS_CardinalityType, Zenon
  <2>3. Cardinality(Y) <= Cardinality(X) + 0
    BY <2>2
  <2> QED BY <1>6, <2>3, Zenon DEF X, Y, Counted
<1> QED BY <1>5, <1>6, Zenon

\* And, beside those in V, one more at most behind it.
LEMMA MoreBehind ==
  ASSUME NEW q, NEW t, NEW u, NEW i, IsTable(t), IsTable(u), AgreeBut(t, u, i), Sound(q),
         NEW V \in SUBSET Matching(q, t), NEW W \in SUBSET Matching(q, t), NEW b \in Nat
  PROVE  Cardinality((V \ {i}) \cup Behind(q, u, W \ {i}, b))
           <= Cardinality(V \cup Behind(q, t, W, b)) + Counted(q, u, i)
<1> DEFINE X == V \cup Behind(q, t, W, b)
           Y == (V \ {i}) \cup Behind(q, u, W \ {i}, b)
           E == {j \in W : Rank(q, t, j) = b - 1}
<1>1. /\ IsFiniteSet(Matching(q, t))
      /\ \A j \in W \cup V : j \in DOMAIN t /\ j \in Matching(q, t)
  BY RankTyped, Zenon
<1>2. IsFiniteSet(X)
  <2>1. X \in SUBSET Matching(q, t)
    BY Zenon DEF Behind
  <2> HIDE DEF X
  <2> QED BY <1>1, <2>1, FS_Subset, Zenon
<1>3. \A j \in W \ {i} : /\ Rank(q, t, j) \in Nat /\ Rank(q, u, j) \in Nat
                         /\ Rank(q, u, j) <= Rank(q, t, j) + Counted(q, u, i)
  <2>1. \A j \in W \ {i} : j \in DOMAIN u /\ j # i /\ AgreeBut(u, t, i)
    BY <1>1, AgreeSymmetric, Zenon DEF AgreeBut
  <2> QED BY <2>1, RankMoves, RankTyped, Zenon
<1>4. \A x, y \in E : x = y
  BY <1>1, RanksRise, Zenon
<1>5. CASE i \in Matching(q, u)
  <2>1. Y \in SUBSET (X \cup E)
    BY <1>3, <1>5 DEF Counted, Behind
  <2> HIDE DEF X, Y, E
  <2>2. Cardinality(Y) <= Cardinality(X) + 1
    BY <1>2, <1>4, <2>1, OneMore, Zenon
  <2> QED BY <1>5, <2>2, Zenon DEF X, Y, Counted
<1>6. CASE i \notin Matching(q, u)
  <2>1. Y \in SUBSET X
    BY <1>3, <1>6 DEF Counted, Behind
  <2> HIDE DEF X, Y
  <2>2. Cardinality(Y) <= Cardinality(X) /\ Cardinality(X) \in Nat
    BY <1>2, <2>1, FS_Subset, FS_CardinalityType, Zenon
  <2>3. Cardinality(Y) <= Cardinality(X) + 0
    BY <2>2
  <2> QED BY <1>6, <2>3, Zenon DEF X, Y, Counted
<1> QED BY <1>5, <1>6, Zenon

-----------------------------------------------------------------------------
(* The invariant.                                                          *)

\* The types, and what ties them together: the page that has come is a part of the table
\* without repetition, and of the total that comes with it.
PageTypes ==
  /\ wanted \in Queries /\ IsTable(rows)
  /\ walk \in {"asked", "counting", "answered", "done", "refused", "failed"}
  /\ page \in 0..Cardinality(Id)
  /\ items \in Seq(Id) /\ Len(items) <= wanted.size
  /\ total \in -1..Cardinality(Id)
  /\ seen \in [Id -> Nat]
  /\ stable \in SUBSET Matching(wanted, rows)
  /\ writes \in 0..MaxWrites
  /\ removed \in 0..writes /\ inserted \in 0..writes /\ between \in 0..writes

Fetched == walk \in {"counting", "answered"}

PageFits ==
  /\ walk \in {"counting", "answered", "done"} => Refusal(wanted) = "none"
  /\ walk = "counting" => wanted.count = "count_subquery"
  /\ \A m, n \in DOMAIN items : items[m] = items[n] => m = n
  /\ Fetched /\ items # <<>> => page * wanted.size + Len(items) <= Cardinality(Id)
  /\ walk = "counting" /\ items # <<>> /\ between = 0
       => page * wanted.size + Len(items) <= Cardinality(Matching(wanted, rows))
  /\ walk = "answered" /\ items # <<>> /\ wanted.count # "none" /\ between = 0
       => page * wanted.size + Len(items) <= total

\* The rows of the page on its way, and where the next one begins.
Got == IF Fetched THEN Range(items) ELSE {}
Horizon == IF Fetched THEN (page + 1) * wanted.size ELSE page * wanted.size

Unseen == {i \in stable : seen[i] = 0 /\ i \notin Got}
SeenOnce == {i \in stable : seen[i] > 0 \/ i \in Got}
SeenTwice == {i \in stable : seen[i] > 1 \/ (seen[i] > 0 /\ i \in Got)}

\* The rows the client will miss if nothing moves, and those it will get again.
Passed == Before(wanted, rows, Unseen, Horizon)
Repeated == SeenTwice \cup Behind(wanted, rows, SeenOnce, Horizon)

LastPage == IF wanted.count = "none" THEN Len(items) # wanted.size ELSE TotalPages <= page + 1

\* Whoever moves a row across the horizon has removed or inserted one.
WalkInv ==
  Sound(wanted) =>
    /\ walk \in {"asked", "counting", "answered"} =>
         Cardinality(Passed) <= removed /\ Cardinality(Repeated) <= inserted
    /\ walk = "done" \/ (walk = "answered" /\ LastPage) => Cardinality(Unseen) <= removed
    /\ walk = "done" => Cardinality(SeenTwice) <= inserted

PageInv == PageTypes /\ PageFits /\ WalkInv

-----------------------------------------------------------------------------
(* The steps.                                                              *)

\* The sets the walk is described with are finite sets of rows that match.
LEMMA SetsTyped ==
  ASSUME PageTypes
  PROVE  /\ Horizon \in Nat /\ wanted.size \in Nat \ {0}
         /\ Unseen \in SUBSET Matching(wanted, rows)
         /\ SeenOnce \in SUBSET Matching(wanted, rows)
         /\ SeenTwice \in SUBSET Matching(wanted, rows)
         /\ IsFiniteSet(stable)
         /\ \A S \in SUBSET stable : IsFiniteSet(S) /\ Cardinality(S) \in Nat
<1>1. wanted.size \in Nat \ {0}
  BY QueryAssumption, Zenon DEF PageTypes
<1>2. page \in Nat
  BY DEF PageTypes
<1>3. page * wanted.size \in Nat /\ (page + 1) * wanted.size \in Nat
  BY <1>1, <1>2
<1>4. Horizon \in Nat
  BY <1>3, Zenon DEF Horizon
<1>5. IsFiniteSet(Matching(wanted, rows)) /\ stable \in SUBSET Matching(wanted, rows)
  BY RankTyped, Zenon DEF PageTypes
<1>6. IsFiniteSet(stable)
  BY <1>5, FS_Subset, Zenon
<1>7. \A S \in SUBSET stable : IsFiniteSet(S) /\ Cardinality(S) \in Nat
  BY <1>6, FS_Subset, FS_CardinalityType, Zenon
<1> QED BY <1>1, <1>4, <1>5, <1>6, <1>7, Zenon DEF Unseen, SeenOnce, SeenTwice

\* A write moves the rows that others wrote.
LEMMA WriteKeeps ==
  ASSUME PageInv, NEW i \in Id, NEW t, IsTable(t), AgreeBut(rows, t, i), Write(i, t)
  PROVE  PageInv'
<1>1. /\ walk \in {"asked", "counting", "answered"} /\ writes' = writes + 1 /\ rows' = t
      /\ stable' = stable \ {i} /\ writes < MaxWrites
      /\ wanted' = wanted /\ walk' = walk /\ page' = page /\ items' = items /\ total' = total
      /\ seen' = seen
  BY Zenon DEF Write
<1>2. /\ removed' = removed + Counted(wanted, rows, i)
      /\ inserted' = inserted + Counted(wanted, t, i)
      /\ between' = IF walk = "counting" THEN between + 1 ELSE between
  BY Zenon DEF Write, Counted
<1>3. PageTypes /\ PageFits /\ WalkInv
  BY Zenon DEF PageInv
<1>4. \A u : Counted(wanted, u, i) \in {0, 1}
  BY Zenon DEF Counted
<1>5. stable' \in SUBSET Matching(wanted, t)
  BY <1>1, <1>3, AgreeListed, Zenon DEF PageTypes
<1>6. PageTypes'
  <2>1. /\ writes' \in 0..MaxWrites /\ removed' \in 0..writes' /\ inserted' \in 0..writes'
        /\ between' \in 0..writes'
    <3>1. /\ writes \in 0..MaxWrites /\ removed \in 0..writes /\ inserted \in 0..writes
          /\ between \in 0..writes
      BY <1>3, Zenon DEF PageTypes
    <3>2. MaxWrites \in Nat
      BY PageAssumption, Zenon
    <3>3. Counted(wanted, rows, i) \in {0, 1} /\ Counted(wanted, t, i) \in {0, 1}
      BY <1>4, Zenon
    <3> QED BY <1>1, <1>2, <3>1, <3>2, <3>3
  <2> QED BY <1>1, <1>3, <1>5, <2>1, Zenon DEF PageTypes
<1>7. PageFits'
  <2>1. walk = "counting" => between' # 0
    BY <1>2, <1>3 DEF PageTypes
  <2> QED BY <1>1, <1>2, <1>3, <2>1, Zenon DEF PageFits, Fetched
<1>8. WalkInv'
  <2> SUFFICES ASSUME Sound(wanted) PROVE WalkInv'
    BY <1>1, Zenon DEF WalkInv
  <2>1. /\ Cardinality(Passed) <= removed /\ Cardinality(Repeated) <= inserted
        /\ walk = "answered" /\ LastPage => Cardinality(Unseen) <= removed
    BY <1>1, <1>3, Zenon DEF WalkInv
  <2>2. /\ Got' = Got /\ Horizon' = Horizon /\ LastPage' = LastPage
    BY <1>1, Zenon DEF Got, Horizon, Fetched, LastPage, TotalPages
  <2>3. /\ Unseen' = Unseen \ {i} /\ SeenOnce' = SeenOnce \ {i} /\ SeenTwice' = SeenTwice \ {i}
    BY <1>1, <2>2, Zenon DEF Unseen, SeenOnce, SeenTwice
  <2>4. /\ Horizon \in Nat /\ Unseen \in SUBSET Matching(wanted, rows)
        /\ SeenOnce \in SUBSET Matching(wanted, rows)
        /\ SeenTwice \in SUBSET Matching(wanted, rows)
    BY <1>3, SetsTyped, Zenon
  <2>5. IsTable(rows)
    BY <1>3, Zenon DEF PageTypes
  <2>6. Cardinality(Passed') <= Cardinality(Passed) + Counted(wanted, rows, i)
    <3>1. Passed' = Before(wanted, t, Unseen \ {i}, Horizon)
      BY <1>1, <2>2, <2>3, Zenon DEF Passed
    <3> QED BY <2>4, <2>5, <3>1, MoreBefore, Zenon DEF Passed
  <2>7. Cardinality(Repeated') <= Cardinality(Repeated) + Counted(wanted, t, i)
    <3>1. Repeated' = (SeenTwice \ {i}) \cup Behind(wanted, t, SeenOnce \ {i}, Horizon)
      BY <1>1, <2>2, <2>3, Zenon DEF Repeated
    <3> QED BY <2>4, <2>5, <3>1, MoreBehind, Zenon DEF Repeated
  <2>8. Cardinality(Unseen') <= Cardinality(Unseen)
    BY <1>3, <2>3, SetsTyped, FS_Subset, RankTyped, Zenon DEF PageTypes
  <2>9. /\ Cardinality(Passed) \in Nat /\ Cardinality(Passed') \in Nat
        /\ Cardinality(Repeated) \in Nat /\ Cardinality(Repeated') \in Nat
        /\ Cardinality(Unseen) \in Nat /\ Cardinality(Unseen') \in Nat
    <3>1. Passed \in SUBSET stable /\ Repeated \in SUBSET stable /\ Unseen \in SUBSET stable
      BY Zenon DEF Passed, Before, Repeated, Behind, Unseen, SeenOnce, SeenTwice
    <3>2. Passed' \in SUBSET stable' /\ Repeated' \in SUBSET stable' /\ Unseen' \in SUBSET stable'
      BY Zenon DEF Passed, Before, Repeated, Behind, Unseen, SeenOnce, SeenTwice
    <3>3. \A S \in SUBSET stable : Cardinality(S) \in Nat
      BY <1>3, SetsTyped, Zenon
    <3> QED BY <1>1, <3>1, <3>2, <3>3, Zenon
  <2>10. /\ Cardinality(Passed)' <= removed' /\ Cardinality(Repeated)' <= inserted'
         /\ walk = "answered" /\ LastPage => Cardinality(Unseen)' <= removed'
    <3>1. removed \in Nat /\ inserted \in Nat
      BY <1>3 DEF PageTypes
    <3>2. Counted(wanted, rows, i) \in {0, 1} /\ Counted(wanted, t, i) \in {0, 1}
      BY <1>4, Zenon
    <3> QED BY <1>2, <2>1, <2>6, <2>7, <2>8, <2>9, <3>1, <3>2
  <2> QED BY <1>1, <2>2, <2>10, Zenon DEF WalkInv
<1> QED BY <1>6, <1>7, <1>8, Zenon DEF PageInv

\* What is written now is created after every row.
LEMMA NowIsLater ==
  ASSUME IsTable(rows)
  PROVE  nowutc \in Nat /\ \A j \in DOMAIN rows : rows[j].created # nowutc
<1> DEFINE T == {rows[j].created : j \in DOMAIN rows}
           S == {0} \cup T
           f == [j \in DOMAIN rows |-> rows[j].created]
<1>1. \A j \in DOMAIN rows : rows[j].created \in Nat
  BY Zenon DEF IsTable, Row
<1>2. f \in Surjection(DOMAIN rows, T)
  BY Zenon DEF Surjection
<1>3. IsFiniteSet(DOMAIN rows)
  BY PageAssumption, FS_Subset, Zenon DEF IsTable
<1>4. IsFiniteSet(T)
  <2> HIDE DEF f, T
  <2> QED BY <1>2, <1>3, FS_Surjection, Zenon
<1>5. IsFiniteSet({0}) /\ S \in SUBSET Nat /\ S # {} /\ T \in SUBSET S
  BY <1>1, FS_Singleton
<1>6. IsFiniteSet(S)
  <2> HIDE DEF T
  <2> QED BY <1>4, <1>5, FS_Union, Zenon
<1>7. Max(S) \in S /\ \A y \in S : y <= Max(S)
  <2> HIDE DEF S
  <2> QED BY <1>5, <1>6, GreatestNatural, Zenon
<1>8. nowutc = 1 + Max(S)
  BY Zenon DEF nowutc
<1>9. Max(S) \in Nat /\ \A j \in DOMAIN rows : rows[j].created <= Max(S)
  <2>1. \A j \in DOMAIN rows : rows[j].created \in S
    BY Zenon
  <2> HIDE DEF S
  <2> QED BY <1>5, <1>7, <2>1, Zenon
<1> HIDE DEF S
<1> QED BY <1>1, <1>8, <1>9

\* A written row leaves a table, which agrees with the one before on the others.
LEMMA PutTable ==
  ASSUME IsTable(rows), NEW i \in Id, NEW row \in Row,
         \A j \in DOMAIN rows : j # i => rows[j].created # row.created
  PROVE  IsTable(Put(i, row)) /\ AgreeBut(rows, Put(i, row), i)
<1> DEFINE t == Put(i, row)
<1>1. DOMAIN t = DOMAIN rows \cup {i}
  BY Zenon DEF Put
<1>2. t[i] = row /\ \A j \in DOMAIN rows : j # i => t[j] = rows[j]
  BY Zenon DEF Put
<1>3. t = [j \in DOMAIN t |-> t[j]]
  BY <1>1, Zenon DEF Put
<1>4. DOMAIN rows \in SUBSET Id /\ \A j \in DOMAIN rows : rows[j] \in Row
  BY Zenon DEF IsTable
<1>5. \A j, k \in DOMAIN rows : j # k => rows[j].created # rows[k].created
  BY Zenon DEF IsTable
<1> HIDE DEF t
<1>6. t \in [DOMAIN t -> Row]
  BY <1>1, <1>2, <1>3, <1>4, Zenon
<1>7. DOMAIN t \in SUBSET Id
  BY <1>1, <1>4, Zenon
<1>8. \A j, k \in DOMAIN t : j # k => t[j].created # t[k].created
  <2> SUFFICES ASSUME NEW j \in DOMAIN t, NEW k \in DOMAIN t, j # k
               PROVE  t[j].created # t[k].created
    BY Zenon
  <2>1. CASE j = i
    BY <1>1, <1>2, <2>1, Zenon
  <2>2. CASE k = i
    BY <1>1, <1>2, <2>2, Zenon
  <2>3. CASE j # i /\ k # i
    BY <1>1, <1>2, <1>5, <2>3, Zenon
  <2> QED BY <2>1, <2>2, <2>3, Zenon
<1>9. IsTable(t)
  BY <1>6, <1>7, <1>8, Zenon DEF IsTable
<1>10. AgreeBut(rows, t, i)
  BY <1>1, <1>2, Zenon DEF AgreeBut
<1> QED BY <1>9, <1>10, Zenon DEF t

\* So does a deleted one.
LEMMA DeleteTable ==
  ASSUME IsTable(rows), NEW i \in DOMAIN rows
  PROVE  LET t == [j \in DOMAIN rows \ {i} |-> rows[j]]
         IN  IsTable(t) /\ AgreeBut(rows, t, i)
<1> DEFINE t == [j \in DOMAIN rows \ {i} |-> rows[j]]
<1>1. DOMAIN t = DOMAIN rows \ {i} /\ \A j \in DOMAIN t : t[j] = rows[j]
  BY Zenon
<1>2. DOMAIN rows \in SUBSET Id /\ \A j \in DOMAIN rows : rows[j] \in Row
  BY Zenon DEF IsTable
<1>3. \A j, k \in DOMAIN rows : j # k => rows[j].created # rows[k].created
  BY Zenon DEF IsTable
<1>4. t \in [DOMAIN t -> Row]
  BY <1>2, Zenon
<1> HIDE DEF t
<1>5. IsTable(t)
  BY <1>1, <1>2, <1>3, <1>4, Zenon DEF IsTable
<1>6. AgreeBut(rows, t, i)
  BY <1>1, Zenon DEF AgreeBut
<1> QED BY <1>5, <1>6, Zenon DEF t

\* CRUDOperations writes one row.
LEMMA CrudKeeps == PageInv /\ Crud => PageInv'
<1> SUFFICES ASSUME PageInv, Crud PROVE PageInv'
  BY Zenon
<1>1. IsTable(rows) /\ \A j \in DOMAIN rows : j \in Id /\ rows[j] \in Row
  BY Zenon DEF PageInv, PageTypes, IsTable
<1>2. nowutc \in Nat /\ \A j \in DOMAIN rows : rows[j].created # nowutc
  BY <1>1, NowIsLater, Zenon
<1>3. \A n \in Nat : \A c \in Written : /\ [created |-> n, cell |-> c] \in Row
                                        /\ [created |-> n, cell |-> c].created = n
  <2>1. \A c \in Written : c \in Value \cup {Null}
    BY PageAssumption, Zenon
  <2> QED BY <2>1, Zenon DEF Row
<1>4. ASSUME NEW i \in Id, delete_by_id(i) PROVE PageInv'
  <2>1. i \in DOMAIN rows /\ Write(i, [j \in DOMAIN rows \ {i} |-> rows[j]])
    BY <1>4, Zenon DEF delete_by_id
  <2>2. /\ IsTable([j \in DOMAIN rows \ {i} |-> rows[j]])
        /\ AgreeBut(rows, [j \in DOMAIN rows \ {i} |-> rows[j]], i)
    BY <1>1, <2>1, DeleteTable, Zenon
  <2> QED BY <2>1, <2>2, WriteKeeps, Zenon
<1>5. ASSUME NEW i \in Id, NEW c \in Written, NEW n \in Nat,
             \A j \in DOMAIN rows : j # i => rows[j].created # n,
             Write(i, Put(i, [created |-> n, cell |-> c]))
      PROVE  PageInv'
  <2> DEFINE row == [created |-> n, cell |-> c]
  <2>1. row \in Row /\ row.created = n
    BY <1>3, Zenon
  <2> HIDE DEF row
  <2>2. \A j \in DOMAIN rows : j # i => rows[j].created # row.created
    BY <1>5, <2>1, Zenon
  <2>3. IsTable(Put(i, row)) /\ AgreeBut(rows, Put(i, row), i)
    BY <1>1, <2>1, <2>2, PutTable, Zenon
  <2>4. Write(i, Put(i, row))
    BY <1>5, Zenon DEF row
  <2> QED BY <2>3, <2>4, WriteKeeps, Zenon
<1>6. ASSUME NEW i \in Id, NEW c \in Written, create(i, c) PROVE PageInv'
  BY <1>2, <1>5, <1>6, Zenon DEF create
<1>7. ASSUME NEW i \in Id, NEW c \in Written, update(i, c) PROVE PageInv'
  <2> DEFINE when == IF i \in DOMAIN rows THEN rows[i].created ELSE nowutc
  <2>1. Write(i, Put(i, [created |-> when, cell |-> c]))
    BY <1>7, Zenon DEF update
  <2>2. when \in Nat /\ \A j \in DOMAIN rows : j # i => rows[j].created # when
    <3>1. CASE i \in DOMAIN rows
      <4>1. rows[i].created \in Nat
        BY <1>1, <3>1, Zenon DEF Row
      <4> QED BY <1>1, <3>1, <4>1, Zenon DEF IsTable
    <3>2. CASE i \notin DOMAIN rows
      BY <1>2, <3>2, Zenon
    <3> QED BY <3>1, <3>2, Zenon
  <2> HIDE DEF when
  <2> QED BY <1>5, <2>1, <2>2, Zenon
<1> QED BY <1>4, <1>6, <1>7, Zenon DEF Crud

-----------------------------------------------------------------------------
(* The pages.                                                              *)

\* What the offset of a page needs of multiplication.
LEMMA Products ==
  ASSUME NEW a \in Nat, NEW d \in Nat \ {0}
  PROVE  /\ a * d \in Nat /\ a <= a * d
         /\ (a + 1) * d = a * d + d
OBVIOUS

\* And the number of pages of division.
LEMMA Quotients ==
  ASSUME NEW x \in Int, NEW d \in Nat \ {0}, NEW p \in Nat
  PROVE  x \div d \in Int /\ (p < x \div d <=> (p + 1) * d <= x)
<1>1. x \div d \in Int
  OBVIOUS
<1>2. x % d \in 0..(d - 1)
  OBVIOUS
<1>3. x = d * (x \div d) + (x % d)
  OBVIOUS
<1>4. PICK y \in Int, r \in 0..(d - 1) : x \div d = y /\ x = d * y + r
  BY <1>1, <1>2, <1>3, Zenon
<1>5. ASSUME p < y PROVE (p + 1) * d <= x
  <2>1. PICK e \in Nat : y = p + 1 + e
    BY <1>5
  <2>2. d * e \in Nat /\ d * y = (p + 1) * d + d * e
    BY <2>1
  <2> QED BY <1>4, <2>2
<1>6. ASSUME y <= p PROVE ~((p + 1) * d <= x)
  <2>1. PICK e \in Nat : p = y + e
    BY <1>6
  <2>2. d * e \in Nat /\ d * y \in Int /\ (p + 1) * d = d * y + d * e + d
    BY <2>1
  <2> QED BY <1>4, <2>2
<1> QED BY <1>4, <1>5, <1>6

\* Page p lies below the number of pages if it begins below the total.
LEMMA PageCount ==
  ASSUME NEW t \in Int, NEW d \in Nat \ {0}, NEW p \in Nat
  PROVE  (t + d - 1) \div d \in Int /\ (p < (t + d - 1) \div d <=> p * d < t)
<1>1. t + d - 1 \in Int
  OBVIOUS
<1>2. /\ (t + d - 1) \div d \in Int
      /\ p < (t + d - 1) \div d <=> (p + 1) * d <= t + d - 1
  BY <1>1, Quotients, Zenon
<1>3. p * d \in Nat /\ (p + 1) * d = p * d + d
  BY Products, Zenon
<1>4. (p + 1) * d <= t + d - 1 <=> p * d < t
  BY <1>3
<1> QED BY <1>2, <1>4, Zenon

\* The upper end of a slice.
LEMMA LesserOfTwo ==
  ASSUME NEW a \in Nat, NEW b \in Nat
  PROVE  Min({a, b}) = IF a <= b THEN a ELSE b
BY DEF Min

\* What SubSeq returns within the bounds of a sequence.
LEMMA SubSequence ==
  ASSUME NEW s \in Seq(Id), NEW k \in Nat, NEW e \in Nat, e <= Len(s)
  PROVE  /\ SubSeq(s, k + 1, e) \in Seq(Id)
         /\ Len(SubSeq(s, k + 1, e)) = IF k + 1 <= e THEN e - k ELSE 0
         /\ \A m \in 1..Len(SubSeq(s, k + 1, e)) : SubSeq(s, k + 1, e)[m] = s[k + m]
OBVIOUS

\* A page is the part of the listing that its number says.
LEMMA SliceShape ==
  ASSUME PageTypes, NEW s \in Listings(wanted, rows)
  PROVE  LET n == Cardinality(Matching(wanted, rows))
             k == page * wanted.size
         IN  /\ n \in Nat /\ n <= Cardinality(Id) /\ Cardinality(Id) \in Nat /\ k \in Nat
             /\ Len(s) = n
             /\ s \in [1..n -> Matching(wanted, rows)] /\ \A a, b \in 1..n : s[a] = s[b] => a = b
             /\ Slice(s) \in Seq(Id) /\ Len(Slice(s)) \in Nat /\ Len(Slice(s)) <= wanted.size
             /\ \A m \in 1..Len(Slice(s)) : k + m \in 1..n /\ Slice(s)[m] = s[k + m]
             /\ \A m \in 1..wanted.size : k + m <= n => m \in 1..Len(Slice(s))
<1> DEFINE n == Cardinality(Matching(wanted, rows))
           k == page * wanted.size
<1>1. /\ n \in Nat /\ n <= Cardinality(Id) /\ \A i \in Matching(wanted, rows) : i \in Id
  BY RankTyped, Zenon DEF PageTypes, IsTable
<1>2. Cardinality(Id) \in Nat
  BY PageAssumption, FS_CardinalityType, Zenon
<1>3. s \in [1..n -> Matching(wanted, rows)] /\ \A a, b \in 1..n : s[a] = s[b] => a = b
  BY Zenon DEF Listings, Injection, IsInjective
<1> HIDE DEF n
<1>4. s \in Seq(Id) /\ Len(s) = n
  BY <1>1, <1>3
<1>5. wanted.size \in Nat \ {0} /\ k \in Nat /\ (page + 1) * wanted.size = k + wanted.size
  <2>1. wanted.size \in Nat \ {0}
    BY SetsTyped, Zenon
  <2>2. page \in Nat
    BY DEF PageTypes
  <2> QED BY <2>1, <2>2, Products, Zenon
<1> HIDE DEF k
<1>6. k + wanted.size \in Nat
  BY <1>5
<1>7. Slice(s) = SubSeq(s, k + 1, Min({n, k + wanted.size}))
  BY <1>4, <1>5, Zenon DEF Slice, k
<1>8. PICK e : e = Min({n, k + wanted.size})
  BY Zenon
<1>9. e \in Nat /\ e <= n /\ e <= k + wanted.size /\ (e = n \/ e = k + wanted.size)
  <2>1. e = IF n <= k + wanted.size THEN n ELSE k + wanted.size
    BY <1>1, <1>6, <1>8, LesserOfTwo, Zenon
  <2> QED BY <1>1, <1>6, <2>1
<1>10. /\ Slice(s) \in Seq(Id)
       /\ Len(Slice(s)) = IF k + 1 <= e THEN e - k ELSE 0
       /\ \A m \in 1..Len(Slice(s)) : Slice(s)[m] = s[k + m]
  <2>1. e <= Len(s)
    BY <1>4, <1>9, Zenon
  <2>2. Slice(s) = SubSeq(s, k + 1, e)
    BY <1>7, <1>8, Zenon
  <2>3. /\ SubSeq(s, k + 1, e) \in Seq(Id)
        /\ Len(SubSeq(s, k + 1, e)) = IF k + 1 <= e THEN e - k ELSE 0
        /\ \A m \in 1..Len(SubSeq(s, k + 1, e)) : SubSeq(s, k + 1, e)[m] = s[k + m]
    <3>1. e \in Nat /\ k \in Nat /\ s \in Seq(Id)
      BY <1>4, <1>5, <1>9, Zenon
    <3> QED BY <2>1, <3>1, SubSequence, Zenon
  <2> QED BY <2>2, <2>3, Zenon
<1>11. /\ Len(Slice(s)) \in Nat /\ Len(Slice(s)) <= wanted.size
       /\ \A m \in 1..Len(Slice(s)) : k + m \in 1..n
       /\ \A m \in 1..wanted.size : k + m <= n => m \in 1..Len(Slice(s))
  BY <1>1, <1>5, <1>9, <1>10
<1> QED BY <1>1, <1>2, <1>3, <1>4, <1>5, <1>10, <1>11, Zenon DEF n, k

\* A window of l rows, z at the most, that begins after k of n.
LEMMA Window ==
  ASSUME NEW k \in Nat, NEW z \in Nat \ {0}, NEW n \in Nat, NEW l \in Nat, l <= z
  PROVE  /\ \A a, b \in 1..l : k + a = k + b => a = b
         /\ \A m \in 1..l : k <= (k + m) - 1 /\ (k + m) - 1 < k + z
         /\ \A r \in Nat : k <= r /\ r < k + z /\ r < n =>
              \E m \in 1..z : k + m = r + 1 /\ k + m <= n
         /\ (\A m \in 1..z : k + m <= n => m \in 1..l) =>
              (l # z => n < k + z) /\ (l = 0 => n <= k)
<1>1. \A a, b \in 1..l : k + a = k + b => a = b
  OBVIOUS
<1>2. \A m \in 1..l : k <= (k + m) - 1 /\ (k + m) - 1 < k + z
  OBVIOUS
<1>3. ASSUME NEW r \in Nat, k <= r, r < k + z, r < n
      PROVE  \E m \in 1..z : k + m = r + 1 /\ k + m <= n
  <2>1. (r + 1) - k \in 1..z /\ k + ((r + 1) - k) = r + 1 /\ r + 1 <= n
    BY <1>3
  <2> QED BY <2>1, Zenon
<1>4. ASSUME \A m \in 1..z : k + m <= n => m \in 1..l
      PROVE  (l # z => n < k + z) /\ (l = 0 => n <= k)
  <2>1. 1 \in 1..z /\ z \in 1..z
    OBVIOUS
  <2>2. (k + z <= n => z \in 1..l) /\ (k + 1 <= n => 1 \in 1..l)
    BY <1>4, <2>1, Zenon
  <2> QED BY <2>2
<1> QED BY <1>1, <1>2, <1>3, <1>4, Zenon

\* The page has the rows whose rank is from its beginning to its end.
LEMMA FetchKeeps == PageInv /\ FetchPage => PageInv'
<1> SUFFICES ASSUME PageInv, FetchPage PROVE PageInv'
  OBVIOUS
<1>1. PageTypes /\ PageFits /\ WalkInv
  BY Zenon DEF PageInv
<1>2. /\ walk = "asked" /\ Refusal(wanted) = "none" /\ between' = 0
      /\ walk' = IF wanted.count = "count_subquery" THEN "counting" ELSE "answered"
      /\ wanted' = wanted /\ rows' = rows /\ page' = page /\ seen' = seen /\ stable' = stable
      /\ removed' = removed /\ inserted' = inserted /\ writes' = writes
  BY Zenon DEF FetchPage, worldOf
<1>3. PICK s \in Listings(wanted, rows) :
        /\ items' = Slice(s)
        /\ total' = CASE wanted.count = "total_over" -> CountOver(s)
                      [] wanted.count = "none" -> -1
                      [] OTHER -> total
  BY Zenon DEF FetchPage
<1>4. PICK n, k :
        /\ n = Cardinality(Matching(wanted, rows)) /\ k = page * wanted.size
        /\ n \in Nat /\ n <= Cardinality(Id) /\ Cardinality(Id) \in Nat /\ k \in Nat
        /\ Len(s) = n
        /\ s \in [1..n -> Matching(wanted, rows)] /\ \A a, b \in 1..n : s[a] = s[b] => a = b
        /\ Slice(s) \in Seq(Id) /\ Len(Slice(s)) \in Nat /\ Len(Slice(s)) <= wanted.size
        /\ \A m \in 1..Len(Slice(s)) : k + m \in 1..n /\ Slice(s)[m] = s[k + m]
        /\ \A m \in 1..wanted.size : k + m <= n => m \in 1..Len(Slice(s))
  BY <1>1, SliceShape, Zenon
<1>5. /\ wanted.size \in Nat \ {0} /\ page \in Nat /\ (page + 1) * wanted.size = k + wanted.size
      /\ wanted.count \in {"total_over", "count_subquery", "none"}
  <2>1. wanted.size \in Nat \ {0} /\ wanted.count \in {"total_over", "count_subquery", "none"}
    BY <1>1, QueryAssumption, Zenon DEF PageTypes
  <2>2. page \in Nat
    BY <1>1 DEF PageTypes
  <2> QED BY <1>4, <2>1, <2>2, Products, Zenon
<1>6. items' # <<>> => Len(items') > 0 /\ k + Len(items') <= n
  BY <1>3, <1>4
<1>7. /\ \A a, b \in 1..Len(Slice(s)) : k + a = k + b => a = b
      /\ \A m \in 1..Len(Slice(s)) : k <= (k + m) - 1 /\ (k + m) - 1 < k + wanted.size
      /\ \A r \in Nat : k <= r /\ r < k + wanted.size /\ r < n =>
           \E m \in 1..wanted.size : k + m = r + 1 /\ k + m <= n
      /\ Len(Slice(s)) # wanted.size => n < k + wanted.size
      /\ Len(Slice(s)) = 0 => n <= k
  <2> DEFINE l == Len(Slice(s))
             z == wanted.size
  <2>1. k \in Nat /\ z \in Nat \ {0} /\ n \in Nat /\ l \in Nat /\ l <= z
    BY <1>4, <1>5, Zenon
  <2>2. \A m \in 1..z : k + m <= n => m \in 1..l
    BY <1>4, Zenon
  <2> HIDE DEF l, z
  <2>3. /\ \A a, b \in 1..l : k + a = k + b => a = b
        /\ \A m \in 1..l : k <= (k + m) - 1 /\ (k + m) - 1 < k + z
        /\ \A r \in Nat : k <= r /\ r < k + z /\ r < n =>
             \E m \in 1..z : k + m = r + 1 /\ k + m <= n
        /\ l # z => n < k + z
        /\ l = 0 => n <= k
    BY <2>1, <2>2, Window
  <2> QED BY <2>3, Zenon DEF l, z
<1>8. /\ wanted.count = "total_over" /\ items' # <<>> => total' = n
      /\ total' \in -1..Cardinality(Id)
  <2>1. total \in -1..Cardinality(Id)
    BY <1>1, Zenon DEF PageTypes
  <2>2. CountOver(s) = IF items' = <<>> THEN 0 ELSE n
    BY <1>3, <1>4, Zenon DEF CountOver
  <2>3. wanted.count = "total_over" => total' = CountOver(s)
    BY <1>3, Zenon
  <2>4. total' = CountOver(s) \/ total' = -1 \/ total' = total
    BY <1>3, <1>5, Zenon
  <2> QED BY <1>4, <2>1, <2>2, <2>3, <2>4
<1>9. PageTypes'
  <2>1. items' \in Seq(Id) /\ Len(items') <= wanted'.size
    BY <1>2, <1>3, <1>4, Zenon
  <2>2. between' \in 0..writes'
    BY <1>1, <1>2 DEF PageTypes
  <2>3. walk' \in {"asked", "counting", "answered", "done", "refused", "failed"}
    BY <1>2, Zenon
  <2> QED BY <1>1, <1>2, <1>8, <2>1, <2>2, <2>3, Zenon DEF PageTypes
<1>10. PageFits'
  <2>1. \A a, b \in DOMAIN items' : items'[a] = items'[b] => a = b
    <3>1. DOMAIN items' = 1..Len(Slice(s)) /\ Len(Slice(s)) \in Nat
      BY <1>3, <1>4
    <3>2. \A a, b \in 1..Len(Slice(s)) : items'[a] = items'[b] => k + a = k + b
      <4> SUFFICES ASSUME NEW a \in 1..Len(Slice(s)), NEW b \in 1..Len(Slice(s)),
                          items'[a] = items'[b]
                   PROVE  k + a = k + b
        BY Zenon
      <4>1. /\ k + a \in 1..n /\ items'[a] = s[k + a]
            /\ k + b \in 1..n /\ items'[b] = s[k + b]
        BY <1>3, <1>4, Zenon
      <4> QED BY <1>4, <4>1, Zenon
    <3> QED BY <1>7, <3>1, <3>2
  <2>2. items' # <<>> => k + Len(items') <= Cardinality(Id)
    BY <1>3, <1>4, <1>6
  <2>3. walk' = "answered" /\ items' # <<>> /\ wanted.count # "none" => k + Len(items') <= total'
    BY <1>2, <1>5, <1>6, <1>8, Zenon
  <2> QED BY <1>2, <1>4, <1>6, <2>1, <2>2, <2>3, Zenon DEF PageFits, Fetched
<1>11. WalkInv'
  <2> SUFFICES ASSUME Sound(wanted) PROVE WalkInv'
    BY <1>2, Zenon DEF WalkInv
  <2> DEFINE R(i) == Rank(wanted, rows, i)
             M == Matching(wanted, rows)
  <2>1. /\ \A m \in 1..n : R(s[m]) = m - 1
        /\ \A i \in M : i = s[R(i) + 1] /\ R(i) \in Nat /\ R(i) < n
    <3>1. IsTable(rows)
      BY <1>1, Zenon DEF PageTypes
    <3>2. /\ \A m \in 1..n : R(s[m]) = m - 1
          /\ \A i \in M : i = s[R(i) + 1]
      <4>1. /\ \A m \in 1..Cardinality(Matching(wanted, rows)) :
                 s[m] \in Matching(wanted, rows) /\ Rank(wanted, rows, s[m]) = m - 1
            /\ \A i \in Matching(wanted, rows) : i = s[Rank(wanted, rows, i) + 1]
        BY <3>1, ListingRanks, Zenon
      <4> QED BY <1>4, <4>1, Zenon
    <3>3. \A i : R(i) \in Nat
      BY <3>1, RankTyped, Zenon
    <3>4. \A i \in M : R(i) < n
      <4>1. \A i \in M : Rank(wanted, rows, i) < Cardinality(Matching(wanted, rows))
        BY <3>1, RanksRise, Zenon
      <4> QED BY <1>4, <4>1, Zenon
    <3> QED BY <3>2, <3>3, <3>4, Zenon
  <2>2. stable \in SUBSET M
    BY <1>1, Zenon DEF PageTypes
  <2> HIDE DEF R, M
  <2>3. \A i \in M : i \in Range(items') <=> k <= R(i) /\ R(i) < k + wanted.size
    <3> SUFFICES ASSUME NEW i \in M
                 PROVE  i \in Range(items') <=> k <= R(i) /\ R(i) < k + wanted.size
      BY Zenon
    <3>1. DOMAIN items' = 1..Len(Slice(s))
      BY <1>3, <1>4
    <3>2. ASSUME i \in Range(items') PROVE k <= R(i) /\ R(i) < k + wanted.size
      <4>1. PICK m \in 1..Len(Slice(s)) : i = items'[m]
        BY <3>1, <3>2, Zenon DEF Range
      <4>2. i = s[k + m] /\ k + m \in 1..n
        BY <1>3, <1>4, <4>1, Zenon
      <4>3. R(i) = (k + m) - 1
        <5>1. R(s[k + m]) = (k + m) - 1
          BY <2>1, <4>2, Zenon
        <5> QED BY <4>2, <5>1, Zenon
      <4> QED BY <1>7, <4>1, <4>3, Zenon
    <3>3. ASSUME k <= R(i), R(i) < k + wanted.size PROVE i \in Range(items')
      <4>1. PICK m \in 1..wanted.size : k + m = R(i) + 1 /\ k + m <= n
        <5>1. R(i) \in Nat /\ R(i) < n
          BY <2>1, Zenon
        <5> QED BY <1>7, <3>3, <5>1, Zenon
      <4>2. m \in 1..Len(Slice(s)) /\ items'[m] = s[R(i) + 1]
        BY <1>3, <1>4, <4>1, Zenon
      <4> QED BY <2>1, <3>1, <4>2, Zenon DEF Range
    <3> QED BY <3>2, <3>3, Zenon
  <2>4. Got = {} /\ Got' = Range(items') /\ Horizon = k /\ Horizon' = k + wanted.size
    BY <1>2, <1>4, <1>5, Zenon DEF Got, Horizon, Fetched
  <2>5. \A i \in stable : R(i) \in Nat /\ (i \in Got' <=> k <= R(i) /\ R(i) < k + wanted.size)
    BY <2>1, <2>2, <2>3, <2>4, Zenon
  <2>6. Passed' \in SUBSET Passed
    <3>1. Passed' = {i \in stable : seen[i] = 0 /\ i \notin Got' /\ R(i) < k + wanted.size}
      BY <1>2, <2>4, Zenon DEF Passed, Before, Unseen, R
    <3>2. Passed = {i \in stable : seen[i] = 0 /\ R(i) < k}
      BY <2>4, Zenon DEF Passed, Before, Unseen, R
    <3>3. \A i \in stable : i \notin Got' /\ R(i) < k + wanted.size => R(i) < k
      BY <1>4, <1>5, <2>5
    <3> QED BY <3>1, <3>2, <3>3, Zenon
  <2>7. Repeated' \in SUBSET Repeated
    <3>1. Repeated' = {i \in stable : seen[i] > 1 \/ (seen[i] > 0 /\ i \in Got')}
                      \cup {i \in stable : (seen[i] > 0 \/ i \in Got') /\ R(i) >= k + wanted.size}
      BY <1>2, <2>4, Zenon DEF Repeated, Behind, SeenOnce, SeenTwice, R
    <3>2. Repeated = {i \in stable : seen[i] > 1} \cup {i \in stable : seen[i] > 0 /\ R(i) >= k}
      BY <2>4, Zenon DEF Repeated, Behind, SeenOnce, SeenTwice, R
    <3>3. \A i \in stable : /\ i \in Got' => R(i) >= k /\ ~(R(i) >= k + wanted.size)
                            /\ R(i) >= k + wanted.size => R(i) >= k
      BY <1>4, <1>5, <2>5, SMTT(30)
    <3> QED BY <3>1, <3>2, <3>3, Zenon
  <2>8. ASSUME walk' = "answered", LastPage' PROVE Unseen' \in SUBSET Passed
    <3>1. Unseen' = {i \in stable : seen[i] = 0 /\ i \notin Got'}
      BY <1>2, Zenon DEF Unseen
    <3>2. Passed = {i \in stable : seen[i] = 0 /\ R(i) < k}
      BY <2>4 DEF Passed, Before, Unseen, R
    <3>3. ASSUME NEW i \in stable PROVE R(i) < k + wanted.size
      <4>1. R(i) \in Nat /\ R(i) < n
        BY <2>1, <2>2, Zenon
      <4>2. CASE wanted.count = "none"
        <5>1. Len(Slice(s)) # wanted.size
          BY <1>2, <1>3, <2>8, <4>2, Zenon DEF LastPage
        <5>2. n < k + wanted.size
          BY <1>7, <5>1, Zenon
        <5> QED BY <1>4, <1>5, <4>1, <5>2, SMTT(30)
      <4>3. CASE wanted.count = "total_over" /\ items' # <<>>
        <5>1. TotalPages' <= page + 1
          BY <1>2, <2>8, <4>3, Zenon DEF LastPage
        <5>2. total' = n /\ TotalPages' = (n + wanted.size - 1) \div wanted.size
          BY <1>2, <1>8, <4>3, Zenon DEF TotalPages
        <5>3. page + 1 \in Nat /\ n \in Int
          BY <1>4, <1>5
        <5>4. /\ TotalPages' \in Int
              /\ page + 1 < TotalPages' <=> (page + 1) * wanted.size < n
          BY <1>5, <5>2, <5>3, PageCount, Zenon
        <5>5. ~(page + 1 < TotalPages')
          BY <5>1, <5>3, <5>4
        <5> QED BY <1>4, <1>5, <4>1, <5>4, <5>5, SMTT(30)
      <4>4. CASE wanted.count = "total_over" /\ items' = <<>>
        <5>1. Len(Slice(s)) = 0
          BY <1>3, <4>4
        <5>2. n <= k
          BY <1>7, <5>1, Zenon
        <5> QED BY <1>4, <1>5, <4>1, <5>2, SMTT(30)
      <4> QED BY <1>2, <1>5, <2>8, <4>2, <4>3, <4>4, Zenon
    <3>4. \A i \in stable : i \notin Got' => R(i) < k
      BY <1>4, <1>5, <2>5, <3>3
    <3> QED BY <3>1, <3>2, <3>4, Zenon
  <2>9. Cardinality(Passed) <= removed /\ Cardinality(Repeated) <= inserted
    BY <1>1, <1>2, Zenon DEF WalkInv
  <2>10. \A S : /\ S \in SUBSET Passed =>
                     Cardinality(S) <= Cardinality(Passed) /\ Cardinality(S) \in Nat
                /\ S \in SUBSET Repeated =>
                     Cardinality(S) <= Cardinality(Repeated) /\ Cardinality(S) \in Nat
    <3>1. Passed \in SUBSET stable /\ Repeated \in SUBSET stable
      BY Zenon DEF Passed, Before, Repeated, Behind, Unseen, SeenOnce, SeenTwice
    <3>2. IsFiniteSet(Passed) /\ IsFiniteSet(Repeated)
      BY <1>1, <3>1, SetsTyped, Zenon
    <3> QED BY <3>2, FS_Subset, FS_CardinalityType, Zenon
  <2>11. /\ Cardinality(Passed') <= removed' /\ Cardinality(Repeated') <= inserted'
         /\ walk' = "answered" /\ LastPage' => Cardinality(Unseen') <= removed'
    <3>1. removed \in Nat /\ inserted \in Nat /\ removed' = removed /\ inserted' = inserted
      BY <1>1, <1>2 DEF PageTypes
    <3>2. Cardinality(Passed) \in Nat /\ Cardinality(Repeated) \in Nat
      BY <2>10, Zenon
    <3> QED BY <2>6, <2>7, <2>8, <2>9, <2>10, <3>1, <3>2, SMTT(30)
  <2> QED BY <1>2, <2>11, Zenon DEF WalkInv
<1> QED BY <1>9, <1>10, <1>11, Zenon DEF PageInv

\* With the count, the client knows how far the listing reaches.
LEMMA TotalKeeps == PageInv /\ FetchTotal => PageInv'
<1> SUFFICES ASSUME PageInv, FetchTotal PROVE PageInv'
  OBVIOUS
<1>1. PageTypes /\ PageFits /\ WalkInv
  BY Zenon DEF PageInv
<1>2. /\ walk = "counting" /\ total' = Cardinality(Matching(wanted, rows)) /\ walk' = "answered"
      /\ wanted' = wanted /\ rows' = rows /\ page' = page /\ seen' = seen /\ stable' = stable
      /\ removed' = removed /\ inserted' = inserted /\ writes' = writes
      /\ items' = items /\ between' = between
  BY Zenon DEF FetchTotal, worldOf
<1>3. total' \in Nat /\ total' <= Cardinality(Id) /\ Cardinality(Id) \in Nat
  <2>1. total' \in Nat /\ total' <= Cardinality(Id)
    BY <1>1, <1>2, RankTyped, Zenon DEF PageTypes
  <2> QED BY <2>1, PageAssumption, FS_CardinalityType, Zenon
<1>4. PageTypes'
  <2>1. total' \in -1..Cardinality(Id)
    BY <1>3
  <2> QED BY <1>1, <1>2, <2>1, Zenon DEF PageTypes
<1>5. PageFits'
  BY <1>1, <1>2, Zenon DEF PageFits, Fetched
<1>6. WalkInv'
  <2> SUFFICES ASSUME Sound(wanted) PROVE WalkInv'
    BY <1>2, Zenon DEF WalkInv
  <2>1. Got' = Got /\ Horizon' = Horizon /\ Horizon = (page + 1) * wanted.size
    BY <1>2, Zenon DEF Got, Horizon, Fetched
  <2>2. Unseen' = Unseen /\ Passed' = Passed /\ Repeated' = Repeated
    BY <1>2, <2>1, Zenon DEF Unseen, SeenOnce, SeenTwice, Passed, Repeated
  <2>3. ASSUME LastPage' PROVE Unseen = Passed
    <3>1. wanted.size \in Nat \ {0} /\ page + 1 \in Nat /\ total' \in Int /\ Horizon \in Nat
      <4>1. page \in Nat
        BY <1>1 DEF PageTypes
      <4> QED BY <1>1, <1>3, <4>1, SetsTyped
    <3>2. TotalPages' <= page + 1
      <4>1. wanted.count # "none"
        BY <1>1, <1>2, Zenon DEF PageFits
      <4> QED BY <1>2, <2>3, <4>1, Zenon DEF LastPage
    <3>3. /\ TotalPages' \in Int
          /\ page + 1 < TotalPages' <=> (page + 1) * wanted.size < total'
      BY <1>2, <3>1, PageCount, Zenon DEF TotalPages
    <3>4. total' <= Horizon
      BY <2>1, <3>1, <3>2, <3>3
    <3>5. \A i \in Unseen : Rank(wanted, rows, i) \in Nat /\ Rank(wanted, rows, i) < total'
      <4>1. IsTable(rows) /\ Unseen \in SUBSET Matching(wanted, rows)
        BY <1>1, SetsTyped, Zenon DEF PageTypes
      <4> QED BY <1>2, <4>1, RankTyped, RanksRise, Zenon
    <3>6. \A i \in Unseen : Rank(wanted, rows, i) < Horizon
      BY <3>1, <3>4, <3>5
    <3> QED BY <3>6, Zenon DEF Passed, Before
  <2> QED BY <1>1, <1>2, <2>2, <2>3, Zenon DEF WalkInv
<1> QED BY <1>4, <1>5, <1>6, Zenon DEF PageInv

\* The client gets a row of the page once.
LEMMA TimesOnce ==
  ASSUME PageTypes, PageFits, NEW i
  PROVE  Times(i) = IF i \in Range(items) THEN 1 ELSE 0
<1>1. \A m, n \in DOMAIN items : items[m] = items[n] => m = n
  BY Zenon DEF PageFits
<1>2. CASE i \in Range(items)
  <2>1. PICK m \in DOMAIN items : i = items[m]
    BY <1>2, Zenon DEF Range
  <2>2. {n \in DOMAIN items : items[n] = i} = {m}
    BY <1>1, <2>1, Zenon
  <2> QED BY <1>2, <2>2, FS_Singleton, Zenon DEF Times
<1>3. CASE i \notin Range(items)
  <2>1. {n \in DOMAIN items : items[n] = i} = {}
    BY <1>3, Zenon DEF Range
  <2> QED BY <1>3, <2>1, FS_EmptySet, Zenon DEF Times
<1> QED BY <1>2, <1>3, Zenon

\* Turning the page only says where the rows of the page have gone.
LEMMA TurnKeeps == PageInv /\ TurnPage => PageInv'
<1> SUFFICES ASSUME PageInv, TurnPage PROVE PageInv'
  OBVIOUS
<1>1. PageTypes /\ PageFits /\ WalkInv
  BY Zenon DEF PageInv
<1>2. /\ walk = "answered"
      /\ seen' = [i \in Id |-> seen[i] + Times(i)]
      /\ wanted' = wanted /\ rows' = rows /\ items' = items /\ total' = total
      /\ stable' = stable /\ removed' = removed /\ inserted' = inserted
      /\ writes' = writes /\ between' = between
  BY Zenon DEF TurnPage
<1>3. \/ ~LastPage /\ walk' = "asked" /\ page' = page + 1
      \/ LastPage /\ walk' = "done" /\ page' = page
  <2>1. wanted.size \in Nat \ {0} /\ page + 1 \in Nat /\ total \in Int
    BY <1>1, SetsTyped DEF PageTypes
  <2>2. TotalPages \in Int
    BY <2>1, PageCount, Zenon DEF TotalPages
  <2>3. page + 1 < TotalPages <=> ~(TotalPages <= page + 1)
    BY <2>1, <2>2
  <2> QED BY <2>3, Zenon DEF TurnPage, LastPage
<1>4. /\ page \in Nat /\ page + 1 \in Nat /\ wanted.size \in Nat \ {0} /\ total \in Int
      /\ page * wanted.size \in Nat /\ (page + 1) * wanted.size \in Nat
      /\ page + 1 <= (page + 1) * wanted.size
      /\ (page + 1) * wanted.size = page * wanted.size + wanted.size
      /\ Cardinality(Id) \in Nat
  <2>1. page \in Nat /\ page + 1 \in Nat /\ wanted.size \in Nat \ {0} /\ total \in Int
    BY <1>1, SetsTyped DEF PageTypes
  <2> QED BY <2>1, Products, PageAssumption, FS_CardinalityType, Zenon
<1>5. \A i \in Id : /\ seen[i] \in Nat /\ seen'[i] \in Nat
                    /\ i \in Range(items) => seen'[i] = seen[i] + 1
                    /\ i \notin Range(items) => seen'[i] = seen[i]
  <2> SUFFICES ASSUME NEW i \in Id
               PROVE  /\ seen[i] \in Nat /\ seen'[i] \in Nat
                      /\ i \in Range(items) => seen'[i] = seen[i] + 1
                      /\ i \notin Range(items) => seen'[i] = seen[i]
    BY Zenon
  <2>1. seen[i] \in Nat
    BY <1>1, Zenon DEF PageTypes
  <2>2. seen'[i] = seen[i] + Times(i)
    BY <1>2, Zenon
  <2>3. Times(i) = IF i \in Range(items) THEN 1 ELSE 0
    BY <1>1, TimesOnce, Zenon
  <2> QED BY <2>1, <2>2, <2>3
<1>6. ASSUME ~LastPage, page' = page + 1 PROVE page' <= Cardinality(Id)
  <2>1. CASE wanted.count = "none"
    <3>1. Len(items) = wanted.size
      BY <1>6, <2>1, Zenon DEF LastPage
    <3>2. items # <<>>
      BY <1>4, <3>1, Zenon
    <3>3. page * wanted.size + Len(items) <= Cardinality(Id)
      BY <1>1, <1>2, <3>2, Zenon DEF PageFits, Fetched
    <3> QED BY <1>4, <1>6, <3>1, <3>3
  <2>2. CASE wanted.count # "none"
    <3>1. ~(TotalPages <= page + 1)
      BY <1>6, <2>2, Zenon DEF LastPage
    <3>2. /\ TotalPages \in Int
          /\ page + 1 < TotalPages <=> (page + 1) * wanted.size < total
      BY <1>4, PageCount, Zenon DEF TotalPages
    <3>3. total <= Cardinality(Id)
      BY <1>1, <1>4 DEF PageTypes
    <3> QED BY <1>4, <1>6, <3>1, <3>2, <3>3
  <2> QED BY <2>1, <2>2, Zenon
<1>7. PageTypes'
  <2>1. page' \in 0..Cardinality(Id)
    BY <1>1, <1>3, <1>4, <1>6 DEF PageTypes
  <2>2. DOMAIN seen' = Id /\ seen' = [i \in Id |-> seen'[i]]
    BY <1>2, Zenon
  <2>3. seen' \in [Id -> Nat]
    BY <1>5, <2>2, Zenon
  <2>4. walk' \in {"asked", "counting", "answered", "done", "refused", "failed"}
    BY <1>3, Zenon
  <2> QED BY <1>1, <1>2, <2>1, <2>3, <2>4, Zenon DEF PageTypes
<1>8. PageFits'
  BY <1>1, <1>2, <1>3, Zenon DEF PageFits, Fetched
<1>9. WalkInv'
  <2> SUFFICES ASSUME Sound(wanted) PROVE WalkInv'
    BY <1>2, Zenon DEF WalkInv
  <2>1. Got = Range(items) /\ Got' = {} /\ Horizon = (page + 1) * wanted.size
    BY <1>2, <1>3, Zenon DEF Got, Horizon, Fetched
  <2>2. \A i \in stable : /\ seen'[i] = 0 <=> seen[i] = 0 /\ i \notin Got
                          /\ seen'[i] > 0 <=> seen[i] > 0 \/ i \in Got
                          /\ seen'[i] > 1 <=> seen[i] > 1 \/ (seen[i] > 0 /\ i \in Got)
    <3>1. stable \in SUBSET Id
      BY <1>1, RankTyped, Zenon DEF PageTypes, IsTable
    <3> QED BY <1>5, <2>1, <3>1
  <2>3. Unseen' = Unseen /\ SeenOnce' = SeenOnce /\ SeenTwice' = SeenTwice
    BY <1>2, <2>1, <2>2, Zenon DEF Unseen, SeenOnce, SeenTwice
  <2>4. Cardinality(Passed) <= removed /\ Cardinality(Repeated) <= inserted
    BY <1>1, <1>2, Zenon DEF WalkInv
  <2>5. CASE ~LastPage /\ walk' = "asked" /\ page' = page + 1
    <3>1. Horizon' = Horizon
      BY <1>2, <2>1, <2>5, Zenon DEF Horizon, Fetched
    <3>2. Passed' = Passed /\ Repeated' = Repeated
      BY <1>2, <2>3, <3>1, Zenon DEF Passed, Repeated
    <3> QED BY <1>2, <2>4, <2>5, <3>2, Zenon DEF WalkInv
  <2>6. CASE LastPage /\ walk' = "done" /\ page' = page
    <3>1. Cardinality(Unseen) <= removed
      BY <1>1, <1>2, <2>6, Zenon DEF WalkInv
    <3>2. Cardinality(SeenTwice) <= inserted
      <4>1. SeenTwice \in SUBSET Repeated /\ IsFiniteSet(Repeated)
        <5>1. Repeated \in SUBSET stable
          BY Zenon DEF Repeated, Behind, SeenOnce, SeenTwice
        <5> QED BY <1>1, <5>1, SetsTyped, Zenon DEF Repeated
      <4>2. /\ Cardinality(SeenTwice) <= Cardinality(Repeated)
            /\ Cardinality(SeenTwice) \in Nat /\ Cardinality(Repeated) \in Nat
        BY <4>1, FS_Subset, FS_CardinalityType, Zenon
      <4>3. inserted \in Nat
        BY <1>1 DEF PageTypes
      <4> QED BY <2>4, <4>2, <4>3
    <3> QED BY <1>2, <2>3, <2>6, <3>1, <3>2, Zenon DEF WalkInv
  <2> QED BY <1>3, <2>5, <2>6, Zenon
<1> QED BY <1>7, <1>8, <1>9, Zenon DEF PageInv

\* A refused query is never walked.
LEMMA RefuseKeeps == PageInv /\ Refuse => PageInv'
<1> SUFFICES ASSUME PageInv, Refuse PROVE PageInv'
  OBVIOUS
<1>1. /\ walk' \in {"refused", "failed"} /\ Refusal(wanted) # "none"
      /\ wanted' = wanted /\ rows' = rows /\ page' = page /\ seen' = seen /\ stable' = stable
      /\ removed' = removed /\ inserted' = inserted /\ writes' = writes
      /\ items' = items /\ total' = total /\ between' = between
  BY Zenon DEF Refuse, worldOf
<1>2. PageTypes'
  BY <1>1, Zenon DEF PageInv, PageTypes
<1>3. PageFits'
  BY <1>1, Zenon DEF PageInv, PageFits, Fetched
<1>4. WalkInv'
  BY <1>1, Zenon DEF WalkInv
<1> QED BY <1>2, <1>3, <1>4, Zenon DEF PageInv

\* The walk starts with nothing seen, before the first row.
LEMMA PageInitInv == PageInit => PageInv
<1> SUFFICES ASSUME PageInit PROVE PageInv
  BY Zenon
<1>1. /\ wanted \in Queries /\ rows \in Tables /\ stable = Matching(wanted, rows)
      /\ walk = "asked" /\ page = 0 /\ items = <<>> /\ total = 0 /\ seen = [i \in Id |-> 0]
      /\ removed = 0 /\ inserted = 0 /\ writes = 0 /\ between = 0
  BY Zenon DEF PageInit
<1>2. IsTable(rows)
  BY <1>1, TableAssumption, Zenon DEF IsTable, Row
<1>3. wanted.size \in Nat \ {0} /\ MaxWrites \in Nat /\ Cardinality(Id) \in Nat
  BY <1>1, QueryAssumption, PageAssumption, FS_CardinalityType, Zenon
<1>4. PageTypes
  <2>1. /\ page \in 0..Cardinality(Id) /\ total \in -1..Cardinality(Id)
        /\ writes \in 0..MaxWrites
        /\ removed \in 0..writes /\ inserted \in 0..writes /\ between \in 0..writes
    BY <1>1, <1>3
  <2>2. items \in Seq(Id) /\ Len(items) <= wanted.size
    BY <1>1, <1>3
  <2>3. seen \in [Id -> Nat]
    BY <1>1, Zenon
  <2>4. walk \in {"asked", "counting", "answered", "done", "refused", "failed"}
    BY <1>1, Zenon
  <2> QED BY <1>1, <1>2, <2>1, <2>2, <2>3, <2>4, Zenon DEF PageTypes
<1>5. PageFits
  BY <1>1 DEF PageFits, Fetched
<1>6. WalkInv
  <2>1. Horizon = 0 /\ Got = {}
    BY <1>1, <1>3 DEF Horizon, Got, Fetched
  <2>2. \A i \in stable : seen[i] = 0
    BY <1>1, <1>2, RankTyped, Zenon DEF IsTable
  <2>3. SeenTwice = {} /\ SeenOnce = {}
    BY <2>1, <2>2 DEF SeenTwice, SeenOnce
  <2>4. Passed = {}
    <3>1. \A i : Rank(wanted, rows, i) \in Nat
      BY <1>2, RankTyped, Zenon
    <3>2. \A i : ~(Rank(wanted, rows, i) < Horizon)
      BY <2>1, <3>1
    <3> QED BY <3>2, Zenon DEF Passed, Before
  <2>5. Repeated = {}
    BY <2>3, Zenon DEF Repeated, Behind
  <2>6. Cardinality(Passed) <= removed /\ Cardinality(Repeated) <= inserted
    <3>1. Cardinality(Passed) = 0 /\ Cardinality(Repeated) = 0
      BY <2>4, <2>5, FS_EmptySet, Zenon
    <3> QED BY <1>1, <3>1
  <2> QED BY <1>1, <2>6, Zenon DEF WalkInv
<1> QED BY <1>4, <1>5, <1>6, Zenon DEF PageInv

\* The inductive invariant of the walk: what the client has and has not got so far is told
\* by the ranks of the rows and the beginning of the next page.
LEMMA PageInvariant == PageSpec => []PageInv
<1>1. PageInit => PageInv
  BY PageInitInv, Zenon
<1>2. PageInv /\ [PageNext]_pageVars => PageInv'
  <2>1. PageInv /\ PageNext => PageInv'
    BY RefuseKeeps, FetchKeeps, TotalKeeps, TurnKeeps, CrudKeeps, Zenon DEF PageNext
  <2>2. PageInv /\ UNCHANGED pageVars => PageInv'
    BY Zenon DEF pageVars, PageInv, PageTypes, PageFits, WalkInv, Fetched, Got, Horizon,
       Unseen, SeenOnce, SeenTwice, Passed, Repeated, LastPage, TotalPages
  <2> QED BY <2>1, <2>2, Zenon
<1> QED BY <1>1, <1>2, PTL DEF PageSpec

\* The pages of a listing add up, for every set of rows, every query and any number of
\* writes during the walk: whichever way QueryOperations counts, a client that walks a
\* listing ordered by the creation times to its end misses no more of the rows nobody
\* touched than were removed from it, gets no more of them twice than were inserted, and
\* no page lies beyond the total that was counted with it.
THEOREM PagesComplete == PageSpec => []PagesAddUp
<1>1. PageInv => PagesAddUp
  <2> SUFFICES ASSUME PageInv PROVE PagesAddUp
    BY Zenon
  <2>1. PageTypes /\ PageFits /\ WalkInv
    BY Zenon DEF PageInv
  <2>2. PageTypeOK
    <3>1. removed \in 0..MaxWrites /\ inserted \in 0..MaxWrites /\ between \in 0..MaxWrites
      BY <2>1, PageAssumption DEF PageTypes
    <3>2. stable \in SUBSET DOMAIN rows
      BY <2>1, RankTyped, Zenon DEF PageTypes
    <3>3. \A i \in DOMAIN rows : rows[i].created \in Nat /\ rows[i].cell \in Value \cup {Null}
      <4>1. \A i \in DOMAIN rows : rows[i] \in Row
        BY <2>1, Zenon DEF PageTypes, IsTable
      <4> QED BY <4>1, Zenon DEF Row
    <3> QED BY <2>1, <3>1, <3>2, <3>3, Zenon DEF PageTypeOK, PageTypes, IsTable
  <2>3. MissedAtMostRemoved /\ RepeatedAtMostInserted
    <3> SUFFICES ASSUME walk = "done", Ordered
                 PROVE  /\ Cardinality({i \in stable : seen[i] = 0}) <= removed
                        /\ Cardinality({i \in stable : seen[i] > 1}) <= inserted
      BY Zenon DEF MissedAtMostRemoved, RepeatedAtMostInserted
    <3>1. Sound(wanted)
      BY <2>1, Zenon DEF Sound, Ordered, PageTypes, PageFits
    <3>2. Cardinality(Unseen) <= removed /\ Cardinality(SeenTwice) <= inserted
      BY <2>1, <3>1, Zenon DEF WalkInv
    <3>3. Got = {}
      BY Zenon DEF Got, Fetched
    <3>4. /\ Unseen = {i \in stable : seen[i] = 0}
          /\ SeenTwice = {i \in stable : seen[i] > 1}
      BY <3>3, Zenon DEF Unseen, SeenTwice
    <3> QED BY <3>2, <3>4, Zenon
  <2>4. PageWithinTotal
    <3> SUFFICES ASSUME walk = "answered", items # <<>>, wanted.count # "none", between = 0
                 PROVE  page * wanted.size + Len(items) <= total /\ page < TotalPages
      BY Zenon DEF PageWithinTotal
    <3>1. page * wanted.size + Len(items) <= total
      BY <2>1, Zenon DEF PageFits
    <3>2. page \in Nat /\ wanted.size \in Nat \ {0} /\ total \in Int
      BY <2>1, SetsTyped DEF PageTypes
    <3>3. page * wanted.size \in Nat
      BY <3>2, Products, Zenon
    <3>4. Len(items) \in Nat /\ Len(items) > 0
      BY <2>1 DEF PageTypes
    <3>5. page * wanted.size < total
      BY <3>1, <3>2, <3>3, <3>4
    <3>6. page < TotalPages
      BY <3>2, <3>5, PageCount, Zenon DEF TotalPages
    <3> QED BY <3>1, <3>6, Zenon
  <2> QED BY <2>2, <2>3, <2>4, Zenon DEF PagesAddUp
<1> QED BY <1>1, PageInvariant, PTL

-----------------------------------------------------------------------------
\* The comparisons that have an opposite.
Comparisons == {"equals", "=", ">", "<", "is", "after", "before"}

\* The operators that have an opposite.
LEMMA Opposites ==
  ASSUME NEW op, Opposite(op) # op
  PROVE  \/ op = "isEmpty" /\ Opposite(op) = "isNotEmpty"
         \/ op = "contains" /\ Opposite(op) = "doesNotContain"
         \/ op \in Comparisons
BY Zenon DEF Opposite, Comparisons

\* An operator and its opposite are meant for the same types of column.
LEMMA OppositeKinds ==
  ASSUME NEW op, Opposite(op) # op
  PROVE  /\ op \in EmptyTests <=> Opposite(op) \in EmptyTests
         /\ op \in StringOps <=> Opposite(op) \in StringOps
         /\ op \in DateOps <=> Opposite(op) \in DateOps
         /\ op \in NumberOps <=> Opposite(op) \in NumberOps
         /\ op \in UuidOps <=> Opposite(op) \in UuidOps
         /\ op # "isAnyOf" /\ Opposite(op) # "isAnyOf"
BY DEF Opposite, EmptyTests, StringOps, DateOps, NumberOps, UuidOps

\* Two comparisons with opposite operators never agree.
LEMMA ComparisonsSplit ==
  ASSUME NEW op \in Comparisons, NEW c \in Int, NEW v \in Int
  PROVE  Compare(op, c, v) <=> ~Compare(Opposite(op), c, v)
<1>1. CASE op = "equals"
  BY <1>1, Zenon DEF Compare, Opposite
<1>2. CASE op = "="
  BY <1>2, Zenon DEF Compare, Opposite
<1>3. CASE op = ">"
  BY <1>3 DEF Compare, Opposite
<1>4. CASE op = "<"
  BY <1>4 DEF Compare, Opposite
<1>5. CASE op = "is"
  BY <1>5, Zenon DEF Compare, Opposite
<1>6. CASE op = "after"
  BY <1>6 DEF Compare, Opposite
<1>7. CASE op = "before"
  BY <1>7 DEF Compare, Opposite
<1> QED BY <1>1, <1>2, <1>3, <1>4, <1>5, <1>6, <1>7, Zenon DEF Comparisons

\* A filter's verdict does not depend on which of two opposite operators it has.
LEMMA VerdictsAgree ==
  ASSUME NEW kind, kind # "bool", NEW f, NEW g, Opposite(f.op) # f.op,
         g.op = Opposite(f.op), g.field = f.field, g.list = f.list, g.raw = f.raw
  PROVE  Verdict(kind, f) = Verdict(kind, g)
<1>1. /\ f.op \in EmptyTests <=> g.op \in EmptyTests
      /\ f.op \in StringOps <=> g.op \in StringOps
      /\ f.op \in DateOps <=> g.op \in DateOps
      /\ f.op \in NumberOps <=> g.op \in NumberOps
      /\ f.op \in UuidOps <=> g.op \in UuidOps
      /\ f.op # "isAnyOf" /\ g.op # "isAnyOf"
  BY OppositeKinds
<1>2. UuidVerdict(f) = UuidVerdict(g)
  BY <1>1, Zenon DEF UuidVerdict
<1>3. DateVerdict(f) = DateVerdict(g)
  BY <1>1, Zenon DEF DateVerdict
<1>4. IntVerdict(f) = IntVerdict(g)
  BY <1>1, Zenon DEF IntVerdict
<1>5. TextVerdict(f) = TextVerdict(g)
  BY <1>1, Zenon DEF TextVerdict
<1> QED BY <1>2, <1>3, <1>4, <1>5, Zenon DEF Verdict

\* A comparison is applied only when it has a value.
LEMMA AppliedHasValue ==
  ASSUME NEW kind, NEW f, Verdict(kind, f) = "apply", f.op \notin EmptyTests
  PROVE  f.raw # <<>>
BY Zenon DEF Verdict, UuidVerdict

\* Every value but null passes one of two opposite filters, and none passes both.
LEMMA KeepsSplit ==
  ASSUME NEW kind, kind # "bool", NEW f, NEW g, Opposite(f.op) # f.op,
         g.op = Opposite(f.op), g.raw = f.raw,
         f.op \notin EmptyTests => f.raw[1] \in Int,
         NEW c \in Value \cup {Null}
  PROVE  /\ ~(Keeps(kind, f, c) /\ Keeps(kind, g, c))
         /\ Keeps(kind, f, c) \/ Keeps(kind, g, c)
              <=> (f.op = "isEmpty" /\ kind # "str") \/ c # Null
<1>1. c \in Int /\ Null # 0
  <2>1. c \in Nat \/ c = Null
    BY PageAssumption, Zenon
  <2> QED BY <2>1 DEF Null
<1>2. CASE f.op = "isEmpty" /\ g.op = "isNotEmpty"
  <2>1. Keeps(kind, f, c) <=> IF kind = "str" THEN c = 0 ELSE c = Null
    BY <1>2, Zenon DEF Keeps, EmptyTests
  <2>2. Keeps(kind, g, c) <=> c # Null /\ (kind = "str" => c # 0)
    BY <1>2, Zenon DEF Keeps, EmptyTests
  <2> QED BY <1>1, <1>2, <2>1, <2>2, Zenon
<1>3. CASE f.op = "contains" /\ g.op = "doesNotContain"
  <2>1. Keeps(kind, f, c) <=> c # Null /\ <<c, f.raw[1]>> \in IContains
    BY <1>3, Zenon DEF Keeps, EmptyTests
  <2>2. Keeps(kind, g, c) <=> c # Null /\ <<c, f.raw[1]>> \notin IContains
    BY <1>3, Zenon DEF Keeps, EmptyTests
  <2> QED BY <1>3, <2>1, <2>2, Zenon
<1>4. CASE f.op \in Comparisons
  <2>1. Keeps(kind, f, c) <=> c # Null /\ Compare(f.op, c, f.raw[1])
    BY <1>4, Zenon DEF Keeps, EmptyTests, Comparisons
  <2>2. Keeps(kind, g, c) <=> c # Null /\ Compare(g.op, c, f.raw[1])
    BY <1>4, Zenon DEF Keeps, EmptyTests, Comparisons, Opposite
  <2>3. f.raw[1] \in Int
    BY <1>4, Zenon DEF EmptyTests, Comparisons
  <2>4. Compare(f.op, c, f.raw[1]) <=> ~Compare(g.op, c, f.raw[1])
    BY <1>1, <1>4, <2>3, ComparisonsSplit
  <2>5. f.op # "isEmpty"
    BY <1>4, Zenon DEF Comparisons
  <2> QED BY <2>1, <2>2, <2>4, <2>5, Zenon
<1> QED BY <1>2, <1>3, <1>4, Opposites, Zenon

LEMMA MemberTyped ==
  ASSUME NEW S, NEW s \in Seq(S), NEW n \in DOMAIN s
  PROVE  s[n] \in S
OBVIOUS

\* A filter and the one with the opposite operator are both applied or neither, and split
\* the rows whose column is not null, for every column type but the Booleans, every value
\* of the filter, every table and every way texts contain each other: what
\* create_query_for_filter says of a pair of operators is what a user takes them for.
THEOREM OppositesPart == PageSpec => []OppositesSplit
<1>1. PageInv => OppositesSplit
  <2> SUFFICES ASSUME PageInv, NEW n \in DOMAIN wanted.filters,
                      Opposite(wanted.filters[n].op) # wanted.filters[n].op, wanted.kind # "bool"
               PROVE  LET f == wanted.filters[n]
                          g == [f EXCEPT !.op = Opposite(f.op)]
                      IN  /\ Verdict(wanted.kind, f) = Verdict(wanted.kind, g)
                          /\ Verdict(wanted.kind, f) = "apply" =>
                               \A i \in DOMAIN rows :
                                 LET c == rows[i].cell
                                     test == f.op = "isEmpty" /\ wanted.kind # "str"
                                 IN  /\ ~(Keeps(wanted.kind, f, c) /\ Keeps(wanted.kind, g, c))
                                     /\ (Keeps(wanted.kind, f, c) \/ Keeps(wanted.kind, g, c))
                                          = (test \/ c # Null)
    BY Zenon DEF OppositesSplit
  <2> DEFINE f == wanted.filters[n]
             g == [f EXCEPT !.op = Opposite(f.op)]
  <2>1. f \in [field : STRING, op : STRING, list : BOOLEAN, raw : Seq(Int)]
    <3>1. wanted.filters \in Seq([field : STRING, op : STRING, list : BOOLEAN, raw : Seq(Int)])
      BY QueryAssumption, Zenon DEF PageInv, PageTypes
    <3> QED BY <3>1, MemberTyped, Zenon
  <2>2. /\ Opposite(f.op) # f.op
        /\ g.op = Opposite(f.op) /\ g.field = f.field /\ g.list = f.list /\ g.raw = f.raw
        /\ f.raw \in Seq(Int)
    BY <2>1, Zenon
  <2> HIDE DEF f, g
  <2>3. Verdict(wanted.kind, f) = Verdict(wanted.kind, g)
    BY <2>2, VerdictsAgree, Zenon
  <2>4. ASSUME Verdict(wanted.kind, f) = "apply", NEW i \in DOMAIN rows
        PROVE  /\ ~(Keeps(wanted.kind, f, rows[i].cell) /\ Keeps(wanted.kind, g, rows[i].cell))
               /\ Keeps(wanted.kind, f, rows[i].cell) \/ Keeps(wanted.kind, g, rows[i].cell)
                    <=> (f.op = "isEmpty" /\ wanted.kind # "str") \/ rows[i].cell # Null
    <3>1. f.op \notin EmptyTests => f.raw[1] \in Int
      <4>1. f.op \notin EmptyTests => f.raw # <<>>
        BY <2>4, AppliedHasValue, Zenon
      <4> QED BY <2>2, <4>1
    <3>2. rows[i].cell \in Value \cup {Null}
      <4>1. rows[i] \in Row
        BY Zenon DEF PageInv, PageTypes, IsTable
      <4> QED BY <4>1, Zenon DEF Row
    <3>3. /\ wanted.kind # "bool" /\ Opposite(f.op) # f.op /\ g.op = Opposite(f.op)
          /\ g.raw = f.raw
      BY <2>2, Zenon
    <3>4. ASSUME NEW k, k # "bool", NEW c \in Value \cup {Null}
          PROVE  /\ ~(Keeps(k, f, c) /\ Keeps(k, g, c))
                 /\ Keeps(k, f, c) \/ Keeps(k, g, c) <=> (f.op = "isEmpty" /\ k # "str") \/ c # Null
      BY <3>1, <3>3, <3>4, KeepsSplit, Zenon
    <3> QED BY <3>2, <3>3, <3>4, Zenon
  <2> QED BY <2>3, <2>4, Zenon DEF f, g
<1> QED BY <1>1, PageInvariant, PTL
=============================================================================
